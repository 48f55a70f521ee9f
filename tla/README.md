# SeaORM in TLA+

A verification project for SeaORM: TLA+ modules that model the parts of the
ORM whose behaviour is hard to test, TLC configurations that check them on small
instances, and TLAPS proofs for every value of the constants. Paths below are
relative to the repository root; the main crate is `src/src`.

## 1. The system

SeaORM turns entity operations into SQL and runs them through a driver. The code
that keeps state, and that several callers share, is:

| Part | Source | State | Operations | What makes it correct |
|---|---|---|---|---|
| Transactions | `src/src/database/transaction.rs`, `stream/transaction.rs` | handles (`open`), one shared `Arc<Mutex<InnerConnection>>`, the driver's depth counter, the session's savepoints | begin (root, nested, with settings), execute, stream, commit, rollback, drop, cancellation of a waiting future | durability follows what the client was told; handle, counter and savepoints agree; the connection comes back idle |
| rusqlite driver | `src/src/driver/rusqlite.rs` | one connection slot `Idle / Loaned / Disconnected` behind a mutex; `transaction_depth` | acquire with timeout, execute, loan, return on drop, close, nested begin/commit/rollback | one user of the connection at a time; nobody else's statement inside a transaction; the loan always comes back; callers get the connection or a timeout |
| sqlx drivers | `src/src/driver/sqlx_*.rs` | external pool and transaction manager | begin, `set_transaction_config`, execute, stream | same as transactions |
| Migrator | `sea-orm-migration/src` | the migration table, the schema, the pending list computed from both | up, down, fresh, refresh, reset, status; per-migration transaction or not | the recorded migrations are the applied ones; order; crash and concurrent runs |
| Schema builder | `src/src/schema` | registered entities, dependency graph, the schema as it was read at the start | `sorted_tables`, `apply`, `sync`, by several processes that may stop between statements | every entity is complete when the answer is Ok; tables come after those they reference; a second sync has nothing to do |
| RBAC | `src/src/rbac`, `database/restricted_connection.rs` | seven tables; a context of names and ids per administrator; the engine in a mount all clones of a connection share | `RbacContext` operations, `load_rbac`, `replace`, `user_can_run`, role hierarchy enumeration | a statement is decided on one engine, as its rows say; names lead to the rows they were given; an engine is not replaced by an older one; enumeration ends |
| Mock database | `src/src/database/mock.rs`, `driver/mock.rs` | queued results, two counters outside the mutex, the open transaction, the log | begin/commit/rollback, execute, query, drain, by clones of one connection | the log mirrors what was run; each result is given once, in order |
| Executors and loaders | `src/src/executor`, `src/src/query/loader.rs` | cursor and paginator state | pages, cursors, consolidation of joined rows, loaders | no row lost or repeated; conditions that accumulate in a cursor do no harm; joins and loaders agree |
| Inserts, updates, deletes | `src/src/executor/{insert,update,delete}.rs`, `src/src/query/{insert,update}.rs` | the key that was set, the id the server reports | insert, upsert, insert many, update, save, delete, with RETURNING or a second statement | the answer is the row that was written; a refusal wrote nothing |
| Active models | `src/src/entity/active_model*.rs`, `sea-orm-macros/src/derives/active_model_ex.rs` | per-field Set/Unchanged/NotSet, nested changes | save, insert, update, delete with relations | the database ends as the nested model says, or as it was |

Interaction: a `DatabaseConnection` hands a connection to a `DatabaseTransaction`
(by pool checkout or, for rusqlite, by loan); nested transactions clone the `Arc`
and share the mutex; a `TransactionStream` keeps the mutex guard while it lives;
dropping the last `Arc` gives the connection back. The migrator, the schema
builder, RBAC loading and nested saves are clients of these transactions.

Everything else in the workspace (code generator, CLI, macros, value conversion,
query building) keeps no state between calls; `PROJECT.json` lists every part
with the reason why it is or is not modelled.

The behaviours that are hard, and what the models are for:

* **Concurrency.** Threads on the rusqlite slot; futures waiting for the
  transaction mutex; runners and processes on one database; loaders, statements
  and administrators around one access control engine.
* **Failure.** A refused BEGIN, SAVEPOINT, COMMIT or RELEASE; a panic under a
  mutex; a crash between any two statements of a migration or a sync.
* **Ordering.** Handles ended out of order; migrations in list order; tables
  after the ones they reference.
* **Stale reads.** The pending list and the live schema are each read once and
  acted on later; so are the ids in an `RbacContext`, the tables of an engine, the
  kids and links a nested save compares with, and the last row of a page.
* **Timeouts.** `acquire` gives up after its deadline; a waiting future is dropped.

## 2. Modules

| Module | Models | State | Actions |
|---|---|---|---|
| `SqlSession` | the SQL session under a connection (external, as the drivers use it) | `inTx`, savepoint stack `sp` with names, `view`, `durable` | `StmtBegin`, `StmtSavepoint(n)`, `StmtRelease(n)`, `StmtRollbackTo(n)`, `StmtCommit`, `StmtRollback`, `StmtWrite(w)`; each is enabled exactly when the server accepts it |
| `Transaction` | `DatabaseTransaction`, `TransactionStream`, begin/commit/rollback of every driver | the session, `depth`, per handle `status` and `anc` (itself and the handles around it), `writer` of each write, `lock` (whose stream holds the mutex) | `BeginRoot`, `BeginNested`, `BeginWait`, `BeginResume`, `Commit`, `Rollback`, `EndWait`, `Cancel`, `DropHandle`, `Execute`, `StreamRaw`, `StreamDrop` |
| `NestedTxn` | what a connection promises: a stack of saved views, no names, no counter | `view`, `durable`, `saves` | `Begin`, `Write`, `Commit`, `Rollback` |
| `RusqliteShared` | `RusqliteSharedConnection`: the slot, its mutex, `acquire`, loans and their return | the session, `slot`, `guard`, `poisoned`, per thread `pc`, `call`, `late`, `loan` | `Call`, `TryLock`, `Check`, `Spin`, `Expire`, `Execute`, `ExecuteFails`, `ExecutePanics`, `Lend`, `Close`, `OpenTxn`, `TxnWrite`, `CommitTxn`, `RollbackTxn`, `EndStream`, `Return` |
| `Migrator` | `up`, `down`, `fresh`, `refresh`, `reset`, `uninstall` (`with_self.rs`) with `exec_up_with`, `exec_down_with` and `drop_everything` (`exec.rs`) | migration table (`table`, `appliedAt`), schema (`effect`), per runner `pc`, `phases`, `files`, `steps`, `todo`, `cur`, `work`, `drops`, `answer` | `Start`, `Install`, `List`, `Begin`, `Body`, `Record`, `EndLoop`, `ListTables`, `Drop`, `EndDrop`, `Uninstall`, `Stop` |
| `SchemaSync` | `SchemaBuilder::apply`, `sync`, `sorted_tables`, `TopologicalSort` | live schema `db`, per process `registry`, `existing` (the schema as read), the sorter (`top`, `order`), `todo` | `Start`, `Pop`, `EndSort`, `PushLeftover`, `NextTable`, `Exec`, `Finish`, `Stop` |
| `RbacEngine` | `from_snapshot`, `enumerate_role`, `user_can`, `get_user_role_permissions` (`rbac/engine/`) as operators on a snapshot, and what they mean on the rows (`Permits`, `Below`, `Closed`) | | |
| `Rbac` | `RbacContext`, `load_from`, `RbacEngineMount`, `user_can_run` | the tables `db`, `next` ids, per administrator `ctx`, per loader `load`, the mount's `engine`, per statement `run` | `LoadContext`, `AddNamed`, `GrantRole`, `RevokeRole`, `Override`, `AddHierarchy`, `AssignRole`, `LoadBegin`, `LoadRead`, `LoadFail`, `Replace`, `RunBegin`, `WalkRole`, `Decide`, `RunEnd` |
| `Cursor`, `Paginator` | `executor/cursor.rs`, `executor/paginator.rs` as operators on a cursor or a paginator and a table | | |
| `Pages` | a program that reads a table page by page while it changes | `table`, `way`, `cursor`, `pages`, `total`, `got`, `done` | `FetchByCursor`, `FetchAndNext`, `Insert`, `Delete` |
| `NestedSave` | `ActiveModelEx::action` and `delete` as the macro generates them, `establish_links`, `set_parent_key`, `clear_parent_key` | the rows `db`, the transaction's `work`, what the program has `seen`, `call`, `at`, `left`, `toLink` | `Begin`, `Owner`, `Row`, `KidRow`, `FindKids`, `Drop`, `Kid`, `Tag`, `FindLinks`, `DropLinks`, `Link`, `UnlinkAll`, `DropRow`, `Turn`, `Commit`, `Fails`; others: `PutKid`, `TakeKid`, `PutLink`, `TakeLink` |
| `Reading` | `executor/consolidate.rs`, `query/loader.rs` as operators on sequences of rows | | |
| `Relations` | `NestedSave` read back by `Reading`: the joins of its rows | | |
| `Executor` | `exec_insert*`, `Updater`, `save`, `delete` of single models, and the statement that reads back | the table `db`, `next`, SQLite's `rowid`, per client the model it has (`have`) and its `call`; `meant`, what was last Set | `Insert`, `Update`, `Save`, `Delete`, `Read`, `ReadFails` |
| `MockConnection` | `MockDatabaseConnection` over `MockDatabase` | `counters`, per caller the statement it has counted and not run (`asks`), `open`, `log`, `spent`, `broken` (the mutex), the handles that `live`; what `ran` and what was `told` | `Ask`, `Answer`, `BeginMock`, `EndMock`, `Drain` |
| `MC*` | instances for TLC: symmetry sets, builds, registries, sets of faults | | |
| `*Proofs` | theorems about the module they extend | | |

`Transaction` and `RusqliteShared` both extend `SqlSession`; `Transaction`
instantiates `NestedTxn` under a refinement mapping. `RusqliteShared` keeps the
transaction on a loan one level deep, since `Transaction` has the levels, and
`Transaction` starts from a connection that nobody else holds, which is what
`RusqliteShared` shows (`SingleUser`). `Migrator`, `Rbac` and `NestedSave` take a
transaction as atomic at its commit, which is what `Transaction` shows. `Pages`
extends `Paginator`, which extends `Cursor` for the order of rows; `Relations`
extends `NestedSave` and `Reading`.

How the state corresponds to the code:

* A `status` of `"beginning"`, `"committing"` or `"rollingback"` is a future
  suspended in `self.conn.lock().await`. `"dropping"` is a handle that goes out
  of scope after an error with `open` still true: the mutex has been released,
  others may run, and `Drop` runs `start_rollback` as a step of its own.
  `"panicked"` is the `panic!` in `Drop`, or the arithmetic of rusqlite at depth 0.
* The statement of a commit or a rollback is chosen by the shared `depth`, as in
  the drivers, and not by the handle that asks. At depth 0, rusqlite computes
  `0u32 - 1`: a debug build panics, a release build names a savepoint that does
  not exist; both are outcomes of `AtDepthZero`.
* `set_transaction_config` runs before BEGIN on MySQL, which refuses it in an open
  transaction, and after it on PostgreSQL, which refuses it in a savepoint.
* `effect[m][p]` counts how often statement `p` of migration `m` took effect. In a
  transaction it changes with the commit, together with the record.
* In `SchemaSync` the statements for a table are a set, `todo`, of which those whose
  `Turn` it is are `Due`, in the order of the code (table or columns, foreign keys,
  indexes, unique columns, drops); inside a kind the order is that of declaration, hash
  maps included, and is left open. A table without existing counterpart is `Absent`.
* In `Rbac`, an operation of the context is one action, since it is one transaction and
  the context is `&mut`; it commits or is refused, and a refused one leaves in the
  context the ids its inserts had got (`self.tables.insert` before `commit`). A load is
  eight steps, the seven SELECTs of `load_from` and `replace`, and anything may happen
  between them. Deciding a statement holds the read lock from `RunBegin` until it is
  `decided`, one step for each role of the walk.
* In `Cursor`, `where`, `order` and `limit` are the query's and stay from one call to the
  next, as in the code: conditions pile up, order and limit are replaced. Rows with the
  same key come in the order the server likes, which may be another for each page.
* In `NestedSave`, `work` is what the transaction sees: its own writes and, at READ
  COMMITTED, those others have committed. `at` follows the generated code: belongs-to
  before the row, has-one and has-many after it, many-to-many last; `delete` goes the
  other way. HasOne is a Replace of at most one kid.
* In `Executor`, a call that has RETURNING is one step and a call that has not is two; the
  other clients write in between. What the server counts as `rows_affected` and reports as
  `last_insert_id` is external and differs by server, and on MySQL by an option of the
  connection (both counts are tried). `stirred` are the rows others wrote meanwhile.
* In `MockConnection`, a call is two steps: `Ask` is the `fetch_add` on the counter, before
  the lock, and `Answer` all that happens under it. Begin, commit and rollback are one
  each. A mark of the log has the depth at which it was pushed, which is the number in
  the name of the savepoint, and whose it is, which the code does not keep: commit and
  rollback know no handle, and what is begun on two clones is nested in one entry.
* Several modules define a `Slip` beside an operation: the same step with a
  mistake a maintainer could make. No action uses one. `PROJECT.json` pairs each
  with the property that finds it when it takes the operation's place.

## 3. Runs

| Run | Checks | Instance | Distinct states |
|---|---|---|---|
| `txn_stack` | `CommittedIsDurable`, `OnlyCommittedIsDurable` | rusqlite, stack-like client, 4 handles, 2 writes, BEGIN/COMMIT/RELEASE refused at will | 54,957 |
| `txn_shared` | `ReturnedIdle`, `ImplementsNestedTxn` | rusqlite, handles in any order, 4 handles, 1 write, SAVEPOINT refused too | 124,221 |
| `txn_streams` | `SessionInStep`, `WaitersServed` | MySQL, 3 handles, streams on two of them, cancellation | 80,729 |
| `shared` | `SingleUser`, `SettledIsDurable`, `DurableIsSettled`, `LoanComesBack`, `ClosedForGood`, `AcquireEnds`, `LoanIsReturned` | 2 threads, 2 writes, 2 calls each | 67,039 |
| `mig_txn` | `TxnAtomic` | 3 runners of 1 operation each, 2 transactional strict migrations, all side by side | 123,409 |
| `mig_team` | `Accounted`, `PrefixKept`, `OkMeansDone` | 2 runners of 2 operations, an old and a new build, one migration in a transaction and one outside, 2 statements each, every operation, no transaction around drops | 1,186,513 |
| `schema_releases` | `TypeOK`, `LoneSyncProceeds`, `SyncedStaysSynced`, `OkIsComplete` | 2 processes of 2 calls, 3 releases of two tables and a circle of tables, PostgreSQL and SQLite | 1,749,373 |
| `rbac` | `DecisionsRight`, `MissingRoleIsTorn`, `GrantsReachTheirNames`, `ListingAgrees`, `EngineAdvances`, `LoadsEnd` | 1 administrator with 2 of 8 operations, 1 loader, 1 session, 2 users, 3 statements | 224,216 |
| `pages` | `TypeOK`, `CursorInOrder`, `CursorComplete`, `PaginatorShifts` | every table over 5 rows of two columns, pages of 1 and 2, 3 writes in between, all ways to walk | 678,562 |
| `relations` | `TypeOK`, `SavedAsAsked`, `CallsStandAlone`, `ReadsAgree` | 2 parents, 2 kids, 2 tags, every call on one parent, 1 write of another connection, all kinds of key | 1,791,910 |
| `executor` | `TypeOK`, `AnswersAreOwn`, `RefusedWroteNothing`, `NotFoundMeansTaken`, `NothingSetIsLost` | 2 clients with 3 calls between them, 2 keys, 2 values, 2 columns, inserts of one row and of two; RETURNING, MySQL and SQLite without it, keys given by the server and by the client | 820,951 |

The type invariants of `Transaction`, `RusqliteShared`, `Migrator` and `Rbac` are proved
(section 4), and no run repeats them. All that is said of `MockConnection` is proved without
hypotheses on its clients, so it has no run in `PROJECT.json` either; two configurations of
`MCMockConnection` try its invariants on an instance. `Mock.cfg` (3 callers, 2 handles ended in
any order, 3 statements, 2 results to execute and 1 to query) has `MockTypeOK`,
`NeverPanics`, `LogComplete`, `AnsweredOnce` and `AnsweredInTurn`, and 236,206 distinct states;
`MockNested.cfg` (2 callers, 3 handles of which the newest is ended first, 2 statements)
has `LogNests`, and 75,572.

What they show:

* **Transactions.** With a client that uses nested handles like a stack, a write is
  durable exactly when its handle and every handle around it answered Ok to
  `commit`, also when statements are refused (`txn_stack`). With a client that ends
  handles in any order that equivalence cannot hold, since the driver acts on the
  youngest level, whoever asks; what remains is that the connection behaves as *one*
  stack of nested transactions and comes back idle (`txn_shared`). Streams may hold
  the mutex while others begin, end, are cancelled or dropped without the counter
  losing step, and those who wait are answered (`txn_streams`).
* **rusqlite.** A write answered Ok is never lost in, and never leaks through,
  another thread's transaction; one thread uses the connection; the slot is `Loaned`
  exactly while somebody holds the connection; a close stays a close; every `acquire`
  ends, also for a thread that waits for its own loan; every loan comes back.
* **Migrations.** In a transaction a migration and its record never part, with any
  number of runners and crashes. Outside one, they differ only where a runner is at
  work or stopped half way. The recorded migrations are a prefix of the list, and
  Ok means what the operation promises.
* **Schema.** Ok means that every entity is complete, also beside another process;
  a lone sync is never refused, whatever an earlier one left behind; a registry that
  was synced needs no second statement. What the releases must keep to for that is in
  section 3, "Discipline assumed of clients".
* **Access control.** A statement is let through exactly when the one engine it is
  decided on permits all it does, roles inherited, wildcards and overrides included; what
  is listed for a user agrees with it as long as no override names a wildcard. A role may
  be missing from an engine, though `load_from` asks for a consistent snapshot, but only
  when it was read across a commit. A grant asked for by name reaches that name, also
  when the context holds ids that were rolled back: such an id is refused. A decision
  ends in spite of a cycle through the user's role, and a load ends with it.
* **Pages.** The pages of a cursor are in order and repeat nothing whatever is written
  meanwhile, also when one cursor is kept and its conditions pile up; they miss only a
  row whose key is shared with a row they have, so nothing where the order columns are
  a key. A paginator misses a row for each delete and repeats one for each insert, at
  most.
* **Nested saves.** A call that ends well did to every row that nobody else wrote what
  the model asks, and nothing to the others, and left no parent but those it saved or
  found there; kids that are left out are deleted or, where their key may be null, orphaned
  (`Orphaned`, see the disagreements below); a call that nobody disturbs is never
  refused for the order of its own statements. Two ways of reading joins and the loaders
  give the same models, whatever the order of the rows.

* **Inserts and updates.** Whichever of RETURNING, the reported id or the own key leads to
  it, the model a call answers with is the row it wrote, with its values unless another
  client has written them in between; "Failed to find" says that another client took the
  row away; a refused call wrote nothing. The id an insert answers with is that of the last
  row it wrote. The exceptions (`Tells`, `TellsLast`) are in the list of disagreements
  below. A model that was read earlier does not bring old columns back.
* **Mock database.** Whoever begins and ends transactions on clones of one connection, an
  end finds a transaction open; every statement is in the log once and in the order in
  which it was answered, also when the log is drained in the middle of a transaction; the
  log closes each begin with the end of its level, which is that of its handle if the
  newest handle is ended first. No result is given twice or skipped, although its index is
  taken before the lock; but calls that overlap may be logged in one order and answered in
  the other, so `AnsweredInTurn` speaks of calls that do not.

A run that ends in a counterexample, a finding of `PROJECT.json`:

| Run | Property | What the code does |
|---|---|---|
| `txn_mysql_nested_begin` | `CommittedIsDurable` | a nested begin refused on MySQL drops a handle that was built as open, and its rollback takes the enclosing level; the enclosing commit then answers Ok without its writes |

More disagreements were met, and no run is spent on them:

* `sorted_tables` counts tables that are referenced but not registered as sorted
  (`builder.rs`, 306): with as many of them as entities in a circle, the circle is skipped and
  `apply`, which is to "Create all registered tables" (`builder.rs`, 254), answers Ok
  without creating it. `SchemaSync` does so, and `OkIsComplete` fails, with such a registry.
* `TryInsertResult::Conflicted` is said to stand for "an empty `RETURNING` result set"
  (`executor/insert.rs`, 68), but `exec_with_returning` makes "Failed to find inserted item"
  of it.
* An upsert on SQLite without RETURNING leaves `last_insert_rowid` at a row inserted earlier,
  and that row, or none, is the answer. After DO NOTHING with keys of the client's own,
  MySQL may count a row that was left alone, and of several rows the last key is the
  answer, inserted or not.
* An insert of several rows is to answer with "the primary key of the last row inserted"
  (`InsertManyResult`, `executor/insert.rs`, 39; "Primary key of the last inserted row, if
  any", 47). Without RETURNING and with keys the server gives out, the answer is what the
  driver reports as `last_insert_id` (`executor/insert.rs`, 473), and MySQL reports the first id
  of the statement. `Executor` does so; `TellsLast` names the case, and `AnswersAreOwn` fails
  without it. In that case it says only that the id is of one of the rows inserted.
* `ActiveHasMany::Replace` is documented as "deleting any existing children that are not in the
  list" (`active_model_ex.rs`, 56). Where the foreign key may be null, the generated code sets
  it to null and the child stays (`sea-orm-macros/src/derives/active_model_ex.rs`, 1371,
  with `clear_parent_key`, "Clear parent association if the relation is optional",
  `active_model.rs`, 774). `NestedSave` does so; `Orphaned` names these children, and
  `SavedAsAsked` fails without it.
* `establish_links` spares itself the read of the links that are there "if the primary key is a
  composite key of the two relations" (`active_model.rs`, 1249), but asks whether the key
  contains them (`fully_contains`, 1246). In a junction whose key has a further column, ON
  CONFLICT does not stop a link to the same pair, so Append links again what is linked. Such a
  junction is not modelled (section 5).
* `UpdateOne::exec_without_returning` "Returns `DbErr::RecordNotUpdated` if no row matches"
  (`executor/update.rs`, 63), but answers Ok when nothing is Set, whatever rows there are.
* A handle dropped while a stream of a handle nested in it holds the mutex panics, which
  a comment calls "this should never happen" (`transaction.rs`, 383); the nested handle
  owns its own `Arc`, so nothing prevents it. `Transaction` has the step (`"panicked"`).
* `down` follows the list and never reads `applied_at`: after a merge that put an older
  migration in front of an applied one, "Rollback last applied migrations"
  (`sea-orm-migration/README.md`, 53) does not undo the one applied last.
* A unique column that is renamed takes the branch for columns that are added
  (`builder.rs`, 525): no index is made, and the constraint of the old name is dropped. It
  is unique again after the next sync.
* An index is compared by its columns (`builder.rs`, 499) and created by its name, with
  IF NOT EXISTS (510 and 547). Where the name stands for something else in the database,
  the statement does nothing and sync answers Ok: when a column that was `indexed` is made
  unique, and when an indexed column was renamed, whose index keeps its name, and a later
  release has the old column again. The second was met in the proof of `OkAlwaysComplete`.
  "create one", says a comment on the first (`builder.rs`, 517). `SchemaSync` does so, and
  `OkIsComplete` fails, with such releases.

### Bounds

* *Handles.* Four allow three levels with a sibling, so that a name is stacked twice
  after `ROLLBACK TO`, and a fourth handle may begin after another one ended. A handle
  is used once, which also bounds `depth`.
* *Writes.* Two tell apart an outer and an inner write; one is enough where only the
  counter and the stack matter. A write is issued once.
* *Threads and calls.* Two threads of two calls: one may hold a loan and wait for it
  while the other spins, executes, closes or panics.
* *Runners.* Three contend for one migration while a third undoes it; two with two
  operations each cover a crash and the operation that finds its remains. `Parts = 2`
  puts a crash between two statements of one migration.
* *Processes.* Two, two calls each: sync a release beside another, stop, sync the next.
* *Access control.* Two operations are enough to add a role and use it, to fail one and use
  what it left in the context, or to commit twice between two SELECTs. The seed has a
  hierarchy of three, wildcards of both kinds and the same table with and without schema.
  One loader: `EngineAdvances` with several at once is proved (section 4).
* *Pages.* Five rows make three pages of two or five of one; two rows share each value of
  the first column but one. Three writes may remove a page, add one, or do some of both.
* *Relations.* Two kids and two tags: one that stays and one that goes, or one of each
  parent; a junction with a key of its own may hold a tag twice. `MaxRows` bounds the joins
  whose every order is tried.
* *Inserts and updates.* Three calls: one writes, and before it reads back another client may
  delete the row and a third call may insert its key again. Clients start with a model of
  the same row or with none.
* *Mock database.* Three statements of three callers: two overlap in both orders, and a third
  comes when they have returned. Two results of one kind and one of the other: a call
  may come too late for one. Three handles make a savepoint in a savepoint.
* *Symmetry* is used on handles, callers, writes, runners and processes that the configuration
  does not tell apart, and only where no liveness property is checked.

`CHECK_DEADLOCK FALSE` in every run: handles, calls and operations run out, and the
system then rests.

### Discipline assumed of clients

* `Lifo` in `txn_stack`: a handle is left alone while one nested in it lives. Rust's
  borrow rules do not ask for it, because a nested handle owns its own `Arc`.
* `Overlapping` in `Migrator` names the operations that may run side by side. With one
  statement-wise operation such as `reset`, `fresh` or a non-transactional `down`
  beside an `up`, records are lost by design: `fresh` drops the tables it listed
  before, `reset` drops the record a runner has just written. The code takes no lock
  against that, so those operations are checked with crashes but next to nobody.
* Calls of `NestedSave` name rows of the model that was loaded: a row is marked as new
  exactly when it was not there. What others write to the same rows in between is left
  out of `SavedAsAsked` (`touched`), since the code takes no lock against that.
* Calls of `Executor` are made outside transactions, and two clients that Set the same column
  overwrite each other: the code checks no version.
* Walks of `Pages` keep their direction. A kept cursor that is turned has the conditions
  of both directions.
* Processes that sync at the same time are built from the same entities.
* Releases of a schema are `Steady`: the name of a generated index stands for the same
  columns and the same uniqueness in each of them, columns that have a plain index in one get
  no unique one in another, and a column that is renamed has no index under its old
  name and is not unique under its new one. The registries are `SelfContained` (what is
  referenced is registered) or have no circle. For a lone sync they are `RenamedOnce`
  instead: a column is renamed from one name to one other, and each release that has the
  table has the column by one of the two. `MCSchemaSync` says by `ASSUME` that its releases
  are like that; the disagreements above are what happens with others.

### Fairness

* `Transaction`: a woken future is polled (`WF` of each waiting operation and of a
  pending drop) and a stream is dropped in the end (`WF_vars(StreamDrop)`).
  `WaitersServed` supposes that finitely many streams are opened. Nothing makes a
  client begin, end or write.
* `RusqliteShared`: the operating system runs every thread and time passes, so the
  deadline is reached (`Expire`). A thread under the guard finishes its statement.
  The standard mutex is not fair; as each thread makes at most `MaxCalls` calls and a
  spinner gives up at its deadline, the mutex is free for good in the end, and weak
  fairness of `Return` is enough. With callers that arrive forever, the return of a
  loan could be delayed as long as the mutex lets it.
* `Rbac`: a task that runs is scheduled (`WF` of `LoadRead`, `WalkRole`, `Decide`,
  `RunEnd`), and the write lock is given once nobody holds it (`WF` of `Replace`).
  `std::sync::RwLock` promises a writer nothing while readers keep coming, so the part of
  `LoadsEnd` about loads supposes finitely many statements. Nothing makes an administrator act or a load begin.
* `Migrator` and `SchemaSync` state no liveness: a runner may stop at any step. `Pages`,
  `NestedSave`, `Executor` and `MockConnection` neither: what they do ends by itself unless
  it is stopped.

## 4. Proofs

All theorems hold for every value of the constants their modules' assumptions allow:
any finite set of handles, any sets of threads, runners, migrations, builds and writes,
any administrators, loaders, sessions, users and operations of access control, any clients
of a table, and no bound on calls. `RbacAssumption` says that the tables at first are
finite, keep their keys, number their rows from 1 and have one override for a user, a
permission and a resource (its primary key), and that a statement asks for a sequence of
requests. `ExecutorAssumption` has finitely many keys, numbered; `PagesAssumption` has
finitely many rows, tuples of numbers of one length. `NestedSaveAssumption` has finitely
many kids, any parents and tags, any set of the calls of `Call`, and databases that keep
their keys at first; a relation of a call holds each of its models once.
`SchemaAssumption` has any processes, tables and registries; a registry has an entity once, and
an entity's indexes are on its columns and are named as `create_index_from_entity` does.

| Theorem | Says | From |
|---|---|---|
| `TransactionProofs!TypeCorrect` | `[]TypeOK` | nothing more |
| `TransactionProofs!SqlxInStep` | `[]SessionInStep` | `Driver # "rusqlite"`; any client, any refusals, any streams |
| `TransactionProofs!QuietUseReturnsIdle` | `[](SessionInStep /\ ReturnedIdle)` | `QuietUse`: no streams beside other handles, rollbacks not refused; any driver, any order of handles |
| `TransactionProofs!SqlxRefines` | `Spec => ImplementsNestedTxn` | `Driver # "rusqlite"` |
| `TransactionProofs!QuietUseRefines` | the same | `QuietUse`, any driver |
| `DriverProofs!TypeCorrect`, `OneUser`, `AnsweredIsDurable`, `LoanKept`, `StaysClosed` | `TypeOK`, `SingleUser`, `SettledIsDurable`, `LoanComesBack`, `ClosedForGood` | nothing more |
| `DriverProofs!DurableIsAnswered` | `[]DurableIsSettled` | nothing more |
| `DriverProofs!MockTypeCorrect`, `MockNeverPanics`, `MockLogComplete`, `MockLogNests`, `MockAnswersOnce`, `MockAnswersInTurn` | `MockTypeOK`, `NeverPanics`, `LogComplete`, `LogNests`, `AnsweredOnce`, `AnsweredInTurn` | `MockConstants` for the last two, which says what the constants are; any callers, handles and queues |
| `MigratorProofs!TypeCorrect` | `[]TypeOK` | nothing more |
| `TransactionProofs!StackUseKeepsCommitted`, `StackUseKeepsOnlyCommitted` | `[]CommittedIsDurable`, `[]OnlyCommittedIsDurable` | `StackUse`: handles ended innermost first, no streams beside other handles, SAVEPOINT and rollbacks not refused, not MySQL |
| `MigratorProofs!TransactionalIsAtomic` | `[]TxnAtomic` | `Orderly`: only up, down and refresh are used, and transactional migrations are strict unless only up is used |
| `MigratorProofs!AlwaysAccounted`, `OkIsKept` | `[]Accounted`, `OkMeansDone` | `UpsOverlap`: nothing but up runs side by side |
| `MigratorProofs!PrefixAlwaysKept` | `[]PrefixKept` | `UpsOverlap` and `OneHistory`: a build that has a migration has all that any build puts before it, before it |
| `RbacProofs!TypeCorrect` | `[]TypeOK` | `RbacAssumption` |
| `RbacProofs!GrantsAlwaysReach` | `[]GrantsReachTheirNames` | `RbacAssumption` |
| `RbacProofs!MissingRoleIsAlwaysTorn` | `[]MissingRoleIsTorn` | `RbacAssumption` |
| `RbacProofs!LoadsAdvance` | `EngineAdvances` | `RbacAssumption` |
| `RbacProofs!DecisionsAlwaysRight` | `[]DecisionsRight` | `RbacAssumption` |
| `RbacProofs!ListingAlwaysAgrees` | `[]ListingAgrees` | `RbacAssumption` |
| `ExecutorProofs!TypeCorrect`, `AnswersAlwaysOwn`, `RefusedNeverWrote`, `NotFoundWasTaken`, `SetIsNeverLost` | `TypeOK`, `AnswersAreOwn`, `RefusedWroteNothing`, `NotFoundMeansTaken`, `NothingSetIsLost` | `ExecutorAssumption` |
| `PagesProofs!TypeCorrect`, `AlwaysInOrder`, `AlwaysComplete`, `AlwaysShifts` | `TypeOK`, `CursorInOrder`, `CursorComplete`, `PaginatorShifts` | `PagesAssumption` |
| `NestedSaveProofs!TypeCorrect`, `AlwaysSavedAsAsked`, `AlwaysStandAlone` | `TypeOK`, `SavedAsAsked`, `CallsStandAlone` | `NestedSaveAssumption` |
| `NestedSaveProofs!ReadsAlwaysAgree` | `[]ReadsAgree` | `NestedSaveAssumption`, `RelationsAssumption`; any `MaxRows` |
| `SchemaSyncProofs!TypeCorrect` | `[]TypeOK` | `SchemaAssumption` |
| `SchemaSyncProofs!OkAlwaysComplete`, `SyncedAlwaysStaysSynced` | `OkIsComplete`, `[]SyncedStaysSynced` | `SchemaAssumption`, `Steady`, and each registry is `SelfContained` or has `NoCycle` |
| `SchemaSyncProofs!LoneSyncAlwaysProceeds` | `[]LoneSyncProceeds` | `SchemaAssumption`, `RenamedOnce`, and each registry is `SelfContained` |

The argument:

* *Transactions.* `SessionInStep` is not inductive: after `ROLLBACK TO`, the savepoint
  stays while the counter goes down, so the next begin stacks the same name again, and
  a RELEASE or ROLLBACK TO must find the newest one. `StackInv` says that names are
  stacked in order, none above the depth, and that each open level but the first has a
  savepoint; every statement chosen by the counter keeps it. `CountInv` (no more levels
  than living handles) gives `ReturnedIdle`, and needs that a handle which fails keeps
  its level until it is dropped. For the refinement, level `i + 1` maps to what the newest
  savepoint named `i` saved; `BeginRefines`, `CommitRefines`, `RollbackRefines` and
  `WriteRefines` take each driver statement to a step of `NestedTxn`, and all else to a
  stutter. The drivers differ at depth 0 and when the server refuses a rollback, which
  is why rusqlite needs `QuietUse`.
* *Stack-like clients.* Under `StackUse` the levels of the session and the living handles
  correspond one to one: the handle of level `i + 1` is the one nested in the handle of
  level `i`, and its level began with what the levels below had kept. What is visible at a
  level is then exactly the writes of its handle and of handles that committed into it, and
  the statement a commit chooses by `depth` acts on the level of the handle that asks. The
  steps are those of `SqlxRefines` and `QuietUseRefines`, read as what they do to the
  stack. MySQL is left out because the property is false of it (run
  `txn_mysql_nested_begin`), and so are refused SAVEPOINTs, whose handle is dropped as if
  its level were there.
* *rusqlite.* `GuardInv` (the guard's holder is the one thread in the guarded section and
  it saw the slot idle), `LoanInv` (a loan is held by one thread, exactly while the slot
  says so, and nobody panicked under the guard meanwhile), `TxnInv` (a transaction is open
  only on the loan of a thread that opened it) and `DurableInv` (what is settled is what
  is durable) are inductive together and not one by one.
* *Mock database.* `DepthInv`, that as many handles live as the transaction is deep, is why
  an end finds it open. `TakenInv` follows the indexes: each one below a counter is with
  exactly one call, that waits for the lock or has run, and only those that have run spend
  a result; the one a waiting call holds is above those of the calls it came after. For
  the log, `Grows` is all a step does to it, one mark at the end of the line that is open,
  so `SaidInv` goes from line to line. `LogNests` needs that each level of the open
  transaction has an opener behind which everything is deeper (`OpensInv`); with
  `Innermost` its handle is the one at that place among those that live.
* *Migrations.* A transaction's statements take locks (`LockInv`: one open transaction has
  worked on a migration), and a strict `down` was accepted because the migration was
  there, so its record was there and still is (`UndoInv`). Without strictness two runners
  would both undo the migration: `delete_migration_record` does not look at how many
  rows it deleted. `UpDownInv` says which phases the allowed operations reach.
* *Teams of runners.* Whoever runs anything but up has no one beside him, so only the
  `Record`, `Uninstall` and `Drop` of one runner change rows at a time, or several ups
  record. `TeamInv` says that an up still has to do exactly the files ahead of it that are
  not recorded, or that somebody recorded meanwhile; that the half-done effect of a
  migration is the progress of the one runner at work on it, and of nobody else unless
  somebody was stopped in it (`torn`); and that one who finds his migration recorded by
  another can only be refused by its statements. `fresh` drops what was torn, so that from
  its drop on record and schema agree again. TLC checked that invariant first, on
  `mig_team` without strict migrations and with both kinds of drops. Strictness, which
  `TransactionalIsAtomic` needs, is not asked.
* *Access control.* `LoadInv` dates every load and the engine: what a load that was not
  overtaken began after is what the engine in the mount was read before; two loads that
  overlap are where it needs `overtaken`. `KeysInv` follows the keys through the seven
  reads: a load that no commit fell into holds, of the tables it has read, the present
  ones, so what it puts in is closed when the tables are. `NamesInv` says that the ids of
  a table are numbered without repetition below `next`, and that a context's id, if it
  leads to a row at all, leads to the row of that name: ids rolled back are never given
  out again, which is the assumption about the server. `WalkInv` says that every role a
  walk has listed or queued is one of the engine's, unless the engine is torn.
  `InIdOrderLists`, that the queue gets exactly the children, is counted out by
  cardinalities.
* *Decisions.* `Below` is the least set of roles that holds the user's and inherits.
  `Walking` relates a walk to it: what is listed or queued is in `Below`, and each child
  of a listed role is listed, queued or the root (`WalkGoesOn`). Once the queue is empty
  the list inherits, so it is `Below` (`WalkLists`); that a cycle may keep the queue from
  emptying is no matter for safety. `RowsInv` keeps one override for each key in the
  tables, the loads and the engine, which is what makes "some override grants" and "all
  do" the same; with it the four ways `user_can` matches a permission are `Covers`
  (`UserCanIsRight`), and the union and difference of the listing agree with the lookup
  of the decision (`ListIsRight`). `DecisionInv` carries the requests already permitted
  along a statement: the engine stays, because `Replace` waits for those who decide.
* *Inserts and updates.* Each row of a statement has an id of its own (`NewIds` counts
  on from `next`), so `last_insert_id` leads to a row the statement wrote wherever `Tells`
  holds (`IdIsOwn`), to the last one wherever `TellsLast` does too (`IdIsLast`), and a count or an id of 0 says that nothing was changed. A call that is about to
  read knows the one row it wrote, and whatever differs there when it reads is in `stirred`,
  because every other statement of any client adds what it writes to everybody's.
* *Pages.* `Ahead`, the order of the keys, is shown to be strict and total, and `InOrder`
  lists a table by rank, hence each row once. For cursors, `WhereInv` is the heart: the
  conditions a kept cursor has piled up hold nothing but keys it has passed and the far
  bound, so together they select the rows inside the bound and beyond the newest row, as
  the last one alone would. `LeftInv` says that what stayed and was not had is still
  beyond. For paginators, one insert or delete shifts the place of every other row by one
  at most; `Missing` (rows that stayed, are not had and lie before the next page) and
  `Repeats` (rows had that lie in it) grow by one with a write and are used up by a page.
  `num_pages` is the least number of pages that reach the end (`PagesReach`).
* *Nested saves.* `SavedAsAsked` speaks of the end of a call, so the invariant has to say of
  every place in it what is done by then. `At(place, d, items)` does so row by row, for the
  rows that nobody else wrote: a kid the call has not come to (`KidWaits`) is as the program
  saw it, any other is as `WantedKids` has it; the links of a pair change only where they are
  dropped and where they are made, and what is to be linked is what was not met
  (`Unmet`). Nobody else writes parents and tags, so `RowsAt` says exactly which are there. `SeenInv`
  says the same of what is committed, which an error goes back to. What another connection
  writes makes its row `touched` and changes no other (`OtherDone`). For
  `CallsStandAlone`, nothing is touched, so every row is where `At` says, and each statement
  can be compared with the keys: a kid is written when its parent is there, the links when
  both ends are, and the parent goes when its kids and links have gone (`DropRowFits`). A kid's
  own statement breaks a key exactly when its place is taken (`KidRowBreaks`); `FitAt`
  remembers that every row written so far fitted the action. `PlaceInv` and the rest were
  checked with TLC on the databases of `relations` before they were proved.
* *Reading back.* `ReadsAgree` says nothing of how the program came to a database: it holds
  of every one that `TypeOK` allows, so the induction is that of `TypeCorrect`, and the rest
  is about the operators of `Reading`. They take rows by their place (`Ascending`, `Only`),
  the property asks what is there, so each is first described as the set of what it gives
  (`Inside`), with each thing once (`Once`): `UniqueIs`, `OfHas`, `ConsolidateHas`,
  `StarHas`, `ChainHas`. `Ascending` is shown to be a bijection (`AscendingIs`), which is what
  gives every CHOOSE in it its value. `FlatIs` says where an item of a group is in the row
  of all of them: groups begin where the ones before end and do not overlap (`StartIs`, by
  least counterexample). The lemmas on the joins (`ParentStarRows`, `TagChainRows`) say which
  rows there are and that they are finitely many; `KidsRead`, `StarColumn`, `CutIs` and
  `LeadsAre` compare them with the database. A row of the chain counts once only if no link is
  doubled (`Alone`), which is the exception the property makes.
* *Schema.* A statement may be executed long after the schema was read, and others of
  the same program work on the same table. `Evolves` says what none of them takes away
  from a table: itself, the columns and foreign keys of the entity, and the indexes it
  wants; `Gains`, that no index comes which it does not want. Both are transitive, so
  they hold between what was read and what is there (`Since`). A statement that was executed
  has what it was for (`Holds`); for CREATE INDEX IF NOT EXISTS this is where `Steady` is
  needed, and `KnownInv`, that every index is one some release declares or the server's own.
  `Attended` adds that each registered table is still in the order or has all its
  statements executed or in `todo`. That none is missing from the order is `Covered`:
  what is left in the sorter is appended unless the sorted tables are as many as the
  entities, and then, if only registered tables were sorted, they are all of them
  (`AsManyAsRegistered`, by cardinalities). With `Attended` and `Since`, a Finish
  leaves a complete table (`FinishComplete`), for which nothing is to be said by the next
  sync (`CompleteIsSettled`). A lone sync (`LoneInv`) finds the tables it has still to
  visit as it read them (`Fresh`), and those it has visited created (`Created`); without
  a circle nothing comes before what it references (`Ordered`), so foreign keys have
  their tables; what is in `todo` is not there yet (`Pending`). `RenamedOnce` with
  `NameInv` (the column is there by one of its names) has a rename find the old
  name. `ProgressInv`, `SyncedInv` and `LoneInv` were checked with TLC on
  `schema_releases` before they were proved.

Only model-checked: all liveness (`WaitersServed`, `AcquireEnds`, `LoanIsReturned`,
`LoadsEnd`), which with `ENABLED` is outside what the prover handles. Every invariant and
action property that a passing run checks is proved as well, some of it from the
hypotheses in the table. No module declares a RECURSIVE operator: where the code walks a
sequence, the model says by indexes what the walk leaves.

## 5. Not modelled

* *Transactions.* A statement whose failure makes SQLite or MySQL roll the transaction
  back by itself; cancellation in the middle of a statement; a queued sqlx rollback that
  fails later; sqlx's pools.
* *rusqlite.* Value conversion, metrics, options. The driver is modelled as it is built
  in `sea-orm-sync`, where its calls are blocking.
* *Migrator.* A runner that is itself given an open transaction; foreign keys and types
  in `drop_everything`; the read-only status queries. MySQL commits implicitly before
  DDL, so a "transactional" migration of its tables is one outside a transaction.
* *Schema.* Enums, column types and schema qualifiers, composite primary keys, MySQL,
  duplicate registration. `LoneSyncProceeds` leaves out the drops (whether sea-schema
  reports an index as a constraint is outside the repository), a unique column more on
  SQLite, which SQLite refuses, and circles of tables on PostgreSQL, which it refuses. Releases
  that are not `Steady` are in no run; what they lead to is among the disagreements.
* *Access control.* Ids that SQLite gives out again after a rollback (without
  AUTOINCREMENT); the two rows of a resource that is added twice, which the engine tells
  apart by their order; sequence numbers consumed by conflicts; ranks; restricted
  transactions, which share the mount and decide in the same way; cycles of roles behind
  the role a walk begins at, on which it would never end.
* *Pages.* NULL keys; `KeyArityMismatch`; the second `set_secondary_order_by` of a cursor
  over three tables, which replaces the first; `page_size * page` on a u64.
* *Relations.* Junctions whose primary key has more columns than the two foreign keys: the
  code takes them for keyed by the pair (`keyed`), which they are not, see the disagreements.
  Self relations, composite keys, hooks of `ActiveModelBehavior`, a kid's own
  relations on delete, more than one level of nesting, kids and tags in one call, the
  savepoints of nested calls, has-one on the belongs-to side, and loaders whose
  statements others write between.
* *Inserts and updates.* `exec_without_returning` of an insert, `update_many`, `delete_many`,
  composite keys, hooks, a key that the client sets where the server gives ids out; the
  conversion of rows (`UnpackInsertId`). How many ids a server skips for a row that
  conflicts is left out: they only have to be new.
* *Mock and proxy databases.* Queueing results, which is done before the connection exists;
  the conversion of mock rows. The proxy keeps no state of its own.

## 6. Plan

The modules of the plan are written, and every invariant and action property that a
passing run checks is proved. What is left is what section 5 leaves out.
