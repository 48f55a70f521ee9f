----------------------------- MODULE SchemaSync -----------------------------
(***************************************************************************)
(* SchemaBuilder (src/src/schema/builder.rs): apply creates the tables of  *)
(* the registered entities, sync compares them with the live schema and    *)
(* executes what is missing, both in the order of TopologicalSort          *)
(* (src/src/schema/topology.rs).  Several processes may do so at once;     *)
(* each reads the schema once and may stop between any two statements.     *)
(*                                                                         *)
(* An entity is [table, cols, uniq, keys, refs, renamed]: its columns, the *)
(* columns declared unique, its generated indexes [name, on, unique,       *)
(* constraint], the tables its foreign keys reference and the former names *)
(* of columns.                                                             *)
(* Left out: enums, column types, schema qualifiers, primary keys.         *)
(***************************************************************************)
EXTENDS Naturals, Sequences, FiniteSets

CONSTANTS Processes,
          Tables,
          Registries,   \* what programs register: sequences of entities
          Jobs,         \* "apply", "sync"
          Backends,     \* "postgres", "sqlite"
          MaxCalls      \* bound: calls of apply and sync per process

Entities == UNION {{R[i] : i \in DOMAIN R} : R \in Registries}

\* A generated index, named after what it is on; a column's own.
Index(n, on, unique) == [name |-> <<"idx", n>>, on |-> on, unique |-> unique, constraint |-> FALSE]
OwnIndex(c) == Index(c, {c}, TRUE)

ASSUME SchemaAssumption ==
    /\ Jobs \subseteq {"apply", "sync"}
    /\ Backends \subseteq {"postgres", "sqlite"}
    /\ MaxCalls \in Nat
    /\ Tables # {}
    /\ Registries \subseteq Seq(Entities)
    /\ \A R \in Registries : \A i, j \in DOMAIN R : R[i].table = R[j].table => i = j
    /\ \A e \in Entities :
          /\ e.table \in Tables /\ e.refs \subseteq Tables /\ e.uniq \subseteq e.cols
          /\ \A k \in e.keys : /\ k = Index(k.name[2], k.on, k.unique)
                               /\ k.on \subseteq e.cols /\ k.unique \in BOOLEAN

VARIABLES backend,   \* the database's kind, fixed
          db,        \* the schema: what each table has, or Absent
          pc,        \* where each process is
          job,       \* what it runs, and for which registry
          registry,
          existing,  \* the schema as it read it
          top,       \* tables still in its sorter
          order,     \* tables it has still to visit
          at,        \* the table it visits
          todo,      \* statements it has still to execute there
          calls,
          synced,    \* history: registries synced since the schema last changed
          alone      \* history: processes that ran with no other beside them

vars == <<backend, db, pc, job, registry, existing, top, order, at, todo,
          calls, synced, alone>>

\* A foreign key needs its table; SQLite does not look, and cannot add one later.
RefsChecked == backend # "sqlite"

Absent == [there |-> FALSE, cols |-> {}, idx |-> {}, refs |-> {}]
Registered(R) == {R[i].table : i \in DOMAIN R}
Referenced(R) == UNION {R[i].refs : i \in DOMAIN R}
Entity(R, t) == R[CHOOSE i \in DOMAIN R : R[i].table = t]

TypeOK ==
    /\ \A t \in Tables : db[t].refs \subseteq Tables /\ (db[t].there \/ db[t] = Absent)
    /\ pc \in [Processes -> {"idle", "sort", "rest", "tables"}]
    /\ \A p \in Processes : pc[p] = "idle" => order[p] = <<>> /\ todo[p] = {}
    /\ job \in [Processes -> Jobs \cup {"none"}]
    /\ registry \in [Processes -> Registries \cup {<<>>}]
    /\ top \in [Processes -> SUBSET Tables]
    /\ order \in [Processes -> Seq(Tables)]
    /\ at \in [Processes -> Tables]
    /\ calls \in [Processes -> Nat]
    /\ synced \subseteq Registries
    /\ alone \subseteq Processes

Init ==
    /\ backend \in Backends
    /\ db = [t \in Tables |-> Absent]
    /\ pc = [p \in Processes |-> "idle"]
    /\ job = [p \in Processes |-> "none"]
    /\ registry = [p \in Processes |-> <<>>]
    /\ existing = [p \in Processes |-> <<>>]
    /\ top = [p \in Processes |-> {}]
    /\ order = [p \in Processes |-> <<>>]
    /\ at = [p \in Processes |-> CHOOSE t \in Tables : TRUE]
    /\ todo = [p \in Processes |-> {}]
    /\ calls = [p \in Processes |-> 0]
    /\ synced = {}
    /\ alone = {}

Goto(p, l) == pc' = [pc EXCEPT ![p] = l]

\* Processes that run at the same time are instances of one program.
Start(p, j, R) ==
    /\ pc[p] = "idle"
    /\ calls[p] < MaxCalls
    /\ \A q \in Processes : pc[q] # "idle" => registry[q] = R
    /\ calls' = [calls EXCEPT ![p] = @ + 1]
    /\ job' = [job EXCEPT ![p] = j]
    /\ registry' = [registry EXCEPT ![p] = R]
    /\ existing' = [existing EXCEPT ![p] = IF j = "sync" THEN db ELSE [t \in Tables |-> Absent]]
    /\ top' = [top EXCEPT ![p] = Registered(R) \cup Referenced(R)]
    /\ order' = [order EXCEPT ![p] = <<>>]
    /\ Goto(p, "sort")
    /\ alone' = IF \A q \in Processes : pc[q] = "idle" THEN {p} ELSE {}
    /\ UNCHANGED <<backend, db, at, todo, synced>>

(***************************************************************************)
(* sorted_tables: the sorter holds the registered tables and the ones they *)
(* reference; pop takes any that nothing left in it must precede.          *)
(***************************************************************************)
\* Slip: an edge points from the referencing table to the referenced one.
PrecedesReversed(R, t, u) == t # u /\ \E i \in DOMAIN R : R[i].table = t /\ u \in R[i].refs

Precedes(R, t, u) == t # u /\ \E i \in DOMAIN R : R[i].table = u /\ t \in R[i].refs
Poppable(p, t) == t \in top[p] /\ \A u \in top[p] : ~Precedes(registry[p], u, t)

Pop(p, t) ==
    /\ pc[p] = "sort"
    /\ Poppable(p, t)
    /\ top' = [top EXCEPT ![p] = @ \ {t}]
    /\ order' = [order EXCEPT ![p] = Append(@, t)]
    /\ UNCHANGED <<backend, db, pc, job, registry, existing, at, todo, calls, synced, alone>>

\* What is left in the sorter is a cycle or behind one.  It is appended in the
\* order of registration when the number of sorted tables is not the number of
\* entities.
Unsorted(p) == {i \in DOMAIN registry[p] : registry[p][i].table \in top[p]}

EndSort(p) ==
    /\ pc[p] = "sort"
    /\ \A t \in top[p] : ~Poppable(p, t)
    /\ Goto(p, IF Len(order[p]) # Len(registry[p]) /\ Unsorted(p) # {} THEN "rest" ELSE "tables")
    /\ UNCHANGED <<backend, db, job, registry, existing, top, order, at, todo, calls, synced, alone>>

PushLeftover(p, i) ==
    /\ pc[p] = "rest"
    /\ i \in Unsorted(p) /\ \A j \in Unsorted(p) : i <= j
    /\ top' = [top EXCEPT ![p] = @ \ {registry[p][i].table}]
    /\ order' = [order EXCEPT ![p] = Append(@, registry[p][i].table)]
    /\ Goto(p, IF Unsorted(p) = {i} THEN "tables" ELSE "rest")
    /\ UNCHANGED <<backend, db, job, registry, existing, at, todo, calls, synced, alone>>

(***************************************************************************)
(* The statements for one entity.  They follow from the schema read at the *)
(* start; those of a kind come in the order of declaration.                *)
(***************************************************************************)
HasIndexOn(x, on) == \E i \in x.idx : i.on = on
HasUniqueOn(x, on) == \E i \in x.idx : i.on = on /\ i.unique

NewColumns(e, x) ==
    {IF c \in DOMAIN e.renamed THEN [do |-> "rename", arg |-> c] ELSE [do |-> "column", arg |-> c]
        : c \in e.cols \ x.cols}
NewRefs(e, x) ==
    IF RefsChecked THEN {[do |-> "ref", arg |-> t] : t \in e.refs \ x.refs} ELSE {}
\* An index on the same columns will do, whether it is unique or not.
NewKeys(e, x) == {[do |-> "index", arg |-> k] : k \in {k \in e.keys : ~HasIndexOn(x, k.on)}}
\* Slip: the indexes are compared with the columns' own and not with the table's.
NewUniquesAlways(e, x) == {[do |-> "unique", arg |-> OwnIndex(c)] : c \in e.uniq \cap x.cols}
\* Slip: a column that is there already is taken to be unique.
NewUniquesNever(e, x) == {}

NewUniques(e, x) ==
    {[do |-> "unique", arg |-> OwnIndex(c)] : c \in {c \in e.uniq \cap x.cols : ~HasUniqueOn(x, {c})}}
OldUniques(e, x) ==
    {[do |-> "drop", arg |-> i] : i \in {i \in x.idx :
        /\ i.unique
        /\ \A k \in e.keys : k.on # i.on
        /\ \A c \in e.uniq : {c} # i.on}}

Statements(e, x) ==
    IF x.there
    THEN NewColumns(e, x) \cup NewRefs(e, x) \cup NewKeys(e, x) \cup NewUniques(e, x)
         \cup OldUniques(e, x)
    ELSE {[do |-> "create", arg |-> e.table]} \cup NewKeys(e, x)

\* The kinds of statements, in the order in which they are executed.
Turn == [create |-> 1, column |-> 1, rename |-> 1, ref |-> 2, index |-> 3, unique |-> 4, drop |-> 5]

Due(p) == {s \in todo[p] : \A r \in todo[p] : Turn[s.do] <= Turn[r.do]}

\* Visit the next table; one that is not registered is skipped.
NextTable(p) ==
    /\ pc[p] = "tables"
    /\ todo[p] = {} /\ order[p] # <<>>
    /\ LET t == Head(order[p])
       IN  todo' = [todo EXCEPT ![p] =
                      IF t \in Registered(registry[p])
                      THEN Statements(Entity(registry[p], t), existing[p][t])
                      ELSE {}]
    /\ order' = [order EXCEPT ![p] = Tail(@)]
    /\ at' = [at EXCEPT ![p] = Head(order[p])]
    /\ UNCHANGED <<backend, db, pc, job, registry, existing, top, calls, synced, alone>>

(***************************************************************************)
(* What the database accepts, and what the statement does.  sync drops a   *)
(* constraint on PostgreSQL and an index elsewhere; the database wants     *)
(* each by its own statement.                                              *)
(***************************************************************************)
\* SQLite adds no column that is unique.
CanAdd(e, c) == backend = "sqlite" => c \notin e.uniq
RefsThere(refs) == RefsChecked => \A t \in refs : db[t].there

Accepted(e, s) ==
    LET x == db[e.table]
    IN  CASE s.do = "create" -> ~x.there /\ RefsThere(e.refs \ {e.table})
          [] s.do = "column" -> x.there /\ s.arg \notin x.cols /\ CanAdd(e, s.arg)
          [] s.do = "rename" -> x.there /\ s.arg \notin x.cols /\ e.renamed[s.arg] \in x.cols
          [] s.do = "ref"    -> x.there /\ RefsThere({s.arg}) /\ s.arg \notin x.refs
          [] s.do \in {"index", "unique"} -> x.there /\ s.arg.on \subseteq x.cols
          [] OTHER           -> \E i \in x.idx : i.name = s.arg.name /\ (i.constraint <=> backend = "postgres")

\* A column declared unique brings an index, which the server gives a free name.
FreeName(x, c) == <<"key", c, CHOOSE n \in 0..Cardinality(x.idx) :
                                 \A i \in x.idx : i.name # <<"key", c, n>>>>
Implied(x, cols) == {[name |-> FreeName(x, c), on |-> {c}, unique |-> TRUE,
                      constraint |-> TRUE] : c \in cols}
Renamed(S, old, new) == {IF c = old THEN new ELSE c : c \in S}

There(cols, idx, refs) == [there |-> TRUE, cols |-> cols, idx |-> idx, refs |-> refs]

\* apply creates its indexes without IF NOT EXISTS, which sync adds.
NameFits(p, s) ==
    job[p] = "apply" /\ s.do = "index" => \A i \in db[at[p]].idx : i.name # s.arg.name

\* CREATE INDEX IF NOT EXISTS looks at the name only.
Result(e, s) ==
    LET x == db[e.table]
        old == e.renamed[s.arg]
    IN  CASE s.do = "create" -> There(e.cols, Implied(x, e.uniq), e.refs)
          [] s.do = "column" ->
                There(x.cols \cup {s.arg}, x.idx \cup Implied(x, {s.arg} \cap e.uniq), x.refs)
          [] s.do = "rename" ->
                There(Renamed(x.cols, old, s.arg),
                      {[i EXCEPT !.on = Renamed(@, old, s.arg)] : i \in x.idx}, x.refs)
          [] s.do = "ref"    -> There(x.cols, x.idx, x.refs \cup {s.arg})
          [] s.do \in {"index", "unique"} ->
                There(x.cols, IF \E i \in x.idx : i.name = s.arg.name THEN x.idx
                              ELSE x.idx \cup {s.arg}, x.refs)
          [] OTHER           -> There(x.cols, {i \in x.idx : i.name # s.arg.name}, x.refs)

Executing(p) == pc[p] = "tables" /\ todo[p] # {}
Visited(p) == Entity(registry[p], at[p])

Exec(p, s) ==
    /\ Executing(p)
    /\ s \in Due(p)
    /\ Accepted(Visited(p), s) /\ NameFits(p, s)
    /\ db' = [db EXCEPT ![at[p]] = Result(Visited(p), s)]
    /\ todo' = [todo EXCEPT ![p] = @ \ {s}]
    /\ synced' = IF db' = db THEN synced ELSE {}
    /\ UNCHANGED <<backend, pc, job, registry, existing, top, order, at, calls, alone>>

\* Slip: the loop ends with the last table's name and not with its statements.
FinishEarly(p) ==
    /\ pc[p] = "tables" /\ order[p] = <<>>
    /\ Goto(p, "idle")
    /\ synced' = synced \cup (IF job[p] = "sync" THEN {registry[p]} ELSE {})
    /\ UNCHANGED <<backend, db, job, registry, existing, top, order, at, todo, calls, alone>>

Finish(p) ==
    /\ pc[p] = "tables"
    /\ todo[p] = {} /\ order[p] = <<>>
    /\ Goto(p, "idle")
    /\ synced' = synced \cup (IF job[p] = "sync" THEN {registry[p]} ELSE {})
    /\ UNCHANGED <<backend, db, job, registry, existing, top, order, at, todo, calls, alone>>

\* A statement is refused or fails, or the process crashes.
Stop(p) ==
    /\ pc[p] # "idle"
    /\ Goto(p, "idle")
    /\ todo' = [todo EXCEPT ![p] = {}]
    /\ order' = [order EXCEPT ![p] = <<>>]
    /\ top' = [top EXCEPT ![p] = {}]
    /\ UNCHANGED <<backend, db, job, registry, existing, at, calls, synced, alone>>

Next ==
    \E p \in Processes :
       \/ \E j \in Jobs, R \in Registries : Start(p, j, R)
       \/ \E t \in Tables : Pop(p, t)
       \/ \E i \in DOMAIN registry[p] : PushLeftover(p, i)
       \/ EndSort(p) \/ NextTable(p) \/ Finish(p) \/ Stop(p)
       \/ \E s \in todo[p] : Exec(p, s)

Spec == Init /\ [][Next]_vars

(***************************************************************************)
(* What the releases of a program may do to each other.                    *)
(***************************************************************************)
Declared(e) == e.keys \cup {OwnIndex(c) : c \in e.uniq}

\* An index keeps its columns and its uniqueness as long as it has its name, no
\* columns with an index get a unique one, and columns that are renamed have none.
Steady ==
    \A e, f \in Entities : e.table = f.table =>
       /\ \A k \in Declared(e), l \in Declared(f) :
             /\ k.name = l.name => k = l
             /\ k.on = l.on /\ k.unique => l.unique
       /\ \A c \in DOMAIN e.renamed :
             /\ c \notin e.uniq /\ e.renamed[c] \notin e.cols
             /\ \A l \in Declared(f) : e.renamed[c] \notin l.on

\* A column is renamed once, and each release has it by one of its names.
RenamedOnce ==
    \A e, f \in Entities : e.table = f.table =>
       \A c \in DOMAIN e.renamed :
          /\ e.renamed[c] \notin e.cols /\ (c \in f.cols \/ e.renamed[c] \in f.cols)
          /\ \A b \in DOMAIN f.renamed :
                f.renamed[b] # c /\ (f.renamed[b] = e.renamed[c] => b = c)

\* What is referenced is registered too.
SelfContained(R) == Referenced(R) \subseteq Registered(R)

NoCycle(R) ==
    \A S \in (SUBSET Registered(R)) \ {{}} : \E t \in S : \A u \in S : ~Precedes(R, u, t)

(***************************************************************************)
(* Properties                                                              *)
(***************************************************************************)
\* The schema has everything the entity declares.
Complete(e, x) ==
    /\ x.there /\ e.cols \subseteq x.cols
    /\ RefsChecked => e.refs \subseteq x.refs
    /\ \A c \in e.uniq : HasUniqueOn(x, {c})
    /\ \A k \in e.keys : IF k.unique THEN HasUniqueOn(x, k.on) ELSE HasIndexOn(x, k.on)

\* apply and sync that return Ok have created all tables, columns, unique keys
\* and foreign keys of every registered entity ("Create all registered tables,
\* columns, unique keys, and foreign keys"), also beside another instance.
OkIsComplete ==
    [][\A p \in Processes : Finish(p) =>
          \A i \in DOMAIN registry[p] : Complete(registry[p][i], db[registry[p][i].table])]_vars

\* A sync that runs alone is never refused by the database, whatever an earlier
\* one that stopped half way, or another program, left behind: every table it
\* references is there before it, and it creates nothing twice.  Not claimed: the
\* drops, a unique column more on SQLite, and registries whose tables reference
\* each other in a circle, which PostgreSQL refuses.
LoneSyncProceeds ==
    \A p \in alone :
       Executing(p) /\ job[p] = "sync" /\ (RefsChecked => NoCycle(registry[p]))
       => \A s \in Due(p) :
             \/ Accepted(Visited(p), s)
             \/ s.do = "drop"
             \/ s.do = "column" /\ ~CanAdd(Visited(p), s.arg)

\* A sync for a registry that was synced, the schema unchanged since, executes
\* nothing.
SyncedStaysSynced ==
    \A p \in Processes :
       Executing(p) /\ job[p] = "sync" /\ existing[p] = db => registry[p] \notin synced
=============================================================================
