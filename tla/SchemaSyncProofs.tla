-------------------------- MODULE SchemaSyncProofs --------------------------
(***************************************************************************)
(* Theorems about SchemaSync, for any processes, tables and registries.    *)
(* While one program runs, a table only gains what its entity declares     *)
(* (Evolves); hence what a process has executed stays, and what it found   *)
(* there at the start is there at the end.                                 *)
(***************************************************************************)
EXTENDS SchemaSync, FiniteSetTheorems, TLAPS

(***************************************************************************)
(* Types.                                                                  *)
(***************************************************************************)
Kinds == {"create", "column", "rename", "ref", "index", "unique", "drop"}

\* What a process that is not idle works on.
Running(p) ==
    pc[p] # "idle" => /\ job[p] \in Jobs /\ registry[p] \in Registries
                      /\ existing[p] = [t \in Tables |-> existing[p][t]]
                      /\ \A t \in Tables : existing[p][t].there \/ existing[p][t] = Absent

\* What is to do follows from the schema as it was read.
Owed(p) ==
    todo[p] # {} =>
        /\ pc[p] = "tables" /\ at[p] \in Registered(registry[p])
        /\ todo[p] \subseteq Statements(Visited(p), existing[p][at[p]])

\* Processes that run at the same time are instances of one program.
Together == \A p, q \in Processes : pc[p] # "idle" /\ pc[q] # "idle" => registry[p] = registry[q]

Shaped ==
    /\ db = [t \in Tables |-> db[t]]
    /\ DOMAIN existing = Processes /\ DOMAIN todo = Processes
    /\ backend \in Backends

TypeInv ==
    /\ TypeOK /\ Shaped /\ Together
    /\ \A p \in Processes : Running(p) /\ Owed(p)

LEMMA EntityOf ==
    ASSUME NEW R \in Registries, NEW i \in DOMAIN R
    PROVE  /\ R[i].table \in Registered(R) /\ Entity(R, R[i].table) = R[i]
           /\ R[i] \in Entities
  <1>1. Entity(R, R[i].table) = R[i]
    BY SchemaAssumption DEF Entity
  <1>. QED
    BY <1>1 DEF Registered, Entities

LEMMA EntityAt ==
    ASSUME NEW R \in Registries, NEW t \in Registered(R)
    PROVE  /\ Entity(R, t) \in Entities /\ Entity(R, t).table = t
           /\ \E i \in DOMAIN R : R[i] = Entity(R, t)
  <1>1. PICK i \in DOMAIN R : R[i].table = t
    BY DEF Registered
  <1>. QED
    BY <1>1, EntityOf

\* The statements are of the kinds that Result and Accepted tell apart.
LEMMA StatementKinds ==
    ASSUME NEW e, NEW x, NEW s \in Statements(e, x)
    PROVE  /\ s.do \in Kinds /\ s = [do |-> s.do, arg |-> s.arg]
           /\ s.do = "create" => ~x.there /\ s.arg = e.table
           /\ s.do = "column" => s.arg \in e.cols \ x.cols /\ s.arg \notin DOMAIN e.renamed
           /\ s.do = "rename" => s.arg \in e.cols \ x.cols /\ s.arg \in DOMAIN e.renamed
           /\ s.do = "ref"    => RefsChecked /\ s.arg \in e.refs \ x.refs
           /\ s.do = "index"  => s.arg \in e.keys /\ ~HasIndexOn(x, s.arg.on)
           /\ s.do = "unique" => \E c \in e.uniq \cap x.cols :
                                    s.arg = OwnIndex(c) /\ ~HasUniqueOn(x, {c})
           /\ s.do = "drop"   => /\ s.arg \in x.idx /\ s.arg.unique
                                 /\ \A k \in e.keys : k.on # s.arg.on
                                 /\ \A c \in e.uniq : {c} # s.arg.on
           /\ s.do \notin {"create", "index"} => x.there
  <1>1. \/ s = [do |-> "create", arg |-> e.table] /\ ~x.there
        \/ s \in NewKeys(e, x)
        \/ x.there /\ (\/ s \in NewColumns(e, x) \/ s \in NewRefs(e, x)
                       \/ s \in NewUniques(e, x) \/ s \in OldUniques(e, x))
    BY DEF Statements
  <1>2. CASE s = [do |-> "create", arg |-> e.table] /\ ~x.there
    BY <1>2 DEF Kinds
  <1>3. CASE s \in NewKeys(e, x)
    BY <1>3 DEF NewKeys, Kinds
  <1>4. CASE x.there /\ s \in NewColumns(e, x)
    <2>1. PICK c \in e.cols \ x.cols :
             s = IF c \in DOMAIN e.renamed THEN [do |-> "rename", arg |-> c]
                 ELSE [do |-> "column", arg |-> c]
      BY <1>4 DEF NewColumns
    <2>2. CASE c \in DOMAIN e.renamed
      BY <1>4, <2>1, <2>2 DEF Kinds
    <2>3. CASE c \notin DOMAIN e.renamed
      BY <1>4, <2>1, <2>3 DEF Kinds
    <2>. QED
      BY <2>2, <2>3
  <1>5. CASE x.there /\ s \in NewRefs(e, x)
    BY <1>5 DEF NewRefs, Kinds
  <1>6. CASE x.there /\ s \in NewUniques(e, x)
    <2>1. PICK c \in e.uniq \cap x.cols :
             s = [do |-> "unique", arg |-> OwnIndex(c)] /\ ~HasUniqueOn(x, {c})
      BY <1>6 DEF NewUniques
    <2>. QED
      BY <1>6, <2>1 DEF Kinds
  <1>7. CASE x.there /\ s \in OldUniques(e, x)
    BY <1>7 DEF OldUniques, Kinds
  <1>. QED
    BY <1>1, <1>2, <1>3, <1>4, <1>5, <1>6, <1>7

\* What a step of one process leaves alone of the others'.
Untouched(p) ==
    /\ pc'[p] = pc[p] /\ job'[p] = job[p] /\ registry'[p] = registry[p]
    /\ existing'[p] = existing[p] /\ top'[p] = top[p] /\ order'[p] = order[p]
    /\ at'[p] = at[p] /\ todo'[p] = todo[p]

\* The steps that leave the schema alone.
Quiet(p) ==
    \/ \E j \in Jobs, R \in Registries : Start(p, j, R)
    \/ \E t \in Tables : Pop(p, t)
    \/ \E i \in DOMAIN registry[p] : PushLeftover(p, i)
    \/ EndSort(p) \/ NextTable(p) \/ Finish(p) \/ Stop(p)

LEMMA QuietSteps ==
    ASSUME NEW p \in Processes, Quiet(p)
    PROVE  UNCHANGED <<backend, db>>
  BY DEF Quiet, Start, Pop, PushLeftover, EndSort, NextTable, Finish, Stop

LEMMA OthersUntouched ==
    ASSUME TypeInv, NEW p \in Processes, NEW q \in Processes, p # q,
           Quiet(p) \/ \E s \in todo[p] : Exec(p, s)
    PROVE  Untouched(q)
  <1>1. CASE \E j \in Jobs, R \in Registries : Start(p, j, R)
    BY <1>1 DEF Start, Goto, Untouched, TypeInv, TypeOK, Shaped
  <1>2. CASE \E t \in Tables : Pop(p, t)
    BY <1>2 DEF Pop, Goto, Untouched, TypeInv, TypeOK, Shaped
  <1>3. CASE \E i \in DOMAIN registry[p] : PushLeftover(p, i)
    BY <1>3 DEF PushLeftover, Goto, Untouched, TypeInv, TypeOK, Shaped
  <1>4. CASE EndSort(p)
    BY <1>4 DEF EndSort, Goto, Untouched, TypeInv, TypeOK, Shaped
  <1>5. CASE NextTable(p)
    BY <1>5 DEF NextTable, Goto, Untouched, TypeInv, TypeOK, Shaped
  <1>6. CASE Finish(p)
    BY <1>6 DEF Finish, Goto, Untouched, TypeInv, TypeOK, Shaped
  <1>7. CASE Stop(p)
    BY <1>7 DEF Stop, Goto, Untouched, TypeInv, TypeOK, Shaped
  <1>8. CASE \E s \in todo[p] : Exec(p, s)
    BY <1>8 DEF Exec, Goto, Untouched, TypeInv, TypeOK, Shaped
  <1>. QED
    BY <1>1, <1>2, <1>3, <1>4, <1>5, <1>6, <1>7, <1>8 DEF Quiet

(***************************************************************************)
(* What a statement does, kind by kind.                                    *)
(***************************************************************************)
LEMMA ExecIs ==
    ASSUME TypeInv, NEW p \in Processes, NEW s \in todo[p], Exec(p, s)
    PROVE  /\ pc[p] = "tables" /\ at[p] \in Tables /\ registry[p] \in Registries
           /\ at[p] \in Registered(registry[p])
           /\ Visited(p) \in Entities /\ Visited(p).table = at[p]
           /\ \E i \in DOMAIN registry[p] : registry[p][i] = Visited(p)
           /\ s \in Statements(Visited(p), existing[p][at[p]])
           /\ s.do \in Kinds
           /\ Accepted(Visited(p), s)
           /\ db'[at[p]] = Result(Visited(p), s)
           /\ \A t \in Tables : t # at[p] => db'[t] = db[t]
           /\ db' = [t \in Tables |-> db'[t]] /\ DOMAIN todo' = Processes
           /\ todo'[p] = todo[p] \ {s}
           /\ UNCHANGED <<backend, pc, job, registry, existing, top, order, at, calls, alone>>
  <1>1. /\ pc[p] = "tables" /\ at[p] \in Tables /\ registry[p] \in Registries
        /\ at[p] \in Registered(registry[p])
        /\ s \in Statements(Visited(p), existing[p][at[p]])
    BY DEF Exec, Executing, TypeInv, TypeOK, Running, Owed
  <1>2. /\ Visited(p) \in Entities /\ Visited(p).table = at[p]
        /\ \E i \in DOMAIN registry[p] : registry[p][i] = Visited(p)
    BY <1>1, EntityAt DEF Visited
  <1>3. s.do \in Kinds
    BY <1>1, StatementKinds
  <1>4. /\ Accepted(Visited(p), s)
        /\ db' = [db EXCEPT ![at[p]] = Result(Visited(p), s)]
        /\ todo' = [todo EXCEPT ![p] = @ \ {s}]
        /\ UNCHANGED <<backend, pc, job, registry, existing, top, order, at, calls, alone>>
    BY DEF Exec
  <1>. QED
    BY <1>1, <1>2, <1>3, <1>4 DEF TypeInv, Shaped

LEMMA ExecResult ==
    ASSUME TypeInv, NEW p \in Processes, NEW s \in todo[p], Exec(p, s)
    PROVE  LET e == Visited(p)
               x == db[at[p]]
               y == db'[at[p]]
           IN  /\ s.do = "create" => y = There(e.cols, Implied(x, e.uniq), e.refs)
               /\ s.do = "column" =>
                     y = There(x.cols \cup {s.arg}, x.idx \cup Implied(x, {s.arg} \cap e.uniq), x.refs)
               /\ s.do = "rename" =>
                     y = There(Renamed(x.cols, e.renamed[s.arg], s.arg),
                               {[i EXCEPT !.on = Renamed(@, e.renamed[s.arg], s.arg)] : i \in x.idx},
                               x.refs)
               /\ s.do = "ref" => y = There(x.cols, x.idx, x.refs \cup {s.arg})
               /\ s.do \in {"index", "unique"} =>
                     y = There(x.cols, IF \E i \in x.idx : i.name = s.arg.name THEN x.idx
                                       ELSE x.idx \cup {s.arg}, x.refs)
               /\ s.do = "drop" => y = There(x.cols, {i \in x.idx : i.name # s.arg.name}, x.refs)
  <1>1. /\ s.do \in Kinds /\ Visited(p).table = at[p]
        /\ db'[at[p]] = Result(Visited(p), s)
    BY ExecIs
  <1>2. CASE s.do = "create"
    BY <1>1, <1>2 DEF Result
  <1>3. CASE s.do = "column"
    BY <1>1, <1>3 DEF Result
  <1>4. CASE s.do = "rename"
    BY <1>1, <1>4 DEF Result
  <1>5. CASE s.do = "ref"
    BY <1>1, <1>5 DEF Result
  <1>6. CASE s.do \in {"index", "unique"}
    BY <1>1, <1>6 DEF Result
  <1>7. CASE s.do = "drop"
    BY <1>1, <1>7 DEF Result
  <1>. QED
    BY <1>1, <1>2, <1>3, <1>4, <1>5, <1>6, <1>7 DEF Kinds

LEMMA ExecAccepted ==
    ASSUME TypeInv, NEW p \in Processes, NEW s \in todo[p], Exec(p, s)
    PROVE  LET e == Visited(p)
               x == db[at[p]]
           IN  /\ s.do = "create" => ~x.there
               /\ s.do = "column" => x.there /\ s.arg \notin x.cols
               /\ s.do = "rename" => /\ x.there /\ s.arg \notin x.cols
                                     /\ e.renamed[s.arg] \in x.cols
               /\ s.do = "ref" => x.there
               /\ s.do \in {"index", "unique"} => x.there
               /\ s.do = "drop" => x.idx # {}
  BY ExecIs DEF Accepted, Kinds

LEMMA ThereIs ==
    ASSUME NEW e, NEW s, s.do \in Kinds
    PROVE  Result(e, s).there
  BY DEF Result, There, Kinds

(***************************************************************************)
(* Type correctness.                                                       *)
(***************************************************************************)
LEMMA InitTypeInv == Init => TypeInv
  <1>. SUFFICES ASSUME Init
                PROVE  TypeInv
    OBVIOUS
  <1>1. (CHOOSE t \in Tables : TRUE) \in Tables
    BY SchemaAssumption
  <1>2. TypeOK
    BY <1>1 DEF Init, TypeOK, Absent
  <1>3. Shaped /\ Together
    BY DEF Init, Shaped, Together
  <1>4. \A p \in Processes : Running(p) /\ Owed(p)
    BY DEF Init, Running, Owed
  <1>. QED
    BY <1>2, <1>3, <1>4 DEF TypeInv

LEMMA NextIs ==
    Next <=> \E p \in Processes : Quiet(p) \/ \E s \in todo[p] : Exec(p, s)
  BY DEF Next, Quiet

LEMMA QuietTypeInv ==
    ASSUME TypeInv, NEW p \in Processes, Quiet(p)
    PROVE  TypeInv'
  <1>. USE DEF Goto
  <1>1. UNCHANGED <<backend, db>>
    BY QuietSteps
  <1>2. Shaped'
    BY <1>1 DEF TypeInv, Shaped, Quiet, Start, Pop, PushLeftover, EndSort, NextTable, Finish, Stop
  <1>r. ASSUME NEW q \in Processes, q # p
        PROVE  Running(q)' /\ Owed(q)'
    <2>1. Untouched(q)
      BY <1>r, OthersUntouched
    <2>. QED
      BY <1>1, <2>1 DEF TypeInv, Running, Owed, Untouched, Visited, Statements, NewRefs, RefsChecked
  <1>3. ASSUME NEW j \in Jobs, NEW R \in Registries, Start(p, j, R)
        PROVE  TypeInv'
    <2>1. TypeOK'
      <3>1. top'[p] \in SUBSET Tables
        BY <1>3, SchemaAssumption, EntityOf
           DEF Start, TypeInv, TypeOK, Registered, Referenced
      <3>. QED
        BY <1>1, <1>3, <3>1 DEF Start, TypeInv, TypeOK
    <2>2. Together'
      BY <1>3 DEF Start, TypeInv, TypeOK, Together
    <2>3. Running(p)' /\ Owed(p)'
      <3>1. todo'[p] = {}
        BY <1>3 DEF Start, TypeInv, TypeOK
      <3>2. /\ job'[p] = j /\ registry'[p] = R
            /\ existing'[p] = IF j = "sync" THEN db ELSE [t \in Tables |-> Absent]
        BY <1>3 DEF Start, TypeInv, TypeOK, Shaped
      <3>3. \A t \in Tables : existing'[p][t].there \/ existing'[p][t] = Absent
        BY <3>2 DEF TypeInv, TypeOK
      <3>. QED
        BY <3>1, <3>2, <3>3, SchemaAssumption DEF TypeInv, Shaped, Running, Owed
    <2>. QED
      BY <1>2, <2>1, <2>2, <2>3, <1>r DEF TypeInv
  <1>4. ASSUME NEW t \in Tables, Pop(p, t)
        PROVE  TypeInv'
    <2>1. TypeOK'
      BY <1>1, <1>4 DEF Pop, TypeInv, TypeOK
    <2>2. Together' /\ Running(p)' /\ Owed(p)'
      BY <1>1, <1>4 DEF Pop, TypeInv, TypeOK, Together, Running, Owed
    <2>. QED
      BY <1>2, <2>1, <2>2, <1>r DEF TypeInv
  <1>5. ASSUME NEW i \in DOMAIN registry[p], PushLeftover(p, i)
        PROVE  TypeInv'
    <2>1. TypeOK'
      <3>1. registry[p] \in Registries /\ registry[p][i].table \in Tables
        BY <1>5, EntityOf, SchemaAssumption DEF PushLeftover, TypeInv, Running
      <3>2. order'[p] \in Seq(Tables) /\ order' = [order EXCEPT ![p] = order'[p]]
        BY <1>5, <3>1 DEF PushLeftover, TypeInv, TypeOK
      <3>. QED
        BY <1>1, <1>5, <3>1, <3>2 DEF PushLeftover, TypeInv, TypeOK
    <2>2. Together' /\ Running(p)'
      <3>1. pc[p] = "rest" /\ pc'[p] # "idle" /\ \A q \in Processes : q # p => pc'[q] = pc[q]
        BY <1>5 DEF PushLeftover, TypeInv, TypeOK
      <3>2. UNCHANGED <<job, registry, existing>>
        BY <1>5 DEF PushLeftover
      <3>3. Together /\ Running(p)
        BY DEF TypeInv
      <3>4. Together'
        BY <3>1, <3>2, <3>3 DEF Together
      <3>5. Running(p)'
        BY <3>1, <3>2, <3>3 DEF Running
      <3>. QED
        BY <3>4, <3>5
    <2>3. Owed(p)'
      BY <1>1, <1>5 DEF PushLeftover, TypeInv, Owed
    <2>. QED
      BY <1>2, <2>1, <2>2, <2>3, <1>r DEF TypeInv
  <1>6. CASE EndSort(p)
    <2>1. TypeOK'
      BY <1>1, <1>6 DEF EndSort, TypeInv, TypeOK, Running
    <2>2. Together' /\ Running(p)' /\ Owed(p)'
      BY <1>1, <1>6 DEF EndSort, TypeInv, TypeOK, Together, Running, Owed
    <2>. QED
      BY <1>2, <2>1, <2>2, <1>r DEF TypeInv
  <1>7. CASE NextTable(p)
    <2>1. TypeOK'
      BY <1>1, <1>7 DEF NextTable, TypeInv, TypeOK, Running
    <2>2. Together' /\ Running(p)'
      <3>1. UNCHANGED <<pc, job, registry, existing>>
        BY <1>7 DEF NextTable
      <3>2. Together /\ Running(p)
        BY DEF TypeInv
      <3>3. Together'
        BY <3>1, <3>2 DEF Together
      <3>4. Running(p)'
        BY <3>1, <3>2 DEF Running
      <3>. QED
        BY <3>3, <3>4
    <2>3. Owed(p)'
      <3>1. /\ pc'[p] = "tables" /\ at'[p] = Head(order[p])
            /\ registry'[p] = registry[p] /\ existing'[p] = existing[p]
        BY <1>7 DEF NextTable, TypeInv, TypeOK
      <3>2. todo'[p] = IF at'[p] \in Registered(registry[p])
                       THEN Statements(Entity(registry[p], at'[p]), existing[p][at'[p]])
                       ELSE {}
        BY <1>7, <3>1 DEF NextTable, TypeInv, Shaped
      <3>. QED
        BY <1>1, <3>1, <3>2 DEF Owed, Visited, Statements, NewRefs, RefsChecked
    <2>. QED
      BY <1>2, <2>1, <2>2, <2>3, <1>r DEF TypeInv
  <1>8. CASE Finish(p)
    <2>1. TypeOK'
      BY <1>1, <1>8 DEF Finish, TypeInv, TypeOK, Running
    <2>2. Together' /\ Running(p)' /\ Owed(p)'
      BY <1>1, <1>8 DEF Finish, TypeInv, TypeOK, Together, Running, Owed
    <2>. QED
      BY <1>2, <2>1, <2>2, <1>r DEF TypeInv
  <1>9. CASE Stop(p)
    <2>1. TypeOK'
      <3>1. order'[p] = <<>> /\ todo'[p] = {}
        BY <1>9 DEF Stop, TypeInv, TypeOK, Shaped
      <3>2. order' \in [Processes -> Seq(Tables)]
        BY <1>9 DEF Stop, TypeInv, TypeOK
      <3>. QED
        BY <1>1, <1>9, <3>1, <3>2 DEF Stop, TypeInv, TypeOK, Shaped
    <2>2. Together' /\ Running(p)' /\ Owed(p)'
      BY <1>1, <1>9 DEF Stop, TypeInv, TypeOK, Shaped, Together, Running, Owed
    <2>. QED
      BY <1>2, <2>1, <2>2, <1>r DEF TypeInv
  <1>. QED
    BY <1>3, <1>4, <1>5, <1>6, <1>7, <1>8, <1>9 DEF Quiet

LEMMA ExecTypeInv ==
    ASSUME TypeInv, NEW p \in Processes, NEW s \in todo[p], Exec(p, s)
    PROVE  TypeInv'
  <1>. DEFINE e == Visited(p)
  <1>1. e \in Entities /\ e.table = at[p] /\ at[p] \in Tables /\ s.do \in Kinds
    BY ExecIs
  <1>2. Result(e, s).there /\ Result(e, s).refs \subseteq Tables
    <2>1. e.refs \subseteq Tables /\ db[e.table].refs \subseteq Tables
      BY <1>1, SchemaAssumption DEF TypeInv, TypeOK
    <2>2. s.do = "ref" => s.arg \in e.refs
      BY ExecIs, StatementKinds
    <2>3. Result(e, s).refs \subseteq Tables
      BY <1>1, <2>1, <2>2 DEF Result, There, Kinds
    <2>. QED
      BY <1>1, <2>3, ThereIs
  <1>3. TypeOK'
    <2>1. synced' \subseteq Registries
      BY DEF Exec, TypeInv, TypeOK
    <2>2. ASSUME NEW t \in Tables
          PROVE  db'[t].refs \subseteq Tables /\ (db'[t].there \/ db'[t] = Absent)
      <3>1. CASE t = at[p]
        BY <1>2, <3>1, ExecIs
      <3>2. CASE t # at[p]
        <4>1. db'[t] = db[t]
          BY <3>2, ExecIs
        <4>2. db[t].refs \subseteq Tables /\ (db[t].there \/ db[t] = Absent)
          BY DEF TypeInv, TypeOK
        <4>. QED
          BY <4>1, <4>2
      <3>. QED
        BY <3>1, <3>2
    <2>3. ASSUME NEW q \in Processes, pc[q] = "idle"
          PROVE  order[q] = <<>> /\ todo'[q] = {}
      BY <2>3, ExecIs, OthersUntouched DEF TypeInv, TypeOK, Untouched
    <2>. QED
      BY <2>1, <2>2, <2>3, ExecIs DEF TypeInv, TypeOK
  <1>4. Shaped' /\ Together'
    BY ExecIs DEF TypeInv, Shaped, Together
  <1>5. ASSUME NEW q \in Processes
        PROVE  Running(q)' /\ Owed(q)'
    <2>1. todo'[q] \subseteq todo[q]
      BY ExecIs, OthersUntouched DEF Untouched
    <2>. QED
      BY <2>1, ExecIs DEF TypeInv, Running, Owed, Visited, Statements, NewRefs, RefsChecked
  <1>. QED
    BY <1>3, <1>4, <1>5 DEF TypeInv

LEMMA NextTypeInv == TypeInv /\ [Next]_vars => TypeInv'
  <1>1. TypeInv /\ Next => TypeInv'
    BY NextIs, QuietTypeInv, ExecTypeInv
  <1>2. TypeInv /\ UNCHANGED vars => TypeInv'
    BY DEF vars, TypeInv, TypeOK, Shaped, Together, Running, Owed, Visited, Statements, NewRefs,
           RefsChecked
  <1>. QED
    BY <1>1, <1>2

\* Whatever the processes and their programs do, the schema and what the
\* processes hold have their shapes: a process that is idle has nothing to visit
\* and nothing to do (src/src/schema/builder.rs, apply and sync).
THEOREM TypeCorrect == Spec => []TypeOK
  <1>1. TypeInv => TypeOK
    BY DEF TypeInv
  <1>. QED
    BY <1>1, InitTypeInv, NextTypeInv, PTL DEF Spec

(***************************************************************************)
(* The order in which tables are visited: nothing registered is forgotten, *)
(* nothing comes twice, and without a circle nothing comes before what it  *)
(* references.                                                             *)
(***************************************************************************)
Covered(p) ==
    /\ pc[p] \in {"sort", "rest"} => Registered(registry[p]) \subseteq top[p] \cup Range(order[p])
    /\ pc[p] = "rest" => Unsorted(p) # {}

Once(s) == \A i, j \in DOMAIN s : s[i] = s[j] => i = j

\* What the sorter held is in it or in the order, once.
Sorting(p) ==
    /\ pc[p] = "sort" =>
          top[p] \cup Range(order[p]) = Registered(registry[p]) \cup Referenced(registry[p])
    /\ pc[p] \in {"sort", "rest"} => top[p] \cap Range(order[p]) = {}
    /\ Once(order[p])
    /\ todo[p] # {} => at[p] \notin Range(order[p])

Follows(R, s) == \A i, j \in DOMAIN s : i < j => ~Precedes(R, s[j], s[i])

Ordered(p) ==
    pc[p] # "idle" /\ NoCycle(registry[p]) =>
       /\ pc[p] # "rest"
       /\ Follows(registry[p], order[p])
       /\ pc[p] = "sort" =>
             \A t \in top[p], u \in Range(order[p]) : ~Precedes(registry[p], t, u)
       /\ todo[p] # {} => \A u \in Range(order[p]) : ~Precedes(registry[p], u, at[p])

OrderFits(p) == Covered(p) /\ Sorting(p) /\ Ordered(p)

OrderInv == TypeInv /\ \A p \in Processes : OrderFits(p)

LEMMA AppendIs ==
    ASSUME NEW S, NEW s \in Seq(S), NEW t \in S
    PROVE  /\ DOMAIN s = 1..Len(s) /\ Len(s) \in Nat /\ DOMAIN Append(s, t) = 1..Len(s) + 1
           /\ \A i \in 1..Len(s) : Append(s, t)[i] = s[i]
           /\ Append(s, t)[Len(s) + 1] = t
  OBVIOUS

LEMMA RangeAppend ==
    ASSUME NEW S, NEW s \in Seq(S), NEW t \in S
    PROVE  Range(Append(s, t)) = Range(s) \cup {t}
  BY AppendIs DEF Range

LEMMA AppendOnce ==
    ASSUME NEW S, NEW s \in Seq(S), NEW t \in S \ Range(s), Once(s)
    PROVE  Once(Append(s, t))
  <1>1. \A i \in DOMAIN s : s[i] # t
    BY DEF Range
  <1>. QED
    BY <1>1, AppendIs DEF Once

LEMMA AppendFollows ==
    ASSUME NEW R, NEW S, NEW s \in Seq(S), NEW t \in S, Follows(R, s),
           \A u \in Range(s) : ~Precedes(R, t, u)
    PROVE  Follows(R, Append(s, t))
  <1>1. \A i \in DOMAIN s : ~Precedes(R, t, s[i])
    BY DEF Range
  <1>. QED
    BY <1>1, AppendIs DEF Follows

LEMMA TailIs ==
    ASSUME NEW S, NEW s \in Seq(S), s # <<>>
    PROVE  /\ Len(s) \in Nat \ {0} /\ DOMAIN s = 1..Len(s) /\ DOMAIN Tail(s) = 1..Len(s) - 1
           /\ Head(s) = s[1] /\ \A i \in 1..Len(s) - 1 : Tail(s)[i] = s[i + 1]
  OBVIOUS

LEMMA RangeTail ==
    ASSUME NEW S, NEW s \in Seq(S), s # <<>>
    PROVE  Range(s) = Range(Tail(s)) \cup {Head(s)}
  <1>1. ASSUME NEW i \in DOMAIN s
        PROVE  s[i] = Head(s) \/ \E j \in DOMAIN Tail(s) : s[i] = Tail(s)[j]
    <2>1. i = 1 \/ (i - 1 \in DOMAIN Tail(s) /\ s[i] = Tail(s)[i - 1])
      BY TailIs
    <2>. QED
      BY <2>1, TailIs
  <1>2. ASSUME NEW j \in DOMAIN Tail(s)
        PROVE  \E i \in DOMAIN s : s[i] = Tail(s)[j]
    BY TailIs
  <1>3. \E i \in DOMAIN s : s[i] = Head(s)
    BY TailIs
  <1>. QED
    BY <1>1, <1>2, <1>3 DEF Range

LEMMA TailOnce ==
    ASSUME NEW S, NEW s \in Seq(S), s # <<>>, Once(s)
    PROVE  Once(Tail(s)) /\ Head(s) \notin Range(Tail(s))
  BY TailIs DEF Once, Range

LEMMA TailFollows ==
    ASSUME NEW R, NEW S, NEW s \in Seq(S), s # <<>>, Follows(R, s)
    PROVE  Follows(R, Tail(s)) /\ \A u \in Range(Tail(s)) : ~Precedes(R, u, Head(s))
  BY TailIs DEF Follows, Range

(***************************************************************************)
(* A registry without a circle is sorted to the end; in one that           *)
(* references only what it registers, as many sorted tables as entities    *)
(* are all of them.                                                        *)
(***************************************************************************)
Complies(R) == SelfContained(R) \/ NoCycle(R)

LEMMA AsManyAsRegistered ==
    ASSUME NEW R \in Registries, NEW s \in Seq(Registered(R)), Len(s) = Len(R),
           \A i, j \in DOMAIN s : s[i] = s[j] => i = j
    PROVE  Range(s) = Registered(R)
  <1>. DEFINE T == Registered(R)
              name == [i \in 1..Len(R) |-> R[i].table]
  <1>1. DOMAIN R = 1..Len(R) /\ Len(R) \in Nat
    BY SchemaAssumption
  <1>2. name \in Surjection(1..Len(R), T) /\ name \in Injection(1..Len(R), T)
    <2>1. name \in [1..Len(R) -> T] /\ \A t \in T : \E i \in 1..Len(R) : name[i] = t
      BY <1>1 DEF Registered
    <2>2. \A i, j \in 1..Len(R) : name[i] = name[j] => i = j
      BY <1>1, SchemaAssumption
    <2>. QED
      BY <2>1, <2>2 DEF Surjection, Injection, IsInjective
  <1>3. IsFiniteSet(1..Len(R)) /\ IsFiniteSet(T) /\ Cardinality(T) = Cardinality(1..Len(R))
    BY <1>1, <1>2, FS_Interval, FS_Surjection
  <1>4. s \in Injection(1..Len(R), T)
    <2>1. s \in [1..Len(R) -> T] /\ DOMAIN s = 1..Len(R)
      OBVIOUS
    <2>. QED
      BY <2>1 DEF Injection, IsInjective
  <1>5. s \in Surjection(1..Len(R), T)
    BY <1>3, <1>4, FS_Injection
  <1>. QED
    BY <1>5 DEF Surjection, Range

LEMMA NoCycleSorts ==
    ASSUME OrderInv, NEW p \in Processes, EndSort(p), NoCycle(registry[p])
    PROVE  Unsorted(p) = {}
  <1>. DEFINE R == registry[p]
              S == top[p] \cap Registered(R)
  <1>1. SUFFICES ASSUME Unsorted(p) # {}
                 PROVE  FALSE
    OBVIOUS
  <1>2. S # {}
    BY <1>1 DEF Unsorted, Registered
  <1>3. PICK t \in S : \A u \in S : ~Precedes(R, u, t)
    BY <1>2 DEF NoCycle
  <1>4. PICK u \in top[p] : Precedes(R, u, t)
    BY <1>3 DEF EndSort, Poppable, OrderInv, TypeInv, TypeOK
  <1>5. u \notin Registered(R)
    BY <1>3, <1>4
  <1>6. \A v \in top[p] : ~Precedes(R, v, u)
    BY <1>5 DEF Precedes, Registered
  <1>. QED
    BY <1>4, <1>6 DEF EndSort, Poppable

LEMMA SortComplete ==
    ASSUME OrderInv, NEW p \in Processes, EndSort(p), Complies(registry[p]),
           Len(order[p]) = Len(registry[p])
    PROVE  Unsorted(p) = {}
  <1>. DEFINE R == registry[p]
  <1>1. R \in Registries /\ pc[p] = "sort" /\ order[p] \in Seq(Tables)
    BY DEF EndSort, OrderInv, TypeInv, TypeOK, Running
  <1>2. CASE SelfContained(R)
    <2>1. Range(order[p]) \subseteq Registered(R)
      BY <1>1, <1>2 DEF OrderInv, OrderFits, Sorting, SelfContained
    <2>2. order[p] \in Seq(Registered(R))
      BY <1>1, <2>1 DEF Range
    <2>3. Range(order[p]) = Registered(R)
      BY <1>1, <2>2, AsManyAsRegistered DEF OrderInv, OrderFits, Sorting, Once
    <2>. QED
      BY <1>1, <2>3 DEF OrderInv, OrderFits, Sorting, Unsorted, Registered
  <1>. QED
    BY <1>2, NoCycleSorts DEF Complies

LEMMA UntouchedOrder ==
    ASSUME NEW q \in Processes, OrderFits(q), Untouched(q)
    PROVE  OrderFits(q)'
  BY DEF OrderFits, Covered, Sorting, Ordered, Unsorted, Untouched

LEMMA StartOrder ==
    ASSUME OrderInv, NEW p \in Processes, NEW j \in Jobs, NEW R \in Registries, Start(p, j, R)
    PROVE  OrderFits(p)'
  <1>1. /\ pc'[p] = "sort" /\ registry'[p] = R /\ order'[p] = <<>> /\ todo'[p] = {}
        /\ top'[p] = Registered(R) \cup Referenced(R)
    BY DEF Start, Goto, OrderInv, TypeInv, TypeOK, Shaped
  <1>. QED
    BY <1>1 DEF OrderFits, Covered, Sorting, Ordered, Once, Follows, Range

LEMMA PopOrder ==
    ASSUME OrderInv, NEW p \in Processes, NEW t \in Tables, Pop(p, t)
    PROVE  OrderFits(p)'
  <1>1. /\ pc[p] = "sort" /\ t \in top[p] /\ order[p] \in Seq(Tables)
        /\ \A u \in top[p] : ~Precedes(registry[p], u, t)
        /\ top'[p] = top[p] \ {t} /\ order'[p] = Append(order[p], t)
        /\ UNCHANGED <<pc, registry, todo, at>>
    BY DEF Pop, Poppable, OrderInv, TypeInv, TypeOK
  <1>2. Covered(p) /\ Sorting(p) /\ Ordered(p) /\ todo[p] = {}
    BY <1>1 DEF OrderInv, OrderFits, TypeInv, Owed
  <1>3. Range(order'[p]) = Range(order[p]) \cup {t}
    BY <1>1, RangeAppend
  <1>4. Once(order'[p])
    BY <1>1, <1>2, AppendOnce DEF Sorting
  <1>5. NoCycle(registry[p]) => Follows(registry[p], order'[p])
    BY <1>1, <1>2, AppendFollows DEF Ordered
  <1>. QED
    BY <1>1, <1>2, <1>3, <1>4, <1>5 DEF OrderFits, Covered, Sorting, Ordered

LEMMA PushOrder ==
    ASSUME OrderInv, NEW p \in Processes, NEW i \in DOMAIN registry[p], PushLeftover(p, i)
    PROVE  /\ OrderFits(p)'
           /\ pc'[p] = "tables" => Registered(registry[p]) \subseteq Range(order'[p])
  <1>. DEFINE t == registry[p][i].table
  <1>1. /\ pc[p] = "rest" /\ order[p] \in Seq(Tables)
        /\ top'[p] = top[p] \ {t} /\ order'[p] = Append(order[p], t)
        /\ pc'[p] = IF Unsorted(p) = {i} THEN "tables" ELSE "rest"
        /\ UNCHANGED <<registry, todo, at>>
    BY DEF PushLeftover, Goto, OrderInv, TypeInv, TypeOK
  <1>2. /\ registry[p] \in Registries /\ t \in Tables /\ i \in Unsorted(p) /\ t \in top[p]
        /\ \A k \in DOMAIN registry[p] : registry[p][k].table = t => k = i
    <2>1. registry[p] \in Registries
      BY <1>1 DEF OrderInv, TypeInv, Running
    <2>2. i \in Unsorted(p) /\ t \in top[p]
      BY DEF PushLeftover, Unsorted
    <2>. QED
      BY <2>1, <2>2, EntityOf, SchemaAssumption
  <1>3. Covered(p) /\ Sorting(p) /\ Ordered(p) /\ todo[p] = {}
    <2>1. OrderFits(p) /\ Owed(p)
      BY DEF OrderInv, TypeInv
    <2>. QED
      BY <1>1, <2>1 DEF OrderFits, Owed
  <1>4. Range(order'[p]) = Range(order[p]) \cup {t}
    BY <1>1, <1>2, RangeAppend
  <1>5. Registered(registry[p]) \subseteq top'[p] \cup Range(order'[p])
    BY <1>1, <1>3, <1>4 DEF Covered
  <1>6. Unsorted(p)' = Unsorted(p) \ {i}
    BY <1>1, <1>2 DEF Unsorted
  <1>7. Once(order'[p])
    BY <1>1, <1>2, <1>3, AppendOnce DEF Sorting
  <1>8. Covered(p)' /\ Sorting(p)' /\ Ordered(p)'
    BY <1>1, <1>2, <1>3, <1>4, <1>5, <1>6, <1>7 DEF Covered, Sorting, Ordered
  <1>9. pc'[p] = "tables" => Registered(registry[p]) \subseteq Range(order'[p])
    BY <1>1, <1>5, <1>6 DEF Unsorted, Registered
  <1>. QED
    BY <1>8, <1>9 DEF OrderFits

LEMMA EndSortOrder ==
    ASSUME OrderInv, NEW p \in Processes, EndSort(p)
    PROVE  /\ OrderFits(p)'
           /\ Complies(registry[p]) /\ pc'[p] = "tables"
              => Registered(registry[p]) \subseteq Range(order'[p])
  <1>1. /\ pc[p] = "sort"
        /\ pc'[p] = IF Len(order[p]) # Len(registry[p]) /\ Unsorted(p) # {} THEN "rest" ELSE "tables"
        /\ UNCHANGED <<registry, order, top, todo, at>>
    BY DEF EndSort, Goto, OrderInv, TypeInv, TypeOK
  <1>2. Covered(p) /\ Sorting(p) /\ Ordered(p) /\ todo[p] = {}
    BY <1>1 DEF OrderInv, OrderFits, TypeInv, Owed
  <1>3. NoCycle(registry[p]) => pc'[p] = "tables"
    BY <1>1, NoCycleSorts
  <1>4. Covered(p)' /\ Sorting(p)' /\ Ordered(p)'
    BY <1>1, <1>2, <1>3 DEF Covered, Sorting, Ordered, Unsorted
  <1>5. Complies(registry[p]) /\ pc'[p] = "tables" => Unsorted(p) = {}
    BY <1>1, SortComplete
  <1>6. Unsorted(p) = {} => Registered(registry[p]) \subseteq Range(order[p])
    BY <1>1, <1>2 DEF Covered, Unsorted, Registered
  <1>. QED
    BY <1>1, <1>4, <1>5, <1>6 DEF OrderFits

LEMMA NextTableIs ==
    ASSUME OrderInv, NEW p \in Processes, NextTable(p)
    PROVE  LET R == registry[p]
               t == Head(order[p])
           IN  /\ pc[p] = "tables" /\ todo[p] = {} /\ order[p] # <<>> /\ order[p] \in Seq(Tables)
               /\ R \in Registries /\ t \in Tables
               /\ order'[p] = Tail(order[p]) /\ at'[p] = t
               /\ todo'[p] = IF t \in Registered(R)
                             THEN Statements(Entity(R, t), existing[p][t]) ELSE {}
               /\ Range(order[p]) = Range(order'[p]) \cup {t}
               /\ t \notin Range(order'[p])
               /\ UNCHANGED <<backend, pc, job, registry, existing, db, alone>>
  <1>1. /\ pc[p] = "tables" /\ todo[p] = {} /\ order[p] # <<>> /\ order[p] \in Seq(Tables)
        /\ registry[p] \in Registries
        /\ order'[p] = Tail(order[p]) /\ at'[p] = Head(order[p])
        /\ UNCHANGED <<backend, pc, job, registry, existing, db, alone>>
    BY DEF NextTable, OrderInv, TypeInv, TypeOK, Running
  <1>2. todo'[p] = LET t == Head(order[p])
                   IN  IF t \in Registered(registry[p])
                       THEN Statements(Entity(registry[p], t), existing[p][t]) ELSE {}
    BY DEF NextTable, OrderInv, TypeInv, Shaped
  <1>3. Once(order[p])
    BY DEF OrderInv, OrderFits, Sorting
  <1>. QED
    BY <1>1, <1>2, <1>3, RangeTail, TailOnce

LEMMA NextTableOrder ==
    ASSUME OrderInv, NEW p \in Processes, NextTable(p)
    PROVE  OrderFits(p)'
  <1>1. Covered(p) /\ Sorting(p) /\ Ordered(p)
    BY DEF OrderInv, OrderFits
  <1>2. Once(order'[p])
    BY <1>1, NextTableIs, TailOnce DEF Sorting
  <1>3. NoCycle(registry[p]) => /\ Follows(registry[p], order'[p])
                                /\ \A u \in Range(order'[p]) : ~Precedes(registry[p], u, at'[p])
    BY <1>1, NextTableIs, TailFollows DEF Ordered
  <1>. QED
    BY <1>2, <1>3, NextTableIs DEF OrderFits, Covered, Sorting, Ordered

LEMMA NextOrder == OrderInv /\ [Next]_vars => OrderInv'
  <1>. SUFFICES ASSUME OrderInv, [Next]_vars
                PROVE  OrderInv'
    OBVIOUS
  <1>1. TypeInv'
    BY NextTypeInv DEF OrderInv
  <1>2. CASE UNCHANGED vars
    BY <1>1, <1>2, UntouchedOrder DEF vars, OrderInv, Untouched
  <1>3. ASSUME NEW p \in Processes, Quiet(p)
        PROVE  OrderInv'
    <2>1. ASSUME Finish(p) \/ Stop(p)
          PROVE  OrderFits(p)'
      <3>1. /\ pc'[p] = "idle" /\ order'[p] = <<>> /\ todo'[p] = {}
        BY <2>1 DEF Finish, Stop, Goto, OrderInv, TypeInv, TypeOK, Shaped
      <3>. QED
        BY <3>1 DEF OrderFits, Covered, Sorting, Ordered, Once
    <2>2. OrderFits(p)'
      BY <1>3, <2>1, StartOrder, PopOrder, PushOrder, EndSortOrder, NextTableOrder DEF Quiet
    <2>. QED
      BY <1>1, <1>3, <2>2, OthersUntouched, UntouchedOrder DEF OrderInv
  <1>4. ASSUME NEW p \in Processes, NEW s \in todo[p], Exec(p, s)
        PROVE  OrderInv'
    <2>1. /\ todo'[p] \subseteq todo[p]
          /\ UNCHANGED <<pc, registry, top, order, at>>
      BY <1>4, ExecIs DEF OrderInv
    <2>2. OrderFits(p)'
      <3>1. OrderFits(p)
        BY DEF OrderInv
      <3>. QED
        BY <2>1, <3>1 DEF OrderFits, Covered, Sorting, Ordered, Unsorted
    <2>. QED
      BY <1>1, <1>4, <2>2, OthersUntouched, UntouchedOrder DEF OrderInv
  <1>. QED
    BY <1>2, <1>3, <1>4, NextIs

LEMMA InitOrder == Init => OrderInv
  <1>1. Init => \A p \in Processes : OrderFits(p)
    BY DEF Init, OrderFits, Covered, Sorting, Ordered, Once, Range
  <1>. QED
    BY <1>1, InitTypeInv DEF OrderInv

(***************************************************************************)
(* The indexes that a table can have: those some release declares, and     *)
(* those the server made for a unique column.                              *)
(***************************************************************************)
ServerIndex(c, n) == [name |-> <<"key", c, n>>, on |-> {c}, unique |-> TRUE, constraint |-> TRUE]

Known(t, i) ==
    \E e \in Entities :
       /\ e.table = t
       /\ \/ i \in Declared(e)
          \/ i.constraint /\ \E c \in e.uniq : i = ServerIndex(c, i.name[3])

KnownInv ==
    \A t \in Tables : /\ \A i \in db[t].idx : Known(t, i)
                      /\ \A p \in Processes : pc[p] # "idle" =>
                            \A i \in existing[p][t].idx : Known(t, i)

LEMMA DeclaredIs ==
    ASSUME NEW e \in Entities, NEW i \in Declared(e)
    PROVE  \E n : i.name = <<"idx", n>>
  BY SchemaAssumption DEF Declared, OwnIndex, Index

LEMMA KnownIs ==
    ASSUME NEW t, NEW i, Known(t, i)
    PROVE  i = [name |-> i.name, on |-> i.on, unique |-> i.unique, constraint |-> i.constraint]
  <1>1. PICK e \in Entities : /\ e.table = t
                              /\ \/ i \in Declared(e)
                                 \/ \E c \in e.uniq : i = ServerIndex(c, i.name[3])
    BY DEF Known
  <1>2. CASE i \in Declared(e)
    BY <1>2, SchemaAssumption DEF Declared, OwnIndex, Index
  <1>3. CASE \E c \in e.uniq : i = ServerIndex(c, i.name[3])
    BY <1>3 DEF ServerIndex
  <1>. QED
    BY <1>1, <1>2, <1>3

\* A name tells the index.
LEMMA NamesTell ==
    ASSUME Steady, NEW t, NEW i, NEW j, Known(t, i), Known(t, j), i.name = j.name
    PROVE  i = j
  <1>1. PICK e \in Entities : /\ e.table = t
                              /\ \/ i \in Declared(e)
                                 \/ \E c \in e.uniq : i = ServerIndex(c, i.name[3])
    BY DEF Known
  <1>2. PICK f \in Entities : /\ f.table = t
                              /\ \/ j \in Declared(f)
                                 \/ \E c \in f.uniq : j = ServerIndex(c, j.name[3])
    BY DEF Known
  <1>3. ASSUME NEW g \in Entities, NEW k \in Declared(g)
        PROVE  k.name[1] # "key"
    BY DeclaredIs
  <1>4. ASSUME NEW c, NEW n
        PROVE  /\ ServerIndex(c, n).name = <<"key", c, n>>
               /\ ServerIndex(c, n).name[1] = "key" /\ ServerIndex(c, n).name[2] = c
    BY DEF ServerIndex
  <1>5. CASE i \in Declared(e) /\ j \in Declared(f)
    BY <1>1, <1>2, <1>5 DEF Steady
  <1>6. CASE /\ \E c \in e.uniq : i = ServerIndex(c, i.name[3])
             /\ \E c \in f.uniq : j = ServerIndex(c, j.name[3])
    BY <1>4, <1>6
  <1>. QED
    BY <1>1, <1>2, <1>3, <1>4, <1>5, <1>6

\* What an entity of the table can rely on.
LEMMA KnownFits ==
    ASSUME Steady, NEW t, NEW i, Known(t, i), NEW f \in Entities, f.table = t
    PROVE  /\ \A k \in Declared(f) : k.on = i.on /\ k.unique => i.unique
           /\ \A c \in DOMAIN f.renamed : f.renamed[c] \notin i.on
  <1>1. PICK e \in Entities : /\ e.table = t
                              /\ \/ i \in Declared(e)
                                 \/ \E c \in e.uniq : i = ServerIndex(c, i.name[3])
    BY DEF Known
  <1>2. CASE i \in Declared(e)
    BY <1>1, <1>2 DEF Steady
  <1>3. ASSUME NEW c \in e.uniq, i = ServerIndex(c, i.name[3])
        PROVE  /\ i.unique
               /\ \A d \in DOMAIN f.renamed : f.renamed[d] \notin i.on
    <2>1. OwnIndex(c) \in Declared(e) /\ OwnIndex(c).on = {c}
      BY DEF Declared, OwnIndex, Index
    <2>2. i.unique /\ i.on = {c}
      BY <1>3 DEF ServerIndex
    <2>. QED
      BY <1>1, <2>1, <2>2 DEF Steady
  <1>. QED
    BY <1>1, <1>2, <1>3

LEMMA DeclaredKnown ==
    ASSUME NEW e \in Entities, NEW i \in Declared(e)
    PROVE  Known(e.table, i)
  BY DEF Known

LEMMA ImpliedIs ==
    ASSUME NEW x, NEW cols, NEW i \in Implied(x, cols)
    PROVE  /\ \E c \in cols : i = ServerIndex(c, i.name[3]) /\ i.on = {c}
           /\ i.unique /\ i.constraint
  <1>1. PICK c \in cols : i = [name |-> FreeName(x, c), on |-> {c}, unique |-> TRUE,
                               constraint |-> TRUE]
    BY DEF Implied
  <1>2. FreeName(x, c) = <<"key", c, FreeName(x, c)[3]>>
    BY DEF FreeName
  <1>. QED
    BY <1>1, <1>2 DEF ServerIndex

LEMMA ImpliedKnown ==
    ASSUME NEW e \in Entities, NEW x, NEW cols, cols \subseteq e.uniq, NEW i \in Implied(x, cols)
    PROVE  Known(e.table, i)
  BY ImpliedIs DEF Known

LEMMA ImpliedThere ==
    ASSUME NEW x, NEW cols, NEW c \in cols
    PROVE  \E i \in Implied(x, cols) : i.on = {c} /\ i.unique
  <1>. DEFINE i == [name |-> FreeName(x, c), on |-> {c}, unique |-> TRUE, constraint |-> TRUE]
  <1>1. i \in Implied(x, cols)
    BY DEF Implied
  <1>2. i.on = {c} /\ i.unique
    OBVIOUS
  <1>. QED
    BY <1>1, <1>2

(***************************************************************************)
(* How a table changes while instances of one program run: it gains what   *)
(* its entity declares, and keeps what it had of it.                       *)
(***************************************************************************)
Wanted(e, i) == (\E k \in e.keys : k.on = i.on) \/ (\E c \in e.uniq : {c} = i.on)

Evolves(e, x, y) ==
    /\ x.there => y.there
    /\ x.cols \cap e.cols \subseteq y.cols
    /\ x.refs \subseteq y.refs
    /\ \A i \in x.idx : Wanted(e, i) => i \in y.idx

\* No index comes that the entity does not want.
Gains(e, x, y) == \A i \in y.idx : i \in x.idx \/ Wanted(e, i)

\* What a statement was for is there.
Holds(e, s, x) ==
    /\ s.do = "create" => /\ x.there /\ e.cols \subseteq x.cols /\ e.refs \subseteq x.refs
                          /\ \A c \in e.uniq : HasUniqueOn(x, {c})
    /\ s.do \in {"column", "rename"} =>
          s.arg \in x.cols /\ (s.arg \in e.uniq => HasUniqueOn(x, {s.arg}))
    /\ s.do = "ref" => s.arg \in x.refs
    /\ s.do \in {"index", "unique"} => s.arg \in x.idx
    /\ s.do = "drop" => s.arg \notin x.idx

LEMMA IndexStatements ==
    ASSUME NEW e, NEW x, NEW s \in Statements(e, x), s.do \in {"index", "unique"}
    PROVE  s.arg \in Declared(e) /\ Wanted(e, s.arg)
  <1>1. CASE s.do = "index"
    <2>1. s.arg \in e.keys
      BY <1>1, StatementKinds
    <2>. QED
      BY <2>1 DEF Declared, Wanted
  <1>2. CASE s.do = "unique"
    <2>1. s.do = "unique" => \E c \in e.uniq \cap x.cols :
                                s.arg = OwnIndex(c) /\ ~HasUniqueOn(x, {c})
      BY StatementKinds
    <2>2. PICK c \in e.uniq : s.arg = OwnIndex(c)
      BY <1>2, <2>1
    <2>3. OwnIndex(c).on = {c}
      BY DEF OwnIndex, Index
    <2>4. s.arg \in Declared(e)
      BY <2>2 DEF Declared
    <2>. QED
      BY <2>2, <2>3, <2>4 DEF Wanted
  <1>. QED
    BY <1>1, <1>2

\* What a step makes of the table it works on.
Progress(p, s) ==
    /\ Evolves(Visited(p), db[at[p]], db'[at[p]]) /\ Gains(Visited(p), db[at[p]], db'[at[p]])
    /\ Holds(Visited(p), s, db'[at[p]])
    /\ \A i \in db'[at[p]].idx : Known(at[p], i)

LEMMA CreateProgress ==
    ASSUME TypeInv, KnownInv, NEW p \in Processes, NEW s \in todo[p], Exec(p, s), s.do = "create"
    PROVE  Progress(p, s)
  <1>. DEFINE e == Visited(p)
              x == db[at[p]]
              y == db'[at[p]]
  <1>1. e \in Entities /\ e.table = at[p] /\ at[p] \in Tables /\ s.do \in Kinds
    BY ExecIs
  <1>2. x = Absent
    <2>1. x.there \/ x = Absent
      BY <1>1 DEF TypeInv, TypeOK
    <2>. QED
      BY <2>1, ExecAccepted
  <1>3. y = There(e.cols, Implied(x, e.uniq), e.refs)
    BY <1>1, ExecIs, ExecResult
  <1>4. Evolves(e, x, y)
    BY <1>2, <1>3 DEF Evolves, There, Absent
  <1>5. Gains(e, x, y) /\ \A i \in y.idx : Known(at[p], i)
    BY <1>1, <1>3, ImpliedIs, ImpliedKnown DEF Gains, There, Wanted
  <1>6. Holds(e, s, y)
    <2>1. ASSUME NEW c \in e.uniq
          PROVE  HasUniqueOn(y, {c})
      <3>1. \E i \in Implied(x, e.uniq) : i.on = {c} /\ i.unique
        BY ImpliedThere
      <3>. QED
        BY <1>3, <3>1 DEF There, HasUniqueOn
    <2>2. y.there /\ y.cols = e.cols /\ y.refs = e.refs
      BY <1>3 DEF There
    <2>. QED
      BY <2>1, <2>2 DEF Holds
  <1>. QED
    BY <1>4, <1>5, <1>6 DEF Progress

LEMMA ColumnProgress ==
    ASSUME TypeInv, KnownInv, NEW p \in Processes, NEW s \in todo[p], Exec(p, s), s.do = "column"
    PROVE  Progress(p, s)
  <1>. DEFINE e == Visited(p)
              x == db[at[p]]
              y == db'[at[p]]
              new == Implied(x, {s.arg} \cap e.uniq)
  <1>1. e \in Entities /\ e.table = at[p] /\ at[p] \in Tables /\ s.do \in Kinds
    BY ExecIs
  <1>2. y = There(x.cols \cup {s.arg}, x.idx \cup new, x.refs)
    BY <1>1, ExecIs, ExecResult
  <1>3. Evolves(e, x, y)
    BY <1>2 DEF Evolves, There
  <1>4. ASSUME NEW i \in new
        PROVE  Wanted(e, i) /\ Known(at[p], i)
    BY <1>1, ImpliedIs, ImpliedKnown DEF Wanted
  <1>5. Gains(e, x, y) /\ \A i \in y.idx : Known(at[p], i)
    BY <1>1, <1>2, <1>4 DEF Gains, There, KnownInv
  <1>6. Holds(e, s, y)
    <2>1. s.arg \in e.uniq => \E i \in new : i.on = {s.arg} /\ i.unique
      BY ImpliedThere
    <2>. QED
      BY <1>2, <2>1 DEF Holds, There, HasUniqueOn
  <1>. QED
    BY <1>3, <1>5, <1>6 DEF Progress

LEMMA RenameProgress ==
    ASSUME Steady, TypeInv, KnownInv, NEW p \in Processes, NEW s \in todo[p], Exec(p, s),
           s.do = "rename"
    PROVE  Progress(p, s)
  <1>. DEFINE e == Visited(p)
              x == db[at[p]]
              y == db'[at[p]]
              old == e.renamed[s.arg]
  <1>1. e \in Entities /\ e.table = at[p] /\ at[p] \in Tables /\ s.do \in Kinds
    BY ExecIs
  <1>2. s.arg \in DOMAIN e.renamed /\ s.arg \notin e.uniq /\ old \notin e.cols
    BY <1>1, ExecIs, StatementKinds DEF Steady
  <1>3. ASSUME NEW i \in x.idx
        PROVE  [i EXCEPT !.on = Renamed(@, old, s.arg)] = i
    <2>1. Known(at[p], i)
      BY <1>1 DEF KnownInv
    <2>2. Renamed(i.on, old, s.arg) = i.on
      BY <1>1, <1>2, <2>1, KnownFits DEF Renamed
    <2>. QED
      BY <2>1, <2>2, KnownIs
  <1>4. y = There(Renamed(x.cols, old, s.arg), x.idx, x.refs)
    <2>1. {[i EXCEPT !.on = Renamed(@, old, s.arg)] : i \in x.idx} = x.idx
      BY <1>3
    <2>. QED
      BY <2>1, ExecResult
  <1>5. x.cols \cap e.cols \subseteq y.cols /\ s.arg \in y.cols
    BY <1>1, <1>2, <1>4, ExecIs, ExecAccepted DEF There, Renamed
  <1>. QED
    BY <1>1, <1>2, <1>4, <1>5 DEF Progress, Evolves, Gains, Holds, There, KnownInv

LEMMA RefProgress ==
    ASSUME TypeInv, KnownInv, NEW p \in Processes, NEW s \in todo[p], Exec(p, s), s.do = "ref"
    PROVE  Progress(p, s)
  <1>1. /\ Visited(p).table = at[p] /\ at[p] \in Tables /\ s.do \in Kinds
        /\ db'[at[p]] = Result(Visited(p), s)
    BY ExecIs
  <1>2. db'[at[p]] = There(db[at[p]].cols, db[at[p]].idx, db[at[p]].refs \cup {s.arg})
    BY <1>1, ExecResult
  <1>. QED
    BY <1>1, <1>2 DEF Progress, Evolves, Gains, Holds, There, KnownInv

LEMMA IndexProgress ==
    ASSUME Steady, TypeInv, KnownInv, NEW p \in Processes, NEW s \in todo[p], Exec(p, s),
           s.do \in {"index", "unique"}
    PROVE  Progress(p, s)
  <1>. DEFINE e == Visited(p)
              x == db[at[p]]
              y == db'[at[p]]
  <1>1. e \in Entities /\ e.table = at[p] /\ at[p] \in Tables /\ s.do \in Kinds
    BY ExecIs
  <1>2. s.arg \in Declared(e) /\ Wanted(e, s.arg)
    BY ExecIs, IndexStatements
  <1>3. Known(at[p], s.arg)
    BY <1>1, <1>2, DeclaredKnown
  <1>4. y = There(x.cols, x.idx \cup {s.arg}, x.refs)
    <2>1. y = There(x.cols, IF \E i \in x.idx : i.name = s.arg.name THEN x.idx
                            ELSE x.idx \cup {s.arg}, x.refs)
      BY <1>1, ExecIs, ExecResult
    <2>2. \A i \in x.idx : i.name = s.arg.name => i = s.arg
      BY <1>1, <1>3, NamesTell DEF KnownInv
    <2>. QED
      BY <2>1, <2>2
  <1>. QED
    BY <1>1, <1>2, <1>3, <1>4 DEF Progress, Evolves, Gains, Holds, There, KnownInv

LEMMA DropProgress ==
    ASSUME Steady, TypeInv, KnownInv, NEW p \in Processes, NEW s \in todo[p], Exec(p, s),
           s.do = "drop"
    PROVE  Progress(p, s)
  <1>. DEFINE e == Visited(p)
              x == db[at[p]]
              y == db'[at[p]]
  <1>1. e \in Entities /\ e.table = at[p] /\ at[p] \in Tables /\ s.do \in Kinds
    BY ExecIs
  <1>2. s.arg \in existing[p][at[p]].idx /\ ~Wanted(e, s.arg)
    BY ExecIs, StatementKinds DEF Wanted
  <1>3. Known(at[p], s.arg)
    BY <1>1, <1>2, ExecIs DEF KnownInv
  <1>4. y = There(x.cols, x.idx \ {s.arg}, x.refs)
    <2>1. y = There(x.cols, {i \in x.idx : i.name # s.arg.name}, x.refs)
      BY <1>1, ExecIs, ExecResult
    <2>2. \A i \in x.idx : i.name = s.arg.name <=> i = s.arg
      BY <1>1, <1>3, NamesTell DEF KnownInv
    <2>. QED
      BY <2>1, <2>2
  <1>. QED
    BY <1>1, <1>2, <1>4 DEF Progress, Evolves, Gains, Holds, There, KnownInv

LEMMA ExecProgress ==
    ASSUME Steady, TypeInv, KnownInv, NEW p \in Processes, NEW s \in todo[p], Exec(p, s)
    PROVE  Progress(p, s)
  <1>1. s.do \in Kinds
    BY ExecIs
  <1>. QED
    BY <1>1, CreateProgress, ColumnProgress, RenameProgress, RefProgress, IndexProgress,
       DropProgress DEF Kinds

(***************************************************************************)
(* The visits: every registered table is in the order, and the statements  *)
(* for those that were visited are executed, but for those still to do.    *)
(***************************************************************************)
LEMMA EvolvesOn ==
    ASSUME NEW e, NEW x, NEW y, NEW z, Evolves(e, x, y), Evolves(e, y, z)
    PROVE  Evolves(e, x, z)
  BY DEF Evolves

LEMMA GainsOn ==
    ASSUME NEW e, NEW x, NEW y, NEW z, Gains(e, x, y), Gains(e, y, z)
    PROVE  Gains(e, x, z)
  BY DEF Gains

LEMMA EvolvesSame ==
    ASSUME NEW e, NEW x
    PROVE  Evolves(e, x, x) /\ Gains(e, x, x)
  BY DEF Evolves, Gains

LEMMA EvolvesFromNone ==
    ASSUME NEW e, NEW x
    PROVE  Evolves(e, Absent, x)
  BY DEF Evolves, Absent

LEMMA UniqueStays ==
    ASSUME NEW e, NEW x, NEW y, Evolves(e, x, y), NEW c \in e.uniq, HasUniqueOn(x, {c})
    PROVE  HasUniqueOn(y, {c})
  BY DEF Evolves, HasUniqueOn, Wanted

LEMMA HoldsOn ==
    ASSUME NEW e \in Entities, NEW z, NEW s \in Statements(e, z), NEW x, NEW y,
           Evolves(e, x, y), Gains(e, x, y), Holds(e, s, x)
    PROVE  Holds(e, s, y)
  <1>1. s.do \in Kinds
    BY StatementKinds
  <1>2. CASE s.do = "create"
    BY <1>2, UniqueStays DEF Holds, Evolves
  <1>3. CASE s.do \in {"column", "rename"}
    <2>1. s.arg \in e.cols
      BY <1>3, StatementKinds
    <2>. QED
      BY <1>3, <2>1, UniqueStays DEF Holds, Evolves
  <1>4. CASE s.do = "ref"
    BY <1>4 DEF Holds, Evolves
  <1>5. CASE s.do \in {"index", "unique"}
    <2>1. Wanted(e, s.arg)
      BY <1>5, IndexStatements
    <2>. QED
      BY <1>5, <2>1 DEF Holds, Evolves
  <1>6. CASE s.do = "drop"
    <2>1. ~Wanted(e, s.arg)
      BY <1>6, StatementKinds DEF Wanted
    <2>. QED
      BY <1>6, <2>1 DEF Holds, Gains
  <1>. QED
    BY <1>1, <1>2, <1>3, <1>4, <1>5, <1>6 DEF Kinds

\* What became of the tables of a running process since it read the schema.
Since(p) ==
    pc[p] # "idle" =>
       \A i \in DOMAIN registry[p] :
          LET e == registry[p][i]
          IN  /\ Evolves(e, existing[p][e.table], db[e.table])
              /\ job[p] = "sync" => Gains(e, existing[p][e.table], db[e.table])

\* All has been done for the entity, but for what is to do.
Done(p, e) ==
    \A s \in Statements(e, existing[p][e.table]) :
       \/ s \in todo[p] /\ at[p] = e.table
       \/ Holds(e, s, db[e.table])

Attended(p) ==
    pc[p] = "tables" =>
       \A i \in DOMAIN registry[p] :
          registry[p][i].table \in Range(order[p]) \/ Done(p, registry[p][i])

ProgressInv ==
    /\ OrderInv /\ KnownInv
    /\ \A p \in Processes : Since(p) /\ Attended(p)

\* Another table of the same program, or the table itself.
LEMMA ExecEvolves ==
    ASSUME Steady, ProgressInv, NEW p \in Processes, NEW s \in todo[p], Exec(p, s),
           NEW q \in Processes, pc[q] # "idle", NEW i \in DOMAIN registry[q]
    PROVE  LET e == registry[q][i]
           IN  /\ e \in Entities /\ e.table \in Tables
               /\ e.table = at[p] => e = Visited(p)
               /\ Evolves(e, db[e.table], db'[e.table]) /\ Gains(e, db[e.table], db'[e.table])
               /\ \A t \in Tables : \A j \in db'[t].idx : Known(t, j)
  <1>. DEFINE e == registry[q][i]
  <1>1. /\ registry[q] = registry[p] /\ registry[q] \in Registries
        /\ pc[p] = "tables" /\ at[p] \in Tables
    BY ExecIs DEF ProgressInv, OrderInv, TypeInv, Together
  <1>2. /\ e \in Entities /\ e.table \in Tables
        /\ e.table = at[p] => e = Visited(p)
    BY <1>1, EntityOf, SchemaAssumption DEF Visited
  <1>3. Progress(p, s) /\ \A t \in Tables : t # at[p] => db'[t] = db[t]
    BY ExecIs, ExecProgress DEF ProgressInv, OrderInv
  <1>4. Evolves(e, db[e.table], db'[e.table]) /\ Gains(e, db[e.table], db'[e.table])
    BY <1>2, <1>3, EvolvesSame DEF Progress
  <1>5. \A t \in Tables : \A j \in db'[t].idx : Known(t, j)
    BY <1>1, <1>3 DEF Progress, ProgressInv, KnownInv
  <1>. QED
    BY <1>2, <1>4, <1>5

LEMMA ExecProgressInv ==
    ASSUME Steady, ProgressInv, NEW p \in Processes, NEW s \in todo[p], Exec(p, s)
    PROVE  ProgressInv'
  <1>1. TypeInv' /\ UNCHANGED <<backend, pc, job, registry, existing, top, order, at>>
    BY ExecTypeInv, ExecIs DEF ProgressInv, OrderInv
  <1>2. Progress(p, s) /\ pc[p] = "tables" /\ at[p] \in Tables
        /\ \A t \in Tables : t # at[p] => db'[t] = db[t]
    BY ExecIs, ExecProgress DEF ProgressInv, OrderInv
  <1>3. KnownInv'
    <2>1. \A t \in Tables : \A j \in db'[t].idx : Known(t, j)
      BY <1>2 DEF Progress, ProgressInv, KnownInv
    <2>. QED
      BY <1>1, <2>1 DEF ProgressInv, KnownInv, Known
  <1>4. ASSUME NEW q \in Processes
        PROVE  Since(q)'
    <2>1. ASSUME pc[q] # "idle", NEW i \in DOMAIN registry[q]
          PROVE  LET e == registry[q][i]
                 IN  /\ Evolves(e, existing[q][e.table], db'[e.table])
                     /\ job[q] = "sync" => Gains(e, existing[q][e.table], db'[e.table])
      BY <2>1, ExecEvolves, EvolvesOn, GainsOn DEF ProgressInv, Since
    <2>. QED
      BY <1>1, <2>1 DEF Since
  <1>5. OrderInv'
    BY NextOrder, NextIs DEF ProgressInv, OrderInv
  <1>6. ASSUME NEW q \in Processes
        PROVE  Attended(q)'
    <2>1. ASSUME pc[q] = "tables", NEW i \in DOMAIN registry[q], Done(q, registry[q][i])
          PROVE  Done(q, registry[q][i])'
      <3>. DEFINE e == registry[q][i]
      <3>1. /\ e \in Entities
            /\ e.table = at[p] => e = Visited(p)
            /\ Evolves(e, db[e.table], db'[e.table]) /\ Gains(e, db[e.table], db'[e.table])
        BY <2>1, ExecEvolves
      <3>2. ASSUME NEW r \in Statements(e, existing[q][e.table])
            PROVE  (r \in todo'[q] /\ at[q] = e.table) \/ Holds(e, r, db'[e.table])
        <4>1. CASE Holds(e, r, db[e.table])
          BY <3>1, <4>1, HoldsOn
        <4>2. CASE r \in todo[q] /\ at[q] = e.table /\ q # p
          BY <4>2, OthersUntouched DEF Untouched, ProgressInv, OrderInv
        <4>3. CASE r \in todo[q] /\ at[q] = e.table /\ q = p
          <5>1. todo'[p] = todo[p] \ {s}
            BY ExecIs DEF ProgressInv, OrderInv
          <5>. QED
            BY <1>2, <3>1, <4>3, <5>1 DEF Progress
        <4>. QED
          BY <2>1, <4>1, <4>2, <4>3 DEF Done
      <3>. QED
        BY <1>1, <3>2 DEF Done, Statements, NewRefs, RefsChecked
    <2>. QED
      BY <1>1, <2>1 DEF ProgressInv, Attended
  <1>. QED
    BY <1>1, <1>3, <1>4, <1>5, <1>6 DEF ProgressInv, OrderInv

Step(p) == Since(p) /\ Attended(p)

\* Another process's step that leaves the schema alone changes nothing here.
LEMMA UntouchedStep ==
    ASSUME ProgressInv, NEW p \in Processes, NEW q \in Processes, p # q, Quiet(p)
    PROVE  Step(q)'
  <1>1. Untouched(q) /\ UNCHANGED <<backend, db>>
    BY OthersUntouched, QuietSteps DEF ProgressInv, OrderInv
  <1>2. Step(q)
    BY DEF ProgressInv, Step
  <1>. QED
    BY <1>1, <1>2 DEF Step, Since, Attended, Untouched, Done, Statements, NewRefs, RefsChecked

LEMMA StartStep ==
    ASSUME ProgressInv, NEW p \in Processes, NEW j \in Jobs, NEW R \in Registries, Start(p, j, R)
    PROVE  Step(p)'
  <1>1. /\ pc'[p] = "sort" /\ job'[p] = j /\ registry'[p] = R /\ db' = db /\ order'[p] = <<>>
        /\ top'[p] = Registered(R) \cup Referenced(R)
        /\ existing'[p] = IF j = "sync" THEN db ELSE [t \in Tables |-> Absent]
    BY DEF Start, Goto, ProgressInv, OrderInv, TypeInv, TypeOK, Shaped
  <1>2. Since(p)'
    <2>1. ASSUME NEW i \in DOMAIN R
          PROVE  LET e == R[i]
                 IN  /\ Evolves(e, existing'[p][e.table], db[e.table])
                     /\ j = "sync" => Gains(e, existing'[p][e.table], db[e.table])
      <3>1. R[i].table \in Tables
        BY EntityOf, SchemaAssumption
      <3>. QED
        BY <1>1, <3>1, EvolvesSame, EvolvesFromNone
    <2>. QED
      BY <1>1, <2>1 DEF Since
  <1>. QED
    BY <1>1, <1>2 DEF Step, Attended

LEMMA SortingStep ==
    ASSUME ProgressInv, NEW p \in Processes, Complies(registry[p]),
           \/ \E t \in Tables : Pop(p, t)
           \/ EndSort(p)
           \/ \E i \in DOMAIN registry[p] : PushLeftover(p, i)
    PROVE  Step(p)'
  <1>1. /\ pc[p] \in {"sort", "rest"}
        /\ UNCHANGED <<job, registry, existing, db>>
    BY DEF Pop, EndSort, PushLeftover
  <1>2. pc'[p] = "tables" => Registered(registry[p]) \subseteq Range(order'[p])
    <2>1. CASE \E t \in Tables : Pop(p, t)
      BY <1>1, <2>1 DEF Pop, ProgressInv, OrderInv, TypeInv, TypeOK
    <2>. QED
      BY <2>1, EndSortOrder, PushOrder DEF ProgressInv, OrderInv
  <1>3. Since(p)'
    BY <1>1 DEF ProgressInv, OrderInv, TypeInv, TypeOK, Since
  <1>4. Attended(p)'
    BY <1>1, <1>2 DEF Attended, Registered
  <1>. QED
    BY <1>3, <1>4 DEF Step

LEMMA NextTableStep ==
    ASSUME ProgressInv, NEW p \in Processes, NextTable(p)
    PROVE  Step(p)'
  <1>. DEFINE R == registry[p]
              t == Head(order[p])
  <1>1. OrderInv
    BY DEF ProgressInv, OrderInv
  <1>2. ASSUME NEW i \in DOMAIN R
        PROVE  R[i].table \in Range(order'[p]) \/ Done(p, R[i])'
    <2>1. CASE R[i].table = t
      <3>1. todo'[p] = Statements(R[i], existing[p][t])
        BY <1>1, <2>1, NextTableIs, EntityOf
      <3>. QED
        BY <1>1, <2>1, <3>1, NextTableIs DEF Done, Statements, NewRefs, RefsChecked
    <2>2. CASE R[i].table # t /\ R[i].table \in Range(order[p])
      BY <1>1, <2>2, NextTableIs
    <2>3. CASE Done(p, R[i])
      BY <1>1, <2>3, NextTableIs DEF Done, Statements, NewRefs, RefsChecked
    <2>. QED
      BY <1>1, <2>1, <2>2, <2>3, NextTableIs DEF ProgressInv, Attended
  <1>. QED
    BY <1>1, <1>2, NextTableIs DEF Step, ProgressInv, Since, Attended

LEMMA QuietStep ==
    ASSUME \A R \in Registries : Complies(R), ProgressInv, NEW p \in Processes, Quiet(p)
    PROVE  Step(p)'
  <1>1. ASSUME pc'[p] = "idle"
        PROVE  Step(p)'
    BY <1>1 DEF Step, Since, Attended
  <1>2. Finish(p) \/ Stop(p) => pc'[p] = "idle"
    BY DEF Finish, Stop, Goto, ProgressInv, OrderInv, TypeInv, TypeOK
  <1>3. pc[p] # "idle" => Complies(registry[p])
    BY DEF ProgressInv, OrderInv, TypeInv, Running
  <1>. QED
    BY <1>1, <1>2, <1>3, StartStep, SortingStep, NextTableStep
       DEF Quiet, Pop, EndSort, PushLeftover

LEMMA QuietKnown ==
    ASSUME ProgressInv, NEW p \in Processes, Quiet(p)
    PROVE  KnownInv'
  <1>1. db' = db
    BY QuietSteps
  <1>2. ASSUME NEW q \in Processes, pc'[q] # "idle", NEW t \in Tables, NEW i \in existing'[q][t].idx
        PROVE  Known(t, i)
    <2>1. CASE q # p \/ (pc[q] # "idle" /\ existing'[q] = existing[q])
      BY <1>2, <2>1, OthersUntouched DEF Untouched, ProgressInv, OrderInv, KnownInv
    <2>2. CASE \E j \in Jobs, R \in Registries : Start(p, j, R) /\ q = p
      <3>1. existing'[p] = db \/ existing'[p] = [u \in Tables |-> Absent]
        BY <2>2 DEF Start, ProgressInv, OrderInv, TypeInv, Shaped
      <3>. QED
        BY <1>2, <2>2, <3>1 DEF ProgressInv, KnownInv, Absent
    <2>3. CASE /\ ~\E j \in Jobs, R \in Registries : Start(p, j, R)
               /\ q = p
      <3>1. existing' = existing /\ pc[p] # "idle"
        BY <1>2, <2>3 DEF Quiet, Pop, PushLeftover, EndSort, NextTable, Finish, Stop
      <3>. QED
        BY <2>1, <2>3, <3>1
    <2>. QED
      BY <2>1, <2>2, <2>3
  <1>. QED
    BY <1>1, <1>2 DEF ProgressInv, KnownInv, Known

LEMMA InitProgress == Init => ProgressInv
  <1>1. Init => KnownInv
    BY DEF Init, KnownInv, Absent
  <1>2. Init => \A p \in Processes : Since(p) /\ Attended(p)
    BY DEF Init, Since, Attended
  <1>. QED
    BY <1>1, <1>2, InitOrder DEF ProgressInv

LEMMA NextProgress ==
    ASSUME Steady, \A R \in Registries : Complies(R)
    PROVE  ProgressInv /\ [Next]_vars => ProgressInv'
  <1>1. ASSUME ProgressInv, NEW p \in Processes, Quiet(p)
        PROVE  ProgressInv'
    <2>1. OrderInv' /\ KnownInv'
      BY <1>1, NextOrder, NextIs, QuietKnown DEF ProgressInv
    <2>2. \A q \in Processes : Step(q)'
      BY <1>1, QuietStep, UntouchedStep
    <2>. QED
      BY <2>1, <2>2 DEF ProgressInv, Step
  <1>2. ASSUME ProgressInv, UNCHANGED vars
        PROVE  ProgressInv'
    <2>1. OrderInv'
      BY <1>2, NextOrder DEF ProgressInv
    <2>2. KnownInv'
      BY <1>2 DEF ProgressInv, KnownInv, Known, vars
    <2>3. ASSUME NEW p \in Processes
          PROVE  Since(p)' /\ Attended(p)'
      <3>1. Since(p) /\ Attended(p)
        BY <1>2 DEF ProgressInv
      <3>. QED
        BY <1>2, <3>1 DEF vars, Since, Attended, Done, Statements, NewRefs, RefsChecked
    <2>. QED
      BY <2>1, <2>2, <2>3 DEF ProgressInv
  <1>. QED
    BY <1>1, <1>2, NextIs, ExecProgressInv

(***************************************************************************)
(* What an Ok means.                                                       *)
(***************************************************************************)
LEMMA AllHoldsIsComplete ==
    ASSUME Steady, NEW e \in Entities, NEW x, NEW y,
           \A i \in x.idx : Known(e.table, i),
           Evolves(e, x, y), \A s \in Statements(e, x) : Holds(e, s, y)
    PROVE  Complete(e, y)
  <1>1. ASSUME NEW k \in e.keys, ~HasIndexOn(x, k.on)
        PROVE  k \in y.idx
    <2>. DEFINE s == [do |-> "index", arg |-> k]
    <2>1. s \in Statements(e, x)
      BY <1>1 DEF Statements, NewKeys
    <2>. QED
      BY <2>1 DEF Holds
  <1>2. ASSUME NEW k \in e.keys
        PROVE  IF k.unique THEN HasUniqueOn(y, k.on) ELSE HasIndexOn(y, k.on)
    <2>1. CASE HasIndexOn(x, k.on)
      <3>1. PICK i \in x.idx : i.on = k.on
        BY <2>1 DEF HasIndexOn
      <3>2. i \in y.idx
        BY <3>1 DEF Evolves, Wanted
      <3>3. k.unique => i.unique
        BY <3>1, KnownFits DEF Declared
      <3>. QED
        BY <3>1, <3>2, <3>3 DEF HasIndexOn, HasUniqueOn
    <2>2. CASE ~HasIndexOn(x, k.on)
      BY <1>1, <2>2 DEF HasIndexOn, HasUniqueOn
    <2>. QED
      BY <2>1, <2>2
  <1>3. CASE ~x.there
    <2>. DEFINE s == [do |-> "create", arg |-> e.table]
    <2>1. s \in Statements(e, x)
      BY <1>3 DEF Statements
    <2>. QED
      BY <1>2, <2>1 DEF Holds, Complete
  <1>4. CASE x.there
    <2>1. ASSUME NEW c \in e.cols, c \notin x.cols
          PROVE  c \in y.cols /\ (c \in e.uniq => HasUniqueOn(y, {c}))
      <3>1. CASE c \in DOMAIN e.renamed
        <4>. DEFINE s == [do |-> "rename", arg |-> c]
        <4>1. s \in Statements(e, x)
          BY <1>4, <2>1, <3>1 DEF Statements, NewColumns
        <4>. QED
          BY <4>1 DEF Holds
      <3>2. CASE c \notin DOMAIN e.renamed
        <4>. DEFINE s == [do |-> "column", arg |-> c]
        <4>1. s \in Statements(e, x)
          BY <1>4, <2>1, <3>2 DEF Statements, NewColumns
        <4>. QED
          BY <4>1 DEF Holds
      <3>. QED
        BY <3>1, <3>2
    <2>2. ASSUME NEW t \in e.refs, t \notin x.refs, RefsChecked
          PROVE  t \in y.refs
      <3>. DEFINE s == [do |-> "ref", arg |-> t]
      <3>1. s \in Statements(e, x)
        BY <1>4, <2>2 DEF Statements, NewRefs
      <3>. QED
        BY <3>1 DEF Holds
    <2>3. ASSUME NEW c \in e.uniq
          PROVE  HasUniqueOn(y, {c})
      <3>1. CASE c \notin x.cols
        BY <2>1, <3>1, SchemaAssumption
      <3>2. CASE HasUniqueOn(x, {c})
        BY <3>2, UniqueStays
      <3>3. CASE c \in x.cols /\ ~HasUniqueOn(x, {c})
        <4>. DEFINE s == [do |-> "unique", arg |-> OwnIndex(c)]
        <4>1. s \in Statements(e, x)
          BY <1>4, <3>3 DEF Statements, NewUniques
        <4>2. OwnIndex(c) \in y.idx
          BY <4>1 DEF Holds
        <4>. QED
          BY <4>2 DEF HasUniqueOn, OwnIndex, Index
      <3>. QED
        BY <3>1, <3>2, <3>3
    <2>4. y.there /\ e.cols \subseteq y.cols /\ (RefsChecked => e.refs \subseteq y.refs)
      BY <1>4, <2>1, <2>2 DEF Evolves
    <2>. QED
      BY <1>2, <2>3, <2>4 DEF Complete
  <1>. QED
    BY <1>3, <1>4

LEMMA FinishHolds ==
    ASSUME ProgressInv, NEW p \in Processes, Finish(p), NEW i \in DOMAIN registry[p]
    PROVE  LET e == registry[p][i]
           IN  \A s \in Statements(e, existing[p][e.table]) : Holds(e, s, db[e.table])
  <1>1. pc[p] = "tables" /\ order[p] = <<>> /\ todo[p] = {}
    BY DEF Finish
  <1>2. Done(p, registry[p][i])
    BY <1>1 DEF ProgressInv, Attended, Range
  <1>. QED
    BY <1>1, <1>2 DEF Done

LEMMA FinishComplete ==
    ASSUME Steady, ProgressInv, NEW p \in Processes, Finish(p), NEW i \in DOMAIN registry[p]
    PROVE  Complete(registry[p][i], db[registry[p][i].table])
  <1>. DEFINE e == registry[p][i]
              x == existing[p][e.table]
  <1>1. /\ pc[p] = "tables" /\ registry[p] \in Registries /\ e \in Entities /\ e.table \in Tables
    BY EntityOf, SchemaAssumption DEF Finish, ProgressInv, OrderInv, TypeInv, Running
  <1>2. \A j \in x.idx : Known(e.table, j)
    BY <1>1 DEF ProgressInv, KnownInv
  <1>3. Evolves(e, x, db[e.table])
    BY <1>1 DEF ProgressInv, Since
  <1>. QED
    BY <1>1, <1>2, <1>3, FinishHolds, AllHoldsIsComplete

\* apply and sync that answer Ok have created whatever the entities declare, also
\* beside other instances and after others that stopped half way
\* (src/src/schema/builder.rs, apply and sync), for releases that keep the names
\* of their indexes and registries that the sorter does not count wrong.
THEOREM OkAlwaysComplete ==
    ASSUME Steady, \A R \in Registries : Complies(R)
    PROVE  Spec => OkIsComplete
  <1>1. ASSUME ProgressInv, NEW p \in Processes, Finish(p)
        PROVE  \A i \in DOMAIN registry[p] :
                  Complete(registry[p][i], db[registry[p][i].table])
    BY <1>1, FinishComplete
  <1>2. ProgressInv => [\A p \in Processes : Finish(p) =>
                           \A i \in DOMAIN registry[p] :
                              Complete(registry[p][i], db[registry[p][i].table])]_vars
    BY <1>1
  <1>. QED
    BY <1>2, InitProgress, NextProgress, PTL DEF Spec, OkIsComplete

(***************************************************************************)
(* A schema that was synced asks for no statement.                         *)
(***************************************************************************)
Settled(R) == \A i \in DOMAIN R : Statements(R[i], db[R[i].table]) = {}

SyncedInv == ProgressInv /\ \A R \in synced : Settled(R)

LEMMA CompleteIsSettled ==
    ASSUME NEW e, NEW x, Complete(e, x), \A j \in x.idx : j.unique => Wanted(e, j)
    PROVE  Statements(e, x) = {}
  <1>1. NewColumns(e, x) = {} /\ NewRefs(e, x) = {}
    BY DEF Complete, NewColumns, NewRefs
  <1>2. NewKeys(e, x) = {}
    BY DEF Complete, NewKeys, HasIndexOn, HasUniqueOn
  <1>3. NewUniques(e, x) = {}
    BY DEF Complete, NewUniques
  <1>4. OldUniques(e, x) = {}
    BY DEF OldUniques, Wanted
  <1>. QED
    BY <1>1, <1>2, <1>3, <1>4 DEF Statements, Complete

LEMMA FinishSettles ==
    ASSUME Steady, ProgressInv, NEW p \in Processes, Finish(p), job[p] = "sync"
    PROVE  Settled(registry[p])
  <1>1. SUFFICES ASSUME NEW i \in DOMAIN registry[p]
                 PROVE  Statements(registry[p][i], db[registry[p][i].table]) = {}
    BY DEF Settled
  <1>. DEFINE e == registry[p][i]
              x == existing[p][e.table]
              y == db[e.table]
  <1>2. Complete(e, y)
    BY FinishComplete
  <1>3. Gains(e, x, y) /\ Evolves(e, x, y)
    BY DEF Finish, ProgressInv, Since
  <1>4. ASSUME NEW j \in y.idx, j.unique, ~Wanted(e, j)
        PROVE  FALSE
    <2>. DEFINE s == [do |-> "drop", arg |-> j]
    <2>1. j \in x.idx /\ x.there
      <3>1. j \in x.idx
        BY <1>3, <1>4 DEF Gains
      <3>2. pc[p] # "idle" /\ registry[p] \in Registries
        BY DEF Finish, ProgressInv, OrderInv, TypeInv, Running
      <3>3. e.table \in Tables
        BY <3>2, EntityOf, SchemaAssumption
      <3>4. x.there \/ x = Absent
        BY <3>2, <3>3 DEF ProgressInv, OrderInv, TypeInv, Running
      <3>. QED
        BY <3>1, <3>4 DEF Absent
    <2>2. s \in Statements(e, x)
      BY <1>4, <2>1 DEF Statements, OldUniques, Wanted
    <2>3. Holds(e, s, y)
      BY <2>2, FinishHolds
    <2>. QED
      BY <1>4, <2>3 DEF Holds
  <1>. QED
    BY <1>2, <1>4, CompleteIsSettled

LEMMA NextSynced ==
    ASSUME Steady, \A R \in Registries : Complies(R)
    PROVE  SyncedInv /\ [Next]_vars => SyncedInv'
  <1>. SUFFICES ASSUME SyncedInv, [Next]_vars
                PROVE  SyncedInv'
    OBVIOUS
  <1>1. ProgressInv'
    BY NextProgress DEF SyncedInv
  <1>2. ASSUME db' = db, backend' = backend, NEW R, Settled(R)
        PROVE  Settled(R)'
    BY <1>2 DEF Settled, Statements, NewRefs, RefsChecked
  <1>3. CASE UNCHANGED vars
    BY <1>1, <1>2, <1>3 DEF SyncedInv, vars
  <1>4. ASSUME NEW p \in Processes, Quiet(p), ~Finish(p)
        PROVE  SyncedInv'
    <2>1. UNCHANGED <<backend, db>>
      BY <1>4, QuietSteps
    <2>2. synced' = synced
      BY <1>4 DEF Quiet, Start, Pop, PushLeftover, EndSort, NextTable, Stop
    <2>. QED
      BY <1>1, <1>2, <2>1, <2>2 DEF SyncedInv
  <1>5. ASSUME NEW p \in Processes, Finish(p)
        PROVE  SyncedInv'
    <2>1. UNCHANGED <<backend, db>>
      BY <1>5 DEF Finish
    <2>2. job[p] = "sync" => Settled(registry[p])
      BY <1>5, FinishSettles DEF SyncedInv
    <2>3. \A R \in synced' : R \in synced \/ (job[p] = "sync" /\ R = registry[p])
      BY <1>5 DEF Finish
    <2>. QED
      BY <1>1, <1>2, <2>1, <2>2, <2>3 DEF SyncedInv
  <1>6. ASSUME NEW p \in Processes, NEW s \in todo[p], Exec(p, s)
        PROVE  SyncedInv'
    <2>1. backend' = backend /\ synced' = IF db' = db THEN synced ELSE {}
      BY <1>6 DEF Exec
    <2>. QED
      BY <1>1, <1>2, <2>1 DEF SyncedInv
  <1>. QED
    BY <1>3, <1>4, <1>5, <1>6, NextIs

LEMMA SyncedInvGives == SyncedInv => SyncedStaysSynced
  <1>1. SUFFICES ASSUME SyncedInv, NEW p \in Processes, Executing(p), existing[p] = db,
                        registry[p] \in synced
                 PROVE  FALSE
    BY DEF SyncedStaysSynced
  <1>2. /\ at[p] \in Registered(registry[p]) /\ todo[p] # {} /\ registry[p] \in Registries
        /\ todo[p] \subseteq Statements(Visited(p), db[at[p]])
    BY <1>1 DEF SyncedInv, ProgressInv, OrderInv, TypeInv, Owed, Running, Executing
  <1>3. Settled(registry[p])
    BY <1>1 DEF SyncedInv
  <1>. QED
    BY <1>2, <1>3, EntityAt DEF Settled, Visited

\* A sync for a registry that was synced, the schema unchanged since, executes
\* nothing (src/src/schema/builder.rs, sync), under the same hypotheses.
THEOREM SyncedAlwaysStaysSynced ==
    ASSUME Steady, \A R \in Registries : Complies(R)
    PROVE  Spec => []SyncedStaysSynced
  <1>1. Init => SyncedInv
    BY InitProgress DEF Init, SyncedInv
  <1>. QED
    BY <1>1, NextSynced, SyncedInvGives, PTL DEF Spec

(***************************************************************************)
(* A sync beside which nothing runs.  What it has still to visit is as it  *)
(* was read, what it has visited is there, and no statement that waits has *)
(* been done already.                                                      *)
(***************************************************************************)
Lone(p) == p \in alone /\ pc[p] # "idle" /\ job[p] = "sync"

AloneInv == \A p \in alone : pc[p] # "idle" => \A q \in Processes \ {p} : pc[q] = "idle"

\* A column that some release renames has one of its names.
Named(e, x) == x.there => \A c \in DOMAIN e.renamed : c \in x.cols \/ e.renamed[c] \in x.cols

NameInv == \A e \in Entities : Named(e, db[e.table])

Fresh(p) ==
    \A t \in Tables :
       pc[p] \in {"sort", "rest"} \/ t \in Range(order[p]) => db[t] = existing[p][t]

Creating(p) == \E s \in todo[p] : s.do = "create"

Created(p) ==
    pc[p] = "tables" =>
       \A t \in Registered(registry[p]) :
          t \in Range(order[p]) \/ db[t].there \/ (t = at[p] /\ Creating(p))

Waits(e, x, s) ==
    /\ s.do = "create" => ~x.there
    /\ s.do \in {"column", "rename"} => s.arg \notin x.cols
    /\ s.do = "rename" => e.renamed[s.arg] \in x.cols
    /\ s.do = "ref" => s.arg \notin x.refs

Comes(p, c) == \E s \in todo[p] : s.do \in {"column", "rename"} /\ s.arg = c

Pending(p) ==
    todo[p] # {} =>
       /\ \A s \in todo[p] : Waits(Visited(p), db[at[p]], s)
       /\ Creating(p) \/ /\ db[at[p]].there
                         /\ \A c \in Visited(p).cols : c \in db[at[p]].cols \/ Comes(p, c)

LoneInv ==
    /\ OrderInv /\ AloneInv /\ NameInv
    /\ \A p \in Processes : Lone(p) => Fresh(p) /\ Created(p) /\ Pending(p)

LEMMA QuietAlone ==
    ASSUME OrderInv, AloneInv, NEW p \in Processes, Quiet(p)
    PROVE  /\ AloneInv'
           /\ \A q \in Processes \ {p} : ~Lone(q)'
           /\ Lone(p)' => Lone(p) \/ \E R \in Registries : Start(p, "sync", R)
  <1>1. ASSUME NEW j \in Jobs, NEW R \in Registries, Start(p, j, R)
        PROVE  /\ AloneInv' /\ \A q \in Processes \ {p} : ~Lone(q)'
               /\ Lone(p)' => Start(p, "sync", R)
    <2>1. /\ alone' = IF \A q \in Processes : pc[q] = "idle" THEN {p} ELSE {}
          /\ pc' = [pc EXCEPT ![p] = "sort"] /\ job'[p] = j
      BY <1>1 DEF Start, Goto, OrderInv, TypeInv, TypeOK
    <2>2. Lone(p)' => j = "sync"
      BY <2>1 DEF Lone
    <2>. QED
      BY <1>1, <2>1, <2>2 DEF AloneInv, Lone, OrderInv, TypeInv, TypeOK
  <1>2. ASSUME ~\E j \in Jobs, R \in Registries : Start(p, j, R)
        PROVE  /\ AloneInv' /\ \A q \in Processes \ {p} : ~Lone(q)'
               /\ Lone(p)' => Lone(p)
    <2>1. /\ pc[p] # "idle" /\ UNCHANGED <<alone, job>>
          /\ \A q \in Processes \ {p} : pc'[q] = pc[q]
      BY <1>2 DEF Quiet, Pop, PushLeftover, EndSort, NextTable, Finish, Stop, Goto, OrderInv,
                  TypeInv, TypeOK
    <2>. QED
      BY <2>1 DEF AloneInv, Lone, OrderInv, TypeInv, TypeOK
  <1>. QED
    BY <1>1, <1>2

LEMMA StartLone ==
    ASSUME OrderInv, NEW p \in Processes, NEW R \in Registries, Start(p, "sync", R)
    PROVE  (Fresh(p) /\ Created(p) /\ Pending(p))'
  <1>1. /\ pc'[p] = "sort" /\ db' = db /\ todo'[p] = {} /\ existing'[p] = db /\ order'[p] = <<>>
    BY DEF Start, Goto, OrderInv, TypeInv, TypeOK, Shaped
  <1>. QED
    BY <1>1 DEF Fresh, Created, Pending

LEMMA SortingLone ==
    ASSUME LoneInv, NEW p \in Processes, Lone(p), Complies(registry[p]),
           \/ \E t \in Tables : Pop(p, t)
           \/ EndSort(p)
           \/ \E i \in DOMAIN registry[p] : PushLeftover(p, i)
    PROVE  (Fresh(p) /\ Created(p) /\ Pending(p))'
  <1>1. /\ pc[p] \in {"sort", "rest"}
        /\ UNCHANGED <<job, registry, existing, db, todo>>
    BY DEF Pop, EndSort, PushLeftover
  <1>2. pc'[p] = "tables" => Registered(registry[p]) \subseteq Range(order'[p])
    <2>1. CASE \E t \in Tables : Pop(p, t)
      BY <1>1, <2>1 DEF Pop
    <2>. QED
      BY <2>1, EndSortOrder, PushOrder DEF LoneInv
  <1>3. todo[p] = {}
    BY <1>1 DEF LoneInv, OrderInv, TypeInv, Owed
  <1>. QED
    BY <1>1, <1>2, <1>3 DEF LoneInv, Fresh, Created, Pending

LEMMA VisitLone ==
    ASSUME LoneInv, NEW p \in Processes, Lone(p), NextTable(p), Head(order[p]) \in Registered(registry[p])
    PROVE  Pending(p)' /\ (Creating(p)' \/ db[at'[p]].there)
  <1>. DEFINE t == Head(order[p])
              e == Entity(registry[p], t)
              x == db[t]
  <1>1. /\ e \in Entities /\ e.table = t /\ at'[p] = t /\ registry'[p] = registry[p] /\ db' = db
        /\ x = existing[p][t] /\ todo'[p] = Statements(e, x)
    <2>1. /\ OrderInv /\ Fresh(p)
      BY DEF LoneInv
    <2>2. /\ registry[p] \in Registries /\ t \in Tables /\ t \in Range(order[p])
          /\ at'[p] = t /\ registry'[p] = registry[p] /\ db' = db
          /\ todo'[p] = Statements(e, existing[p][t])
      BY <2>1, NextTableIs
    <2>3. e \in Entities /\ e.table = t
      BY <2>2, EntityAt
    <2>4. x = existing[p][t]
      BY <2>1, <2>2 DEF Fresh
    <2>. QED
      BY <2>2, <2>3, <2>4
  <1>2. ASSUME NEW s \in todo'[p]
        PROVE  Waits(e, x, s)
    <2>1. s \in Statements(e, x)
      BY <1>1
    <2>2. s.do = "rename" => s.arg \in e.cols \ x.cols /\ s.arg \in DOMAIN e.renamed /\ x.there
      BY <2>1, StatementKinds
    <2>3. s.do = "rename" => e.renamed[s.arg] \in x.cols
      BY <1>1, <2>2 DEF LoneInv, NameInv, Named
    <2>4. /\ s.do = "create" => ~x.there
          /\ s.do \in {"column", "rename"} => s.arg \notin x.cols
          /\ s.do = "ref" => s.arg \notin x.refs
      BY <2>1, StatementKinds
    <2>. QED
      BY <2>3, <2>4 DEF Waits
  <1>3. CASE ~x.there
    <2>. DEFINE s == [do |-> "create", arg |-> e.table]
    <2>1. s \in todo'[p]
      BY <1>1, <1>3 DEF Statements
    <2>2. Creating(p)'
      BY <2>1 DEF Creating
    <2>. QED
      BY <1>1, <1>2, <2>2 DEF Pending, Visited
  <1>4. CASE x.there
    <2>1. ASSUME NEW c \in e.cols, c \notin x.cols
          PROVE  Comes(p, c)'
      <3>1. CASE c \in DOMAIN e.renamed
        <4>. DEFINE s == [do |-> "rename", arg |-> c]
        <4>1. s \in todo'[p]
          BY <1>1, <1>4, <2>1, <3>1 DEF Statements, NewColumns
        <4>. QED
          BY <4>1 DEF Comes
      <3>2. CASE c \notin DOMAIN e.renamed
        <4>. DEFINE s == [do |-> "column", arg |-> c]
        <4>1. s \in todo'[p]
          BY <1>1, <1>4, <2>1, <3>2 DEF Statements, NewColumns
        <4>. QED
          BY <4>1 DEF Comes
      <3>. QED
        BY <3>1, <3>2
    <2>. QED
      BY <1>1, <1>2, <1>4, <2>1 DEF Pending, Visited
  <1>. QED
    BY <1>3, <1>4

LEMMA NextTableLone ==
    ASSUME LoneInv, NEW p \in Processes, Lone(p), NextTable(p)
    PROVE  (Fresh(p) /\ Created(p) /\ Pending(p))'
  <1>. DEFINE t == Head(order[p])
  <1>1. OrderInv /\ Fresh(p) /\ Created(p)
    BY DEF LoneInv
  <1>2. Fresh(p)'
    BY <1>1, NextTableIs DEF Fresh
  <1>3. Created(p)'
    BY <1>1, NextTableIs, VisitLone DEF Created, Creating
  <1>4. CASE t \in Registered(registry[p])
    BY <1>2, <1>3, <1>4, VisitLone
  <1>5. CASE t \notin Registered(registry[p])
    <2>1. todo'[p] = {}
      BY <1>1, <1>5, NextTableIs
    <2>. QED
      BY <1>2, <1>3, <2>1 DEF Pending
  <1>. QED
    BY <1>4, <1>5

LEMMA QuietLone ==
    ASSUME \A R \in Registries : Complies(R), LoneInv, NEW p \in Processes, Quiet(p)
    PROVE  LoneInv'
  <1>1. OrderInv' /\ AloneInv' /\ \A q \in Processes \ {p} : ~Lone(q)'
    BY NextOrder, NextIs, QuietAlone DEF LoneInv
  <1>2. NameInv'
    BY QuietSteps DEF LoneInv, NameInv
  <1>3. ASSUME Lone(p)'
        PROVE  (Fresh(p) /\ Created(p) /\ Pending(p))'
    <2>1. CASE \E R \in Registries : Start(p, "sync", R)
      BY <2>1, StartLone DEF LoneInv
    <2>2. CASE Lone(p)
      <3>1. pc[p] # "idle" /\ registry[p] \in Registries
        BY <2>2 DEF Lone, LoneInv, OrderInv, TypeInv, Running
      <3>2. ~Finish(p) /\ ~Stop(p)
        BY <1>3 DEF Finish, Stop, Goto, Lone, LoneInv, OrderInv, TypeInv, TypeOK
      <3>3. ~\E j \in Jobs, R \in Registries : Start(p, j, R)
        BY <3>1 DEF Start
      <3>. QED
        BY <2>2, <3>1, <3>2, <3>3, SortingLone, NextTableLone DEF Quiet
    <2>. QED
      BY <1>3, <2>1, <2>2, QuietAlone DEF LoneInv
  <1>. QED
    BY <1>1, <1>2, <1>3 DEF LoneInv

LEMMA ExecColumns ==
    ASSUME OrderInv, NEW p \in Processes, NEW s \in todo[p], Exec(p, s)
    PROVE  LET e == Visited(p)
               x == db[at[p]]
               y == db'[at[p]]
           IN  /\ y.there
               /\ y.cols = CASE s.do = "create" -> e.cols
                             [] s.do = "column" -> x.cols \cup {s.arg}
                             [] s.do = "rename" -> (x.cols \ {e.renamed[s.arg]}) \cup {s.arg}
                             [] OTHER           -> x.cols
               /\ s.do # "create" =>
                     y.refs = IF s.do = "ref" THEN x.refs \cup {s.arg} ELSE x.refs
  <1>. DEFINE e == Visited(p)
              x == db[at[p]]
              y == db'[at[p]]
  <1>0. TypeInv /\ s.do \in Kinds
    BY ExecIs DEF OrderInv
  <1>2. CASE s.do = "create"
    <2>1. y = There(e.cols, Implied(x, e.uniq), e.refs)
      BY <1>0, <1>2, ExecResult
    <2>. QED
      BY <1>2, <2>1 DEF There
  <1>3. CASE s.do = "column"
    <2>1. y = There(x.cols \cup {s.arg}, x.idx \cup Implied(x, {s.arg} \cap e.uniq), x.refs)
      BY <1>0, <1>3, ExecResult
    <2>. QED
      BY <1>3, <2>1 DEF There
  <1>4. CASE s.do = "rename"
    <2>1. Renamed(x.cols, e.renamed[s.arg], s.arg) = (x.cols \ {e.renamed[s.arg]}) \cup {s.arg}
      BY <1>0, <1>4, ExecAccepted DEF Renamed
    <2>2. y = There(Renamed(x.cols, e.renamed[s.arg], s.arg),
                    {[i EXCEPT !.on = Renamed(@, e.renamed[s.arg], s.arg)] : i \in x.idx}, x.refs)
      BY <1>0, <1>4, ExecResult
    <2>3. y.there /\ y.cols = Renamed(x.cols, e.renamed[s.arg], s.arg) /\ y.refs = x.refs
      BY <2>2 DEF There
    <2>. QED
      BY <1>4, <2>1, <2>3
  <1>5. CASE s.do = "ref"
    <2>1. y = There(x.cols, x.idx, x.refs \cup {s.arg})
      BY <1>0, <1>5, ExecResult
    <2>. QED
      BY <1>5, <2>1 DEF There
  <1>6. CASE s.do \in {"index", "unique"}
    <2>1. y = There(x.cols, IF \E i \in x.idx : i.name = s.arg.name THEN x.idx
                            ELSE x.idx \cup {s.arg}, x.refs)
      BY <1>0, <1>6, ExecResult
    <2>. QED
      BY <1>6, <2>1 DEF There
  <1>7. CASE s.do = "drop"
    <2>1. y = There(x.cols, {i \in x.idx : i.name # s.arg.name}, x.refs)
      BY <1>0, <1>7, ExecResult
    <2>. QED
      BY <1>7, <2>1 DEF There
  <1>. QED
    BY <1>0, <1>2, <1>3, <1>4, <1>5, <1>6, <1>7 DEF Kinds

LEMMA CreateLone ==
    ASSUME LoneInv, NEW p \in Processes, NEW s \in todo[p], Exec(p, s), s.do = "create"
    PROVE  Pending(p)'
  <1>. DEFINE e == Visited(p)
              y == db'[at[p]]
  <1>1. /\ \A r \in todo[p] : r \in Statements(e, existing[p][at[p]])
        /\ todo'[p] = todo[p] \ {s} /\ UNCHANGED <<registry, at>>
    BY ExecIs DEF LoneInv, OrderInv, TypeInv, Owed
  <1>2. ASSUME NEW r \in todo[p], r # s
        PROVE  r.do = "index"
    <2>1. ~existing[p][at[p]].there /\ s.arg = e.table
      BY <1>1, StatementKinds
    <2>2. r.do \in {"create", "index"}
      BY <1>1, <2>1, StatementKinds
    <2>3. r.do = "create" => r.arg = s.arg
      BY <1>1, <2>1, StatementKinds
    <2>4. r = [do |-> r.do, arg |-> r.arg] /\ s = [do |-> s.do, arg |-> s.arg]
      BY <1>1, StatementKinds
    <2>. QED
      BY <1>2, <2>2, <2>3, <2>4
  <1>3. y.there /\ y.cols = e.cols
    BY ExecColumns DEF LoneInv
  <1>. QED
    BY <1>1, <1>2, <1>3 DEF Pending, Waits, Visited

LEMMA AfterCreate ==
    ASSUME LoneInv, NEW p \in Processes, NEW s \in todo[p], s \in Due(p), Executing(p), s.do # "create"
    PROVE  ~Creating(p)
  <1>1. SUFFICES ASSUME NEW r \in todo[p], r.do = "create"
                 PROVE  FALSE
    BY DEF Creating
  <1>2. /\ r \in Statements(Visited(p), existing[p][at[p]])
        /\ s \in Statements(Visited(p), existing[p][at[p]])
    BY DEF LoneInv, OrderInv, TypeInv, Owed
  <1>3. ~existing[p][at[p]].there
    BY <1>1, <1>2, StatementKinds
  <1>4. s.do = "index"
    BY <1>2, <1>3, StatementKinds
  <1>. QED
    BY <1>1, <1>4 DEF Due, Turn

LEMMA OtherLone ==
    ASSUME RenamedOnce, LoneInv, NEW p \in Processes, Lone(p), NEW s \in todo[p], Exec(p, s),
           s.do # "create"
    PROVE  Pending(p)'
  <1>. DEFINE e == Visited(p)
              x == db[at[p]]
              y == db'[at[p]]
  <1>1. /\ \A r \in todo[p] : r \in Statements(e, existing[p][at[p]])
        /\ todo'[p] = todo[p] \ {s} /\ UNCHANGED <<registry, at>> /\ e \in Entities
    BY ExecIs DEF LoneInv, OrderInv, TypeInv, Owed
  <1>2. ~Creating(p)
    BY AfterCreate DEF Exec
  <1>3. /\ x.there /\ \A c \in e.cols : c \in x.cols \/ Comes(p, c)
        /\ \A r \in todo[p] : Waits(e, x, r)
    BY <1>2 DEF LoneInv, Pending
  <1>4. ASSUME NEW r \in todo[p], r # s
        PROVE  /\ r.do = s.do => r.arg # s.arg
               /\ r.do \in {"column", "rename"} /\ s.do \in {"column", "rename"} => r.arg # s.arg
    <2>1. r = [do |-> r.do, arg |-> r.arg] /\ s = [do |-> s.do, arg |-> s.arg]
      BY <1>1, StatementKinds
    <2>2. /\ r.do = "column" => r.arg \notin DOMAIN e.renamed
          /\ s.do = "column" => s.arg \notin DOMAIN e.renamed
          /\ r.do = "rename" => r.arg \in DOMAIN e.renamed
          /\ s.do = "rename" => s.arg \in DOMAIN e.renamed
      BY <1>1, StatementKinds
    <2>. QED
      BY <1>4, <2>1, <2>2
  <1>5. s.do = "rename" => /\ e.renamed[s.arg] \notin e.cols
                           /\ \A r \in todo[p] : r.do = "rename" /\ r.arg # s.arg
                                 => e.renamed[r.arg] # e.renamed[s.arg]
    <2>1. \A r \in todo[p] : r.do = "rename" => r.arg \in DOMAIN e.renamed
      BY <1>1, StatementKinds
    <2>. QED
      BY <1>1, <2>1 DEF RenamedOnce
  <1>6. /\ y.there
        /\ y.cols = CASE s.do = "column" -> x.cols \cup {s.arg}
                      [] s.do = "rename" -> (x.cols \ {e.renamed[s.arg]}) \cup {s.arg}
                      [] OTHER           -> x.cols
        /\ y.refs = IF s.do = "ref" THEN x.refs \cup {s.arg} ELSE x.refs
    BY ExecColumns DEF LoneInv
  <1>7. ASSUME NEW r \in todo'[p]
        PROVE  Waits(e, y, r)
    <2>1. r \in todo[p] /\ r # s /\ Waits(e, x, r) /\ r.do # "create"
      BY <1>1, <1>2, <1>3 DEF Creating
    <2>2. r.do \in {"column", "rename"} => r.arg \notin y.cols
      BY <1>4, <1>6, <2>1 DEF Waits
    <2>3. r.do = "rename" => e.renamed[r.arg] \in y.cols
      BY <1>4, <1>5, <1>6, <2>1 DEF Waits
    <2>4. r.do = "ref" => r.arg \notin y.refs
      BY <1>4, <1>6, <2>1 DEF Waits
    <2>. QED
      BY <2>1, <2>2, <2>3, <2>4 DEF Waits
  <1>8. ASSUME NEW c \in e.cols
        PROVE  c \in y.cols \/ Comes(p, c)'
    <2>1. CASE c \in x.cols
      BY <1>5, <1>6, <2>1
    <2>2. CASE Comes(p, c)
      <3>1. PICK r \in todo[p] : r.do \in {"column", "rename"} /\ r.arg = c
        BY <2>2 DEF Comes
      <3>2. CASE r = s
        BY <1>6, <3>1, <3>2
      <3>3. CASE r # s
        BY <1>1, <3>1, <3>3 DEF Comes
      <3>. QED
        BY <3>2, <3>3
    <2>. QED
      BY <1>3, <2>1, <2>2
  <1>. QED
    BY <1>1, <1>6, <1>7, <1>8 DEF Pending, Visited

LEMMA ExecNamed ==
    ASSUME RenamedOnce, OrderInv, NameInv, NEW p \in Processes, NEW s \in todo[p], Exec(p, s)
    PROVE  NameInv'
  <1>1. SUFFICES ASSUME NEW f \in Entities
                 PROVE  Named(f, db'[f.table])
    BY DEF NameInv
  <1>. DEFINE e == Visited(p)
              x == db[at[p]]
              y == db'[at[p]]
  <1>2. CASE f.table # at[p]
    <2>1. f.table \in Tables
      BY SchemaAssumption
    <2>. QED
      BY <1>2, <2>1, ExecIs DEF OrderInv, NameInv
  <1>3. CASE f.table = at[p]
    <2>1. /\ e \in Entities /\ e.table = f.table /\ s \in Statements(e, existing[p][at[p]])
          /\ s.do \in Kinds
      BY <1>3, ExecIs DEF OrderInv
    <2>2. Named(f, x)
      BY <1>3 DEF NameInv
    <2>3. s.do # "create" => x.there
      <3>1. \/ s.do = "drop"
            \/ s.do # "create" => x.there
        BY <2>1, ExecAccepted DEF OrderInv, Kinds
      <3>2. s.do = "drop" => x # Absent
        BY ExecAccepted DEF OrderInv, Absent
      <3>3. x.there \/ x = Absent
        BY ExecIs DEF OrderInv, TypeInv, TypeOK
      <3>. QED
        BY <3>1, <3>2, <3>3
    <2>4. ASSUME NEW c \in DOMAIN f.renamed
          PROVE  c \in y.cols \/ f.renamed[c] \in y.cols
      <3>1. CASE s.do = "create"
        <4>1. y.cols = e.cols
          BY <3>1, ExecColumns
        <4>. QED
          BY <2>1, <4>1 DEF RenamedOnce
      <3>2. CASE s.do = "rename"
        <4>1. s.arg \in DOMAIN e.renamed
          BY <2>1, <3>2, StatementKinds
        <4>2. e.renamed[s.arg] # c /\ (e.renamed[s.arg] = f.renamed[c] => s.arg = c)
          BY <2>1, <4>1 DEF RenamedOnce
        <4>3. y.cols = (x.cols \ {e.renamed[s.arg]}) \cup {s.arg}
          BY <3>2, ExecColumns
        <4>. QED
          BY <2>2, <2>3, <3>2, <4>2, <4>3 DEF Named
      <3>3. CASE s.do \notin {"create", "rename"}
        <4>1. x.cols \subseteq y.cols
          BY <3>3, ExecColumns
        <4>. QED
          BY <2>2, <2>3, <3>3, <4>1 DEF Named
      <3>. QED
        BY <3>1, <3>2, <3>3
    <2>. QED
      BY <1>3, <2>4 DEF Named
  <1>. QED
    BY <1>2, <1>3

LEMMA ExecLone ==
    ASSUME RenamedOnce, LoneInv, NEW p \in Processes, NEW s \in todo[p], Exec(p, s)
    PROVE  LoneInv'
  <1>1. /\ OrderInv' /\ NameInv'
        /\ UNCHANGED <<pc, job, registry, existing, order, at, alone>>
    BY NextOrder, NextIs, ExecNamed, ExecIs DEF LoneInv, OrderInv
  <1>2. AloneInv'
    BY <1>1 DEF LoneInv, AloneInv
  <1>3. pc[p] = "tables" /\ at[p] \in Tables
    BY ExecIs DEF LoneInv, OrderInv
  <1>4. \A q \in Processes : Lone(q) => q = p
    BY <1>3 DEF LoneInv, AloneInv, Lone
  <1>5. ASSUME Lone(p)
        PROVE  (Fresh(p) /\ Created(p) /\ Pending(p))'
    <2>1. Fresh(p) /\ Created(p) /\ at[p] \notin Range(order[p])
      BY <1>5 DEF LoneInv, OrderInv, OrderFits, Sorting
    <2>2. /\ \A t \in Tables : t # at[p] => db'[t] = db[t]
          /\ db'[at[p]].there
      BY ExecIs, ExecColumns DEF LoneInv, OrderInv
    <2>3. Fresh(p)'
      BY <1>1, <1>3, <2>1, <2>2 DEF Fresh
    <2>4. Registered(registry[p]) \subseteq Tables
      <3>1. registry[p] \in Registries
        BY <1>3 DEF LoneInv, OrderInv, TypeInv, Running
      <3>. QED
        BY <3>1, EntityOf, SchemaAssumption DEF Registered
    <2>5. Created(p)'
      BY <1>1, <1>3, <2>1, <2>2, <2>4 DEF Created
    <2>6. Pending(p)'
      BY <1>5, CreateLone, OtherLone
    <2>. QED
      BY <2>3, <2>5, <2>6
  <1>6. \A q \in Processes : Lone(q)' => Lone(q)
    BY <1>1 DEF Lone
  <1>. QED
    BY <1>1, <1>2, <1>4, <1>5, <1>6 DEF LoneInv

LEMMA InitLone == Init => LoneInv
  <1>1. Init => AloneInv /\ NameInv
    <2>1. ASSUME Init, NEW e \in Entities
          PROVE  Named(e, db[e.table])
      BY <2>1, SchemaAssumption DEF Init, Named, Absent
    <2>. QED
      BY <2>1 DEF Init, AloneInv, NameInv
  <1>2. Init => \A p \in Processes : ~Lone(p)
    BY DEF Init, Lone
  <1>. QED
    BY <1>1, <1>2, InitOrder DEF LoneInv

LEMMA NextLone ==
    ASSUME RenamedOnce, \A R \in Registries : SelfContained(R)
    PROVE  LoneInv /\ [Next]_vars => LoneInv'
  <1>1. \A R \in Registries : Complies(R)
    BY DEF Complies
  <1>2. ASSUME LoneInv, UNCHANGED vars
        PROVE  LoneInv'
    <2>1. OrderInv' /\ AloneInv' /\ NameInv'
      BY <1>2, NextOrder DEF LoneInv, AloneInv, NameInv, vars
    <2>2. ASSUME NEW p \in Processes, Lone(p)'
          PROVE  (Fresh(p) /\ Created(p) /\ Pending(p))'
      <3>1. Fresh(p) /\ Created(p) /\ Pending(p)
        BY <1>2, <2>2 DEF LoneInv, Lone, vars
      <3>. QED
        BY <1>2, <3>1 DEF vars, Fresh, Created, Pending, Creating, Comes, Visited
    <2>. QED
      BY <2>1, <2>2 DEF LoneInv
  <1>. QED
    BY <1>1, <1>2, NextIs, QuietLone, ExecLone

\* What the entity references was visited before.
LEMMA ReferencedThere ==
    ASSUME LoneInv, NEW p \in Processes, Lone(p), Executing(p), SelfContained(registry[p]),
           NoCycle(registry[p]), NEW u \in Visited(p).refs, u # at[p]
    PROVE  db[u].there
  <1>. DEFINE R == registry[p]
  <1>1. pc[p] = "tables" /\ todo[p] # {} /\ R \in Registries /\ at[p] \in Registered(R)
    BY DEF Executing, LoneInv, OrderInv, TypeInv, Owed, Running
  <1>2. PICK i \in DOMAIN R : R[i] = Visited(p) /\ R[i].table = at[p]
    BY <1>1, EntityAt DEF Visited
  <1>3. u \in Registered(R)
    BY <1>2 DEF SelfContained, Referenced
  <1>4. u \notin Range(order[p])
    BY <1>1, <1>2 DEF LoneInv, OrderInv, OrderFits, Ordered, Precedes
  <1>. QED
    BY <1>1, <1>3, <1>4 DEF LoneInv, Created

LEMMA LoneAccepted ==
    ASSUME LoneInv, NEW p \in Processes, Lone(p), Executing(p), SelfContained(registry[p]),
           RefsChecked => NoCycle(registry[p]), NEW s \in Due(p)
    PROVE  \/ Accepted(Visited(p), s)
           \/ s.do = "drop"
           \/ s.do = "column" /\ ~CanAdd(Visited(p), s.arg)
  <1>. DEFINE e == Visited(p)
              x == db[at[p]]
  <1>1. /\ s \in todo[p] /\ s \in Statements(e, existing[p][at[p]]) /\ todo[p] # {}
        /\ e \in Entities /\ e.table = at[p] /\ s.do \in Kinds
    <2>1. /\ s \in todo[p] /\ s \in Statements(e, existing[p][at[p]])
          /\ registry[p] \in Registries /\ at[p] \in Registered(registry[p])
      BY DEF Due, Executing, LoneInv, OrderInv, TypeInv, Owed, Running
    <2>. QED
      BY <2>1, StatementKinds, EntityAt DEF Visited
  <1>2. Waits(e, x, s)
    BY <1>1 DEF LoneInv, Pending
  <1>3. s.do # "create" => x.there /\ \A c \in e.cols : c \in x.cols \/ Comes(p, c)
    BY <1>1, AfterCreate DEF LoneInv, Pending
  <1>4. CASE s.do = "create"
    <2>1. RefsThere(e.refs \ {e.table})
      BY <1>1, ReferencedThere DEF RefsThere
    <2>. QED
      BY <1>1, <1>2, <1>4, <2>1 DEF Accepted, Waits
  <1>5. CASE s.do = "column"
    BY <1>1, <1>2, <1>3, <1>5 DEF Accepted, Waits
  <1>6. CASE s.do = "rename"
    BY <1>1, <1>2, <1>3, <1>6 DEF Accepted, Waits
  <1>7. CASE s.do = "ref"
    <2>1. s.arg \in e.refs
      BY <1>1, <1>7, StatementKinds
    <2>2. RefsThere({s.arg})
      BY <1>1, <1>3, <1>7, <2>1, ReferencedThere DEF RefsThere
    <2>. QED
      BY <1>1, <1>2, <1>3, <1>7, <2>2 DEF Accepted, Waits
  <1>8. CASE s.do \in {"index", "unique"}
    <2>1. s.arg.on \subseteq e.cols
      BY <1>1, <1>8, IndexStatements, SchemaAssumption DEF Declared, OwnIndex, Index
    <2>2. ASSUME NEW r \in todo[p]
          PROVE  r.do \notin {"column", "rename"}
      BY <1>8 DEF Due, Turn
    <2>3. s.arg.on \subseteq x.cols
      BY <1>3, <1>8, <2>1, <2>2 DEF Comes
    <2>. QED
      BY <1>1, <1>3, <1>8, <2>3 DEF Accepted
  <1>. QED
    BY <1>1, <1>4, <1>5, <1>6, <1>7, <1>8 DEF Kinds

\* A sync that runs alone is refused nothing but a drop or a unique column more
\* (src/src/schema/builder.rs, sync and sorted_tables), for releases that rename
\* a column once and registries that have what they reference.
THEOREM LoneSyncAlwaysProceeds ==
    ASSUME RenamedOnce, \A R \in Registries : SelfContained(R)
    PROVE  Spec => []LoneSyncProceeds
  <1>1. LoneInv => LoneSyncProceeds
    <2>1. ASSUME LoneInv, NEW p \in alone, Executing(p), job[p] = "sync",
                 RefsChecked => NoCycle(registry[p]), NEW s \in Due(p)
          PROVE  \/ Accepted(Visited(p), s)
                 \/ s.do = "drop"
                 \/ s.do = "column" /\ ~CanAdd(Visited(p), s.arg)
      <3>1. p \in Processes /\ Lone(p) /\ registry[p] \in Registries
        BY <2>1 DEF LoneInv, OrderInv, TypeInv, TypeOK, Running, Lone, Executing
      <3>. QED
        BY <2>1, <3>1, LoneAccepted
    <2>. QED
      BY <2>1 DEF LoneSyncProceeds
  <1>. QED
    BY <1>1, InitLone, NextLone, PTL DEF Spec
=============================================================================
