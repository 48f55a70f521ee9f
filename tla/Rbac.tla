-------------------------------- MODULE Rbac --------------------------------
(***************************************************************************)
(* Role based access control at run time: administrators change the seven  *)
(* tables through RbacContext (src/src/rbac/context.rs), loaders read them *)
(* (engine/loader.rs) and put an engine into the mount that all clones of  *)
(* a DatabaseConnection share (RbacEngineMount), and statements of         *)
(* restricted connections are decided on it (user_can_run).                *)
(*                                                                         *)
(* Each RbacContext operation is one transaction over its own &mut self,   *)
(* so one action, with the outcomes committed and refused.  A loader's     *)
(* seven SELECTs run at READ COMMITTED: each reads what is committed then  *)
(* (SQLite, which has no such level, would give all seven one snapshot).   *)
(* The mount's RwLock: deciding holds it shared, replace exclusively.      *)
(* Names in the context are the program's; ids are the server's and never  *)
(* given out twice (SQLite gives a rolled back id out again).              *)
(***************************************************************************)
EXTENDS RbacEngine

CONSTANTS Admins,     \* programs with an RbacContext
          Loaders,    \* tasks that call load_rbac
          Sessions,   \* tasks that run statements on restricted connections
          Users,
          Seed,       \* what the tables hold at first
          Ops,        \* operations the admins may call
          Audits,     \* what statements ask for: sequences of requests
          MaxOps      \* bound: operations of all admins that change something

Named == {"resources", "permissions", "roles"}
\* The order in which load_from reads the tables.
ReadOrder == <<"resources", "permissions", "roles", "user_roles",
               "role_permissions", "user_overrides", "role_hierarchy">>
Tables == {ReadOrder[i] : i \in DOMAIN ReadOrder}

\* A database that has been used before: ids are given out one after the other,
\* and a user has one override for a permission and a resource.
SeedOK ==
    /\ DOMAIN Seed = Tables /\ Closed(Seed)
    /\ \A t \in Named :
         /\ IsFiniteSet(Seed[t])
         /\ \A r \in Seed[t] : r.id \in 1 .. Cardinality(Seed[t])
         /\ \A r, s \in Seed[t] : r.id = s.id => r = s
    /\ \A o \in Seed.user_overrides :
         /\ o = [user |-> o.user, perm |-> o.perm, res |-> o.res, grant |-> o.grant]
         /\ o.grant \in BOOLEAN
    /\ \A o, q \in Seed.user_overrides :
         o.user = q.user /\ o.perm = q.perm /\ o.res = q.res => o = q

ASSUME RbacAssumption ==
    /\ SeedOK
    /\ \A op \in Ops : op.op = "add" => op.table \in Named /\ Len(op.names) \in Nat
    /\ \A op \in Ops : op.op = "override" => op.grant \in BOOLEAN
    /\ \A audit \in Audits : Len(audit) \in Nat /\ DOMAIN audit = 1 .. Len(audit)
    /\ MaxOps \in Nat

VARIABLES db,       \* the committed tables
          next,     \* the next id of each table that has one
          ctx,      \* each admin's RbacContext: names and the ids it has for them
          asked,    \* history: <<role, action, table>> names, for each grant by its ids
          load,     \* where each loader is
          engine,   \* the mount: a snapshot, and (history) when it was read
          run,      \* the statement each session has under decision
          ops

vars == <<db, next, ctx, asked, load, engine, run, ops>>

Empty == [t \in Tables |-> {}]

IdsOf(t) == {r.id : r \in db[t]}
NoRun  == [at |-> "idle"]
NoLoad == [at |-> 0, snap |-> Empty, from |-> 0, until |-> 0, torn |-> FALSE, overtaken |-> FALSE]
NoEngine == [set |-> FALSE, snap |-> Empty, from |-> 0, until |-> 0, torn |-> FALSE]

\* RbacContext::load of a table: its names, each with an id.
NameMap(rows) == [n \in {r.name : r \in rows} |-> Latest({r \in rows : r.name = n}).id]

TypeOK ==
    /\ DOMAIN db = Tables
    /\ next \in [Named -> Nat \ {0}]
    /\ \A t \in Named : \A r \in db[t] : r.id \in 1 .. next[t] - 1
    /\ \A a \in Admins, t \in Named : \A n \in DOMAIN ctx[a][t] : ctx[a][t][n] \in 1 .. next[t] - 1
    /\ \A l \in Loaders : load[l].at \in 0 .. Len(ReadOrder) + 1
    /\ engine.set \in BOOLEAN
    /\ \A s \in Sessions : run[s].at \in {"idle", "walk", "decided"}
    /\ ops \in 0 .. MaxOps

Init ==
    /\ db = Seed
    /\ next = [t \in Named |-> 1 + Cardinality(Seed[t])]
    /\ ctx = [a \in Admins |-> [t \in Named |-> NameMap(Seed[t])]]
    /\ asked = {}
    /\ load = [l \in Loaders |-> NoLoad]
    /\ engine = NoEngine
    /\ run = [s \in Sessions |-> NoRun]
    /\ ops = 0

(***************************************************************************)
(* RbacContext.  A commit is seen by the loads that are reading.           *)
(***************************************************************************)
Committed(tables) ==
    /\ db' = tables
    /\ load' = [l \in Loaders |-> [load[l] EXCEPT !.torn =
                   @ \/ (load[l].at \in 2 .. Len(ReadOrder) /\ tables # db)]]

Counted == ops < MaxOps /\ ops' = ops + 1 /\ UNCHANGED <<engine, run>>

\* RbacContext::load, when a program starts again: three SELECTs of tables
\* that keep their names, taken as one.
LoadContext(a) ==
    /\ Counted
    /\ ctx' = [ctx EXCEPT ![a] = [t \in Named |-> NameMap(db[t])]]
    /\ UNCHANGED <<db, next, asked, load>>

\* add_tables, add_crud_permissions, add_roles: names inserted one by one, an
\* id remembered for each.  A name that is there already is a conflict, which
\* last_insert_id()? makes an error: the transaction goes, the ids stay in the
\* context.  A resource conflicts with none: its schema is NULL.
NewRow(t, id, n) ==
    IF t = "resources" THEN [id |-> id, schema |-> "none", name |-> n]
                       ELSE [id |-> id, name |-> n]

\* Slips: an id is remembered for the name after the one it was given to; the
\* id the next insert will get is remembered.
LearntLate(t, names, k) ==
    [n \in {names[i] : i \in 1 .. k} |-> next[t] + ((CHOOSE i \in 1 .. k : names[i] = n) % k)]

LearntAhead(t, names, k) ==
    [n \in {names[i] : i \in 1 .. k} |-> next[t] + (CHOOSE i \in 1 .. k : names[i] = n)]

Learnt(t, names, k) ==
    [n \in {names[i] : i \in 1 .. k} |-> next[t] - 1 + (CHOOSE i \in 1 .. k : names[i] = n)]

Remember(known, learnt) ==
    [n \in DOMAIN known \cup DOMAIN learnt |-> IF n \in DOMAIN learnt THEN learnt[n] ELSE known[n]]

AddNamed(a, t, names) ==
    LET taken(n) == t # "resources" /\ \E r \in db[t] : r.name = n IN
    /\ Counted
    /\ UNCHANGED asked
    /\ \E k \in 0 .. Len(names) :
          /\ \A i \in 1 .. k : ~taken(names[i])
          /\ ctx' = [ctx EXCEPT ![a][t] = Remember(@, Learnt(t, names, k))]
          /\ next' = [next EXCEPT ![t] = @ + k]
          /\ \/ /\ k = Len(names)
                /\ Committed([db EXCEPT ![t] = @ \cup
                       {NewRow(t, next[t] + i - 1, names[i]) : i \in 1 .. k}])
             \/ k > 0 /\ UNCHANGED <<db, load>>

\* Slip: the foreign keys of what is inserted are not looked at.
AcceptsUnchecked(tables) == TRUE
Accepts(tables) == Closed(tables)

\* Every other operation looks its names up in the context, and fails when one
\* is not there; the server refuses an id that is not in its table.
Knows(a, t, names) == names \subseteq DOMAIN ctx[a][t]

Write(a, known, tables, grants) ==
    \/ /\ known /\ Accepts(tables)
       /\ Counted
       /\ Committed(tables)
       /\ asked' = asked \cup grants
       /\ UNCHANGED <<ctx, next>>
    \/ UNCHANGED vars

\* update_role_permissions: the cartesian product of actions and tables.
RolePermissions(a, role, actions, tables) ==
    {[role |-> ctx[a].roles[role], perm |-> ctx[a].permissions[x], res |-> ctx[a].resources[y]] :
        x \in actions, y \in tables}

GrantRole(a, role, actions, tables) ==
    LET known == /\ Knows(a, "roles", {role})
                 /\ Knows(a, "permissions", actions) /\ Knows(a, "resources", tables) IN
    Write(a, known,
          [db EXCEPT !.role_permissions = @ \cup RolePermissions(a, role, actions, tables)],
          {[ids |-> [role |-> ctx[a].roles[role], perm |-> ctx[a].permissions[x],
                     res |-> ctx[a].resources[y]],
            role |-> role, action |-> x, table |-> y] : x \in actions, y \in tables})

RevokeRole(a, role, actions, tables) ==
    LET known == /\ Knows(a, "roles", {role})
                 /\ Knows(a, "permissions", actions) /\ Knows(a, "resources", tables) IN
    Write(a, known,
          [db EXCEPT !.role_permissions = @ \ RolePermissions(a, role, actions, tables)], {})

\* An override, or a user's role, that is there already is replaced.
Override(a, u, action, table, grant) ==
    Write(a, Knows(a, "permissions", {action}) /\ Knows(a, "resources", {table}),
          LET row == [user |-> u, perm |-> ctx[a].permissions[action],
                      res |-> ctx[a].resources[table], grant |-> grant] IN
          [db EXCEPT !.user_overrides =
              {o \in @ : [o EXCEPT !.grant = grant] # row} \cup {row}], {})

AddHierarchy(a, super, role) ==
    Write(a, Knows(a, "roles", {super, role}),
          [db EXCEPT !.role_hierarchy = @ \cup
              {[super |-> ctx[a].roles[super], role |-> ctx[a].roles[role]]}], {})

AssignRole(a, u, role) ==
    Write(a, Knows(a, "roles", {role}),
          [db EXCEPT !.user_roles = {x \in @ : x.user # u} \cup
              {[user |-> u, role |-> ctx[a].roles[role]]}], {})

Operate(a, op) ==
    \/ op.op = "load" /\ LoadContext(a)
    \/ op.op = "add" /\ AddNamed(a, op.table, op.names)
    \/ op.op = "grant" /\ GrantRole(a, op.role, op.actions, op.tables)
    \/ op.op = "revoke" /\ RevokeRole(a, op.role, op.actions, op.tables)
    \/ op.op = "override" /\ Override(a, op.user, op.action, op.table, op.grant)
    \/ op.op = "hierarchy" /\ AddHierarchy(a, op.super, op.role)
    \/ op.op = "assign" /\ AssignRole(a, op.user, op.role)

(***************************************************************************)
(* load_rbac: read the seven tables, then replace the engine.              *)
(***************************************************************************)
LoadBegin(l) ==
    /\ load[l].at = 0
    /\ load' = [load EXCEPT ![l] = [NoLoad EXCEPT !.at = 1, !.from = ops]]
    /\ UNCHANGED <<db, next, ctx, asked, engine, run, ops>>

LoadRead(l) ==
    /\ load[l].at \in DOMAIN ReadOrder
    /\ load' = [load EXCEPT ![l].snap[ReadOrder[load[l].at]] = db[ReadOrder[load[l].at]],
                            ![l].at = @ + 1, ![l].until = ops]
    /\ UNCHANGED <<db, next, ctx, asked, engine, run, ops>>

\* A SELECT fails: "?" ends the load and the engine stays.
LoadFail(l) ==
    /\ load[l].at \in DOMAIN ReadOrder
    /\ load' = [load EXCEPT ![l] = NoLoad]
    /\ UNCHANGED <<db, next, ctx, asked, engine, run, ops>>

Deciding(s) == run[s].at # "idle"

Swap(l) ==
    /\ engine' = [set |-> TRUE, snap |-> load[l].snap, from |-> load[l].from,
                  until |-> load[l].until, torn |-> load[l].torn]
    /\ load' = [m \in Loaders |-> IF m = l THEN NoLoad
                                  ELSE [load[m] EXCEPT !.overtaken = load[m].at # 0]]
    /\ UNCHANGED <<db, next, ctx, asked, run, ops>>

\* Slips: the engine is swapped without the lock; the first one stays.
ReplaceUnlocked(l) ==
    /\ load[l].at = Len(ReadOrder) + 1
    /\ Swap(l)

ReplaceOnce(l) ==
    /\ load[l].at = Len(ReadOrder) + 1
    /\ IF engine.set
       THEN /\ load' = [load EXCEPT ![l] = NoLoad]
            /\ UNCHANGED <<db, next, ctx, asked, engine, run, ops>>
       ELSE Swap(l)

Replace(l) ==
    /\ load[l].at = Len(ReadOrder) + 1
    /\ \A s \in Sessions : ~Deciding(s)
    /\ Swap(l)

(***************************************************************************)
(* user_can_run: one shared lock for all the requests of the statement,    *)
(* each decided by user_can, the first that is not allowed ends it.        *)
(* restricted_for has seen that an engine is set; none is ever taken out.  *)
(***************************************************************************)
Ask(r, i) ==
    IF HasRole(engine.snap, r.user)
    THEN [r EXCEPT !.at = "walk", !.i = i, !.walk = WalkFrom(RoleOf(engine.snap, r.user))]
    ELSE [r EXCEPT !.at = "decided", !.i = i, !.verdict = "user not found"]

RunBegin(s, u, audit) ==
    /\ engine.set
    /\ run[s].at = "idle"
    /\ run' = [run EXCEPT ![s] =
          LET r == [at |-> "decided", user |-> u, audit |-> audit, i |-> 0,
                    walk |-> WalkFrom(0), verdict |-> "yes"] IN
          IF audit = <<>> THEN r ELSE Ask(r, 1)]
    /\ UNCHANGED <<db, next, ctx, asked, load, engine, ops>>

WalkRole(s) ==
    /\ run[s].at = "walk" /\ run[s].walk.queue # <<>>
    /\ run' = [run EXCEPT ![s].walk = WalkStep(engine.snap, @)]
    /\ UNCHANGED <<db, next, ctx, asked, load, engine, ops>>

Decided(r) ==
    LET v == UserCan(engine.snap, r.user, r.audit[r.i], r.walk.roles) IN
    IF v = "yes" /\ r.i < Len(r.audit) THEN Ask(r, r.i + 1)
    ELSE [r EXCEPT !.at = "decided", !.verdict = v]

Decide(s) ==
    /\ run[s].at = "walk" /\ run[s].walk.queue = <<>>
    /\ run' = [run EXCEPT ![s] = Decided(@)]
    /\ UNCHANGED <<db, next, ctx, asked, load, engine, ops>>

RunEnd(s) ==
    /\ run[s].at = "decided"
    /\ run' = [run EXCEPT ![s] = NoRun]
    /\ UNCHANGED <<db, next, ctx, asked, load, engine, ops>>

Next ==
    \/ \E a \in Admins, op \in Ops : Operate(a, op)
    \/ \E l \in Loaders : LoadBegin(l) \/ LoadRead(l) \/ LoadFail(l) \/ Replace(l)
    \/ \E s \in Sessions :
          \/ \E u \in Users, audit \in Audits : RunBegin(s, u, audit)
          \/ WalkRole(s) \/ Decide(s) \/ RunEnd(s)

Spec == Init /\ [][Next]_vars

(***************************************************************************)
(* A task that runs is scheduled; the lock is given once nobody holds it.  *)
(***************************************************************************)
FairSpec ==
    /\ Spec
    /\ \A l \in Loaders : WF_vars(LoadRead(l)) /\ WF_vars(Replace(l))
    /\ \A s \in Sessions : WF_vars(WalkRole(s)) /\ WF_vars(Decide(s)) /\ WF_vars(RunEnd(s))

(***************************************************************************)
(* Safety.                                                                 *)
(***************************************************************************)
\* A statement is let through exactly when the one engine it is decided on
\* permits every request of it, inherited roles, wildcards and overrides
\* included, whatever the loaders and administrators do (user_can_run).
DecisionsRight ==
    \A s \in Sessions : run[s].at = "decided" =>
        LET r == run[s] IN
        /\ r.verdict = "yes" => \A i \in DOMAIN r.audit : Permits(engine.snap, r.user, r.audit[i])
        /\ r.verdict = "no" => ~Permits(engine.snap, r.user, r.audit[r.i])

\* The keys between the tables hold, whatever stale context the rows come from:
\* so a decision fails for a role that is missing only on an engine that was
\* loaded across a commit (get_user_role_ids).
MissingRoleIsTorn ==
    /\ Closed(db)
    /\ ~engine.torn => Closed(engine.snap)
    /\ \A s \in Sessions : run[s].at = "decided" /\ run[s].verdict = "role not found"
                           => engine.torn

\* A grant reaches the role and the table it was asked for by name, though the
\* context may hold ids of inserts that were rolled back (add_role_permissions).
GrantsReachTheirNames ==
    \A g \in asked :
        /\ \E r \in db.roles : r.id = g.ids.role /\ r.name = g.role
        /\ \E p \in db.permissions : p.id = g.ids.perm /\ p.name = g.action
        /\ \E r \in db.resources : r.id = g.ids.res /\ r.name = g.table

\* What current_user_role_permissions lists agrees with what is decided: a pair
\* that is listed is permitted, and what is permitted is listed or covered by
\* a wildcard that is, as long as no override names a wildcard.
Plain(snap, o) ==
    /\ ~WildPermission(snap, o.perm)
    /\ \A r \in snap.resources : r.id = o.res => ~IsWildResource(r)

ListingAgrees ==
    LET snap == engine.snap IN
    \A u \in {x \in Users : HasRole(snap, x)}, audit \in Audits : \A i \in DOMAIN audit :
        LET perm == PermissionOf(snap, audit[i])
            res  == ResourceOf(snap, audit[i])
            list == Listed(snap, u, Below(snap, RoleOf(snap, u))) IN
        (\A o \in snap.user_overrides : Plain(snap, o)) =>
            /\ perm # Nothing /\ res # Nothing /\ <<perm.id, res.id>> \in list
                 => Permits(snap, u, audit[i])
            /\ Permits(snap, u, audit[i]) =>
                 \E pr \in list : Covers(snap, [perm |-> pr[1], res |-> pr[2]], audit[i])

\* A load puts in an engine that was read after the one before it, unless
\* another load came between ("If the RBAC engine already exists, it will be
\* replaced", load_rbac, which holds nothing between reading and replacing).
EngineAdvances ==
    [][\A l \in Loaders :
         load[l].at > Len(ReadOrder) /\ load'[l].at = 0 /\ ~load[l].overtaken
            => engine'.from >= engine.until]_vars

(***************************************************************************)
(* Liveness, where every cycle of roles goes through the role the walk     *)
(* begins at: behind it one would never end.  The lock promises a writer   *)
(* nothing while readers keep coming.                                      *)
(***************************************************************************)
FinitelyManyRuns ==
    <>[][\A s \in Sessions : run[s] = NoRun => run'[s] = NoRun]_vars

\* Statements are decided, and so a load gets the lock in the end once they are
\* not many, whatever the administrators have added (enumerate_role, replace).
LoadsEnd ==
    /\ \A s \in Sessions : run[s].at # "idle" ~> run[s].at = "idle"
    /\ FinitelyManyRuns => \A l \in Loaders : load[l].at # 0 ~> load[l].at = 0
=============================================================================
