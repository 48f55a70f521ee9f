----------------------------- MODULE RbacProofs -----------------------------
(***************************************************************************)
(* Theorems about Rbac, for every number of administrators, loaders and    *)
(* sessions, every seed and every operation.                               *)
(***************************************************************************)
EXTENDS Rbac, TLAPS, FiniteSetTheorems, SequenceTheorems, WellFoundedInduction

LEMMA SevenTables ==
    /\ Len(ReadOrder) = 7 /\ DOMAIN ReadOrder = 1 .. 7
    /\ Tables = {"resources", "permissions", "roles", "user_roles",
                 "role_permissions", "user_overrides", "role_hierarchy"}
<1>1. Len(ReadOrder) = 7 /\ DOMAIN ReadOrder = 1 .. 7
  BY DEF ReadOrder
<1>2. \A t : t \in Tables <=> \E i \in 1 .. 7 : t = ReadOrder[i]
  BY <1>1 DEF Tables
<1>3. \A i \in 1 .. 7 : i = 1 \/ i = 2 \/ i = 3 \/ i = 4 \/ i = 5 \/ i = 6 \/ i = 7
  OBVIOUS
<1>4. /\ ReadOrder[1] = "resources" /\ ReadOrder[2] = "permissions" /\ ReadOrder[3] = "roles"
      /\ ReadOrder[4] = "user_roles" /\ ReadOrder[5] = "role_permissions"
      /\ ReadOrder[6] = "user_overrides" /\ ReadOrder[7] = "role_hierarchy"
  BY DEF ReadOrder
<1>5. \A t : t \in Tables <=> t \in {"resources", "permissions", "roles", "user_roles",
                 "role_permissions", "user_overrides", "role_hierarchy"}
  BY <1>2, <1>3, <1>4
<1> QED BY <1>1, <1>5

(***************************************************************************)
(* Loads and the engine they put in.                                       *)
(***************************************************************************)
Fields == {"at", "snap", "from", "until", "torn", "overtaken"}

\* What a load has read is not newer than the present, and what the engine
\* holds is not newer than the beginning of a load that was not overtaken.
LoadOK(l) ==
    /\ DOMAIN load[l] = Fields
    /\ load[l].at \in Nat /\ load[l].at <= 8
    /\ load[l].from \in Nat /\ load[l].from <= ops
    /\ load[l].until \in Nat /\ load[l].until <= ops
    /\ load[l].at = 0 \/ load[l].overtaken \/ engine.until <= load[l].from

LoadInv ==
    /\ ops \in Nat
    /\ engine.until \in Nat /\ engine.until <= ops
    /\ DOMAIN load = Loaders
    /\ \A l \in Loaders : LoadOK(l)

\* A load that no step of its own moves: only a commit may tear it.
Kept(l) ==
    /\ DOMAIN load'[l] = Fields
    /\ load'[l].at = load[l].at /\ load'[l].snap = load[l].snap
    /\ load'[l].from = load[l].from /\ load'[l].until = load[l].until
    /\ load'[l].overtaken = load[l].overtaken

LEMMA CommittedKeeps ==
    ASSUME LoadInv, NEW tables, Committed(tables), NEW l \in Loaders
    PROVE  Kept(l) /\ DOMAIN load' = Loaders
BY DEF LoadInv, LoadOK, Committed, Kept, Fields

LEMMA OperateLoads ==
    ASSUME LoadInv, NEW a \in Admins, NEW op \in Ops, Operate(a, op)
    PROVE  /\ engine' = engine /\ run' = run
           /\ ops' = ops + 1 \/ ops' = ops
           /\ DOMAIN load' = Loaders
           /\ \A l \in Loaders : Kept(l)
<1>0. load' = load => DOMAIN load' = Loaders /\ \A l \in Loaders : Kept(l)
  BY DEF LoadInv, LoadOK, Kept
<1>w. CASE UNCHANGED vars \/ \E tables : Counted /\ Committed(tables)
  <2>1. CASE UNCHANGED vars
    BY <2>1, <1>0 DEF vars
  <2>2. ASSUME NEW tables, Counted, Committed(tables)
        PROVE  /\ engine' = engine /\ run' = run
               /\ ops' = ops + 1
               /\ DOMAIN load' = Loaders
               /\ \A l \in Loaders : Kept(l)
    <3>1. DOMAIN load' = Loaders
      BY <2>2 DEF Committed
    <3> QED BY <3>1, <2>2, CommittedKeeps DEF Counted
  <2> QED BY <1>w, <2>1, <2>2
<1>1. CASE op.op = "load" /\ LoadContext(a)
  BY <1>0, <1>1 DEF LoadContext, Counted
<1>2. CASE op.op = "add" /\ AddNamed(a, op.table, op.names)
  <2>1. Counted /\ (UNCHANGED load \/ \E tables : Committed(tables))
    BY <1>2 DEF AddNamed
  <2>2. CASE UNCHANGED load
    BY <1>0, <2>1, <2>2 DEF Counted
  <2>3. CASE \E tables : Committed(tables)
    <3>1. DOMAIN load' = Loaders
      BY <2>3 DEF Committed
    <3> QED BY <3>1, <2>1, <2>3, CommittedKeeps DEF Counted
  <2> QED BY <2>1, <2>2, <2>3
<1>3. CASE op.op = "grant" /\ GrantRole(a, op.role, op.actions, op.tables)
  BY <1>w, <1>3 DEF GrantRole, Write
<1>4. CASE op.op = "revoke" /\ RevokeRole(a, op.role, op.actions, op.tables)
  BY <1>w, <1>4 DEF RevokeRole, Write
<1>5. CASE op.op = "override" /\ Override(a, op.user, op.action, op.table, op.grant)
  BY <1>w, <1>5 DEF Override, Write
<1>6. CASE op.op = "hierarchy" /\ AddHierarchy(a, op.super, op.role)
  BY <1>w, <1>6 DEF AddHierarchy, Write
<1>7. CASE op.op = "assign" /\ AssignRole(a, op.user, op.role)
  BY <1>w, <1>7 DEF AssignRole, Write
<1> QED BY <1>1, <1>2, <1>3, <1>4, <1>5, <1>6, <1>7 DEF Operate

LEMMA LoadsAtFirst == Init => LoadInv
BY DEF Init, LoadInv, LoadOK, NoLoad, NoEngine, Fields

\* What the steps of one load do to it; the others keep theirs.
LEMMA LoadSteps ==
    ASSUME LoadInv, NEW l \in Loaders, LoadBegin(l) \/ LoadRead(l) \/ LoadFail(l)
    PROVE  /\ UNCHANGED <<db, engine, run, ops>>
           /\ DOMAIN load' = Loaders
           /\ \A m \in Loaders \ {l} : load'[m] = load[m]
           /\ DOMAIN load'[l] = Fields
           /\ load'[l].at \in Nat /\ load'[l].at <= 8
           /\ load'[l].from \in Nat /\ load'[l].from <= ops
           /\ load'[l].until \in Nat /\ load'[l].until <= ops
           /\ load'[l].at = 1 => load'[l].from = ops
           /\ load'[l].at > 1 => /\ load[l].at # 0
                                 /\ load'[l].from = load[l].from
                                 /\ load'[l].overtaken = load[l].overtaken
           /\ load[l].at # 8
<1> USE SevenTables DEF LoadInv, LoadOK
<1>1. CASE LoadBegin(l)
  <2>1. load'[l] = [NoLoad EXCEPT !.at = 1, !.from = ops]
    BY <1>1 DEF LoadBegin
  <2> QED BY <1>1, <2>1 DEF LoadBegin, NoLoad, Fields
<1>2. CASE LoadRead(l)
  <2>1. load[l].at \in 1 .. 7
    BY <1>2 DEF LoadRead
  <2>2. /\ DOMAIN load' = Loaders /\ DOMAIN load'[l] = Fields
        /\ \A m \in Loaders \ {l} : load'[m] = load[m]
        /\ load'[l].at = load[l].at + 1 /\ load'[l].until = ops
        /\ load'[l].from = load[l].from /\ load'[l].overtaken = load[l].overtaken
    BY <1>2 DEF LoadRead, Fields
  <2>3. UNCHANGED <<db, engine, run, ops>>
    BY <1>2 DEF LoadRead
  <2>4. /\ load[l].from \in Nat /\ load[l].from <= ops /\ ops \in Nat
    OBVIOUS
  <2> HIDE DEF LoadInv, LoadOK
  <2> QED BY <2>1, <2>2, <2>3, <2>4
<1>3. CASE LoadFail(l)
  BY <1>3 DEF LoadFail, NoLoad, Fields
<1> QED BY <1>1, <1>2, <1>3

LEMMA ReplaceLoads ==
    ASSUME LoadInv, NEW l \in Loaders, Replace(l)
    PROVE  /\ UNCHANGED <<db, run, ops>> /\ load[l].at = 8
           /\ engine'.until = load[l].until /\ engine'.from = load[l].from
           /\ DOMAIN load' = Loaders /\ load'[l] = NoLoad
           /\ \A m \in Loaders \ {l} :
                /\ DOMAIN load'[m] = Fields
                /\ load'[m].at = load[m].at
                /\ load'[m].from = load[m].from /\ load'[m].until = load[m].until
                /\ load'[m].overtaken = (load[m].at # 0)
<1> USE SevenTables DEF LoadInv, LoadOK, Replace, Swap
<1>1. /\ UNCHANGED <<db, run, ops>> /\ load[l].at = 8
      /\ engine'.until = load[l].until /\ engine'.from = load[l].from
  OBVIOUS
<1>2. DOMAIN load' = Loaders /\ load'[l] = NoLoad
  OBVIOUS
<1>3. ASSUME NEW m \in Loaders \ {l}
      PROVE  /\ DOMAIN load'[m] = Fields
             /\ load'[m].at = load[m].at
             /\ load'[m].from = load[m].from /\ load'[m].until = load[m].until
             /\ load'[m].overtaken = (load[m].at # 0)
  <2>1. load'[m] = [load[m] EXCEPT !.overtaken = load[m].at # 0]
    OBVIOUS
  <2> QED BY <2>1 DEF Fields
<1> QED BY <1>1, <1>2, <1>3

LEMMA SessionsKeep ==
    ASSUME NEW s \in Sessions,
           \/ \E u \in Users, audit \in Audits : RunBegin(s, u, audit)
           \/ WalkRole(s) \/ Decide(s) \/ RunEnd(s)
    PROVE  UNCHANGED <<db, next, ctx, asked, load, engine, ops>>
BY DEF RunBegin, WalkRole, Decide, RunEnd

LEMMA LoadStep == LoadInv /\ [Next]_vars => LoadInv'
<1> SUFFICES ASSUME LoadInv, [Next]_vars PROVE LoadInv'
  OBVIOUS
<1>0. ops \in Nat /\ engine.until \in Nat /\ engine.until <= ops
  BY DEF LoadInv
<1>1. ASSUME NEW a \in Admins, NEW op \in Ops, Operate(a, op) PROVE LoadInv'
  <2>1. /\ ops' \in Nat /\ ops <= ops' /\ engine' = engine /\ DOMAIN load' = Loaders
    BY <1>0, <1>1, OperateLoads
  <2>2. ASSUME NEW l \in Loaders PROVE LoadOK(l)'
    <3>1. LoadOK(l) /\ Kept(l)
      BY <1>1, OperateLoads DEF LoadInv
    <3> QED BY <1>0, <2>1, <3>1 DEF LoadOK, Kept
  <2> QED BY <1>0, <2>1, <2>2 DEF LoadInv
<1>2. ASSUME NEW l \in Loaders, LoadBegin(l) \/ LoadRead(l) \/ LoadFail(l) PROVE LoadInv'
  <2>1. ops' = ops /\ engine' = engine /\ DOMAIN load' = Loaders
    BY <1>2, LoadSteps
  <2>2. ASSUME NEW m \in Loaders \ {l} PROVE LoadOK(m)'
    <3>1. load'[m] = load[m] /\ LoadOK(m)
      BY <1>2, LoadSteps DEF LoadInv
    <3> QED BY <2>1, <3>1 DEF LoadOK
  <2>3. LoadOK(l)'
    <3> USE <2>1 DEF LoadOK
    <3>0. LoadOK(l)
      BY DEF LoadInv
    <3>1. /\ DOMAIN load'[l] = Fields
          /\ load'[l].at \in Nat /\ load'[l].at <= 8
          /\ load'[l].from \in Nat /\ load'[l].from <= ops
          /\ load'[l].until \in Nat /\ load'[l].until <= ops
      BY <1>2, LoadSteps
    <3>2. CASE load'[l].at > 1
      BY <1>2, <3>0, <3>1, <3>2, LoadSteps
    <3>3. CASE load'[l].at = 1
      BY <1>0, <1>2, <3>1, <3>3, LoadSteps
    <3>4. CASE load'[l].at = 0
      BY <3>1, <3>4
    <3> QED BY <3>1, <3>2, <3>3, <3>4
  <2> QED BY <1>0, <2>1, <2>2, <2>3 DEF LoadInv
<1>3. ASSUME NEW l \in Loaders, Replace(l) PROVE LoadInv'
  <2>0. LoadOK(l)
    BY DEF LoadInv
  <2>1. /\ ops' = ops /\ DOMAIN load' = Loaders
        /\ engine'.until \in Nat /\ engine'.until <= ops
    BY <1>3, <2>0, ReplaceLoads DEF LoadOK
  <2>2. ASSUME NEW m \in Loaders \ {l} PROVE LoadOK(m)'
    <3>0. LoadOK(m)
      BY DEF LoadInv
    <3>1. /\ DOMAIN load'[m] = Fields
          /\ load'[m].at = load[m].at
          /\ load'[m].from = load[m].from /\ load'[m].until = load[m].until
          /\ load[m].at # 0 => load'[m].overtaken
      BY <1>3, ReplaceLoads
    <3> QED BY <2>1, <3>0, <3>1 DEF LoadOK
  <2>3. LoadOK(l)'
    BY <1>0, <1>3, <2>1, ReplaceLoads DEF LoadOK, NoLoad, Fields
  <2> QED BY <1>0, <2>1, <2>2, <2>3 DEF LoadInv
<1>4. CASE UNCHANGED <<load, engine, ops>>
  BY <1>4 DEF LoadInv, LoadOK
<1> QED BY <1>1, <1>2, <1>3, <1>4, SessionsKeep DEF Next, vars

\* A load puts in an engine that was read after the one before it, unless
\* another load came between (load_rbac, RbacEngineMount::replace): it holds
\* for any number of loaders that overlap.
THEOREM LoadsAdvance == Spec => EngineAdvances
<1> DEFINE Advances(l) == load[l].at > Len(ReadOrder) /\ load'[l].at = 0
                             /\ ~load[l].overtaken => engine'.from >= engine.until
<1>1. ASSUME LoadInv, [Next]_vars, NEW l \in Loaders PROVE Advances(l)
  <2> SUFFICES ASSUME load[l].at > 7, load'[l].at = 0, ~load[l].overtaken
               PROVE  engine'.from >= engine.until
    BY SevenTables
  <2>0. LoadOK(l) /\ load[l].at = 8
    BY <1>1 DEF LoadInv, LoadOK
  <2>1. ASSUME NEW a \in Admins, NEW op \in Ops, Operate(a, op) PROVE FALSE
    BY <1>1, <2>0, <2>1, OperateLoads DEF Kept
  <2>2. ASSUME NEW m \in Loaders, LoadBegin(m) \/ LoadRead(m) \/ LoadFail(m) PROVE FALSE
    <3>1. load'[l] = load[l] \/ (m = l /\ load[l].at # 8)
      BY <1>1, <2>2, LoadSteps
    <3> QED BY <2>0, <3>1
  <2>3. ASSUME NEW m \in Loaders, Replace(m) PROVE engine'.from >= engine.until
    <3>1. m = l
      BY <1>1, <2>0, <2>3, ReplaceLoads
    <3>2. engine'.from = load[l].from
      BY <1>1, <2>3, <3>1, ReplaceLoads
    <3>3. engine.until \in Nat /\ load[l].from \in Nat /\ engine.until <= load[l].from
      BY <1>1, <2>0 DEF LoadInv, LoadOK
    <3> QED BY <3>2, <3>3
  <2>4. CASE UNCHANGED load
    BY <2>0, <2>4
  <2> QED BY <1>1, <2>1, <2>2, <2>3, <2>4, SessionsKeep DEF Next, vars
<1>2. LoadInv /\ [Next]_vars => \A l \in Loaders : Advances(l)
  BY <1>1
<1> QED BY <1>2, LoadsAtFirst, LoadStep, PTL DEF Spec, EngineAdvances

(***************************************************************************)
(* The keys between the tables, and a load that no commit fell into.       *)
(***************************************************************************)
KeysHold == Closed(db) /\ (engine.torn \/ Closed(engine.snap))

\* A load that is not torn holds, of the tables it has read, the present ones.
SnapOK(l) ==
    /\ DOMAIN load[l].snap = Tables
    /\ load[l].torn \/ load[l].at > 7
         \/ \A i \in 1 .. 7 : i < load[l].at => load[l].snap[ReadOrder[i]] = db[ReadOrder[i]]
    /\ load[l].torn \/ load[l].at < 8 \/ Closed(load[l].snap)

KeysInv ==
    /\ DOMAIN db = Tables
    /\ KeysHold
    /\ \A l \in Loaders : SnapOK(l)

LEMMA EmptyClosed == Closed(Empty) /\ DOMAIN Empty = Tables
BY SevenTables DEF Closed, Empty

LEMMA GrowthCloses ==
    ASSUME NEW tables, DOMAIN tables = Tables, Closed(tables), NEW t \in Named, NEW rows
    PROVE  /\ Closed([tables EXCEPT ![t] = @ \cup rows])
           /\ DOMAIN [tables EXCEPT ![t] = @ \cup rows] = Tables
<1> DEFINE grown == [tables EXCEPT ![t] = @ \cup rows]
<1>1. t = "resources" \/ t = "permissions" \/ t = "roles"
  BY DEF Named
<1>2. DOMAIN grown = Tables
  OBVIOUS
<1>3. /\ tables.resources \subseteq grown.resources
      /\ tables.permissions \subseteq grown.permissions
      /\ tables.roles \subseteq grown.roles
      /\ grown.user_roles = tables.user_roles
      /\ grown.role_permissions = tables.role_permissions
      /\ grown.user_overrides = tables.user_overrides
      /\ grown.role_hierarchy = tables.role_hierarchy
  BY <1>1, SevenTables
<1> HIDE DEF grown
<1>4. Closed(grown)
  BY <1>3 DEF Closed
<1> QED BY <1>2, <1>4 DEF grown

LEMMA SameRowsClose ==
    ASSUME NEW snap, NEW tables, Closed(tables),
           \A i \in 1 .. 7 : snap[ReadOrder[i]] = tables[ReadOrder[i]]
    PROVE  Closed(snap)
<1>1. /\ snap.resources = tables.resources /\ snap.permissions = tables.permissions
      /\ snap.roles = tables.roles /\ snap.user_roles = tables.user_roles
      /\ snap.role_permissions = tables.role_permissions
      /\ snap.user_overrides = tables.user_overrides
      /\ snap.role_hierarchy = tables.role_hierarchy
  <2>1. /\ ReadOrder[1] = "resources" /\ ReadOrder[2] = "permissions" /\ ReadOrder[3] = "roles"
        /\ ReadOrder[4] = "user_roles" /\ ReadOrder[5] = "role_permissions"
        /\ ReadOrder[6] = "user_overrides" /\ ReadOrder[7] = "role_hierarchy"
    BY DEF ReadOrder
  <2>2. /\ 1 \in 1 .. 7 /\ 2 \in 1 .. 7 /\ 3 \in 1 .. 7 /\ 4 \in 1 .. 7
        /\ 5 \in 1 .. 7 /\ 6 \in 1 .. 7 /\ 7 \in 1 .. 7
    OBVIOUS
  <2> QED BY <2>1, <2>2
<1> QED BY <1>1 DEF Closed

LEMMA KeysAtFirst == Init => KeysInv
<1> SUFFICES ASSUME Init PROVE KeysInv
  OBVIOUS
<1>1. DOMAIN db = Tables /\ Closed(db)
  BY RbacAssumption DEF Init, SeedOK
<1>2. Closed(engine.snap)
  BY EmptyClosed DEF Init, NoEngine
<1>3. ASSUME NEW l \in Loaders PROVE SnapOK(l)
  BY EmptyClosed DEF Init, NoLoad, SnapOK
<1> QED BY <1>1, <1>2, <1>3 DEF KeysInv, KeysHold

\* A commit of tables whose keys hold.
LEMMA CommitKeys ==
    ASSUME LoadInv, KeysInv, NEW tables, Committed(tables), engine' = engine,
           DOMAIN tables = Tables, Closed(tables)
    PROVE  KeysInv'
<1>1. DOMAIN db' = Tables /\ Closed(db')
  BY DEF Committed
<1>2. KeysHold'
  BY <1>1 DEF KeysInv, KeysHold
<1>3. ASSUME NEW l \in Loaders PROVE SnapOK(l)'
  <2>1. SnapOK(l) /\ LoadOK(l) /\ Kept(l)
    BY CommittedKeeps DEF KeysInv, LoadInv
  <2>2. load'[l].torn = (load[l].torn \/ (load[l].at \in 2 .. 7 /\ tables # db))
    <3>1. load'[l] = [load[l] EXCEPT !.torn = @ \/ (load[l].at \in 2 .. 7 /\ tables # db)]
      BY SevenTables DEF Committed
    <3> QED BY <2>1, <3>1 DEF LoadOK, Fields
  <2>3. db' = tables
    BY DEF Committed
  <2>4. CASE tables = db
    BY <2>1, <2>2, <2>3, <2>4 DEF SnapOK, Kept
  <2>5. CASE load[l].at \in 2 .. 7 /\ tables # db
    BY <2>1, <2>2, <2>5 DEF SnapOK, Kept
  <2>6. CASE load[l].at \notin 2 .. 7
    <3>1. load[l].at = 0 \/ load[l].at = 1 \/ load[l].at = 8
      BY <2>1, <2>6 DEF LoadOK
    <3>2. CASE load[l].at = 0 \/ load[l].at = 1
      <4>1. load'[l].at = 0 \/ load'[l].at = 1
        BY <2>1, <3>2 DEF Kept
      <4>2. \A i \in 1 .. 7 : ~(i < load'[l].at)
        BY <4>1
      <4> QED BY <2>1, <4>1, <4>2 DEF SnapOK, Kept
    <3>3. CASE load[l].at = 8
      <4>1. load'[l].at = 8 /\ load'[l].snap = load[l].snap
        BY <2>1, <3>3 DEF Kept
      <4>2. load[l].torn => load'[l].torn
        BY <2>2
      <4>3. load[l].torn \/ Closed(load[l].snap)
        BY <2>1, <3>3 DEF SnapOK
      <4>4. load'[l].torn \/ Closed(load'[l].snap)
        BY <4>1, <4>2, <4>3
      <4> QED BY <2>1, <4>1, <4>4 DEF SnapOK
    <3> QED BY <3>1, <3>2, <3>3
  <2> QED BY <2>4, <2>5, <2>6
<1> QED BY <1>1, <1>2, <1>3 DEF KeysInv

LEMMA OperateKeys ==
    ASSUME LoadInv, KeysInv, NEW a \in Admins, NEW op \in Ops, Operate(a, op)
    PROVE  KeysInv'
<1>0. engine' = engine
  BY OperateLoads
<1>1. DOMAIN db = Tables /\ Closed(db)
  BY DEF KeysInv, KeysHold
<1>2. CASE UNCHANGED <<db, load>>
  BY <1>0, <1>2 DEF KeysInv, KeysHold, SnapOK
<1>3. ASSUME NEW tables, DOMAIN tables = Tables,
             UNCHANGED vars \/ (Closed(tables) /\ Committed(tables))
      PROVE  KeysInv'
  BY <1>0, <1>2, <1>3, CommitKeys DEF vars
<1> USE DEF Write, Accepts
<1>4. CASE op.op = "load" /\ LoadContext(a)
  BY <1>2, <1>4 DEF LoadContext
<1>5. CASE op.op = "add" /\ AddNamed(a, op.table, op.names)
  <2>1. op.table \in Named
    BY <1>5, RbacAssumption
  <2>2. ASSUME NEW rows, Committed([db EXCEPT ![op.table] = @ \cup rows])
        PROVE  KeysInv'
    BY <1>0, <1>1, <2>1, <2>2, GrowthCloses, CommitKeys
  <2>3. UNCHANGED <<db, load>> \/ \E rows : Committed([db EXCEPT ![op.table] = @ \cup rows])
    BY <1>5 DEF AddNamed
  <2> QED BY <1>2, <2>2, <2>3
<1>6. CASE op.op = "grant" /\ GrantRole(a, op.role, op.actions, op.tables)
  <2> DEFINE tables == [db EXCEPT !.role_permissions =
                           @ \cup RolePermissions(a, op.role, op.actions, op.tables)]
  <2>1. UNCHANGED vars \/ (Closed(tables) /\ Committed(tables))
    BY <1>6 DEF GrantRole
  <2> QED BY <1>1, <1>3, <2>1
<1>7. CASE op.op = "revoke" /\ RevokeRole(a, op.role, op.actions, op.tables)
  <2> DEFINE tables == [db EXCEPT !.role_permissions =
                           @ \ RolePermissions(a, op.role, op.actions, op.tables)]
  <2>1. UNCHANGED vars \/ (Closed(tables) /\ Committed(tables))
    BY <1>7 DEF RevokeRole
  <2> QED BY <1>1, <1>3, <2>1
<1>8. CASE op.op = "override" /\ Override(a, op.user, op.action, op.table, op.grant)
  <2>1. PICK tables : /\ DOMAIN tables = DOMAIN db
                      /\ UNCHANGED vars \/ (Closed(tables) /\ Committed(tables))
    BY <1>8 DEF Override
  <2> QED BY <1>1, <1>3, <2>1
<1>9. CASE op.op = "hierarchy" /\ AddHierarchy(a, op.super, op.role)
  <2>1. PICK tables : /\ DOMAIN tables = DOMAIN db
                      /\ UNCHANGED vars \/ (Closed(tables) /\ Committed(tables))
    BY <1>9 DEF AddHierarchy
  <2> QED BY <1>1, <1>3, <2>1
<1>10. CASE op.op = "assign" /\ AssignRole(a, op.user, op.role)
  <2>1. PICK tables : /\ DOMAIN tables = DOMAIN db
                      /\ UNCHANGED vars \/ (Closed(tables) /\ Committed(tables))
    BY <1>10 DEF AssignRole
  <2> QED BY <1>1, <1>3, <2>1
<1> QED BY <1>4, <1>5, <1>6, <1>7, <1>8, <1>9, <1>10 DEF Operate

LEMMA ReadKeys ==
    ASSUME LoadInv, KeysInv, NEW l \in Loaders, LoadBegin(l) \/ LoadRead(l) \/ LoadFail(l)
    PROVE  SnapOK(l)'
<1>0. LoadOK(l) /\ SnapOK(l) /\ db' = db /\ DOMAIN db = Tables /\ Closed(db)
  BY LoadSteps DEF LoadInv, KeysInv, KeysHold
<1>1. CASE LoadBegin(l)
  <2>1. load'[l] = [NoLoad EXCEPT !.at = 1, !.from = ops]
    BY <1>1 DEF LoadBegin, LoadInv
  <2>2. load'[l].at = 1 /\ load'[l].snap = Empty
    BY <2>1 DEF NoLoad
  <2>3. \A i \in 1 .. 7 : ~(i < load'[l].at)
    BY <2>2
  <2> QED BY <2>2, <2>3, EmptyClosed DEF SnapOK
<1>2. CASE LoadRead(l)
  <2>0. load[l].at \in 1 .. 7
    BY <1>2, SevenTables DEF LoadRead
  <2> DEFINE t == ReadOrder[load[l].at]
  <2>1. /\ load'[l].at = load[l].at + 1
        /\ load'[l].snap = [load[l].snap EXCEPT ![t] = db[t]]
        /\ load'[l].torn = load[l].torn
    BY <1>0, <1>2 DEF LoadRead, LoadInv, LoadOK, Fields
  <2>2. t \in Tables
    BY <2>0, SevenTables DEF Tables
  <2>3. DOMAIN load'[l].snap = Tables
    BY <1>0, <2>1 DEF SnapOK
  <2>4. CASE load[l].torn
    <3>1. load'[l].torn
      BY <2>1, <2>4
    <3> QED BY <2>3, <3>1 DEF SnapOK
  <2>5. CASE ~load[l].torn
    <3>1. ASSUME NEW i \in 1 .. 7, i < load[l].at + 1
          PROVE  load'[l].snap[ReadOrder[i]] = db[ReadOrder[i]]
      <4>1. CASE i < load[l].at
        <5>1. load[l].snap[ReadOrder[i]] = db[ReadOrder[i]]
          BY <1>0, <2>0, <2>5, <4>1 DEF SnapOK
        <5>2. ReadOrder[i] \in Tables
          BY SevenTables DEF Tables
        <5> QED BY <1>0, <2>1, <5>1, <5>2 DEF SnapOK
      <4>2. CASE i = load[l].at
        BY <1>0, <2>1, <2>2, <4>2 DEF SnapOK
      <4> QED BY <2>0, <3>1, <4>1, <4>2
    <3>2. CASE load[l].at < 7
      <4>1. load'[l].at < 8
        BY <2>0, <2>1, <3>2
      <4> QED BY <1>0, <2>1, <2>3, <3>1, <4>1 DEF SnapOK
    <3>3. CASE load[l].at = 7
      <4>1. \A i \in 1 .. 7 : load'[l].snap[ReadOrder[i]] = db[ReadOrder[i]]
        BY <3>1, <3>3
      <4>2. Closed(load'[l].snap)
        BY <1>0, <4>1, SameRowsClose
      <4>3. load'[l].at > 7
        BY <2>1, <3>3
      <4> QED BY <2>3, <4>2, <4>3 DEF SnapOK
    <3> QED BY <2>0, <3>2, <3>3
  <2> QED BY <2>4, <2>5
<1>3. CASE LoadFail(l)
  <2>1. load'[l].at = 0 /\ load'[l].snap = Empty
    BY <1>3 DEF LoadFail, LoadInv, NoLoad
  <2>2. \A i \in 1 .. 7 : ~(i < load'[l].at)
    BY <2>1
  <2> QED BY <2>1, <2>2, EmptyClosed DEF SnapOK
<1> QED BY <1>1, <1>2, <1>3

LEMMA ReplaceKeys ==
    ASSUME LoadInv, KeysInv, NEW l \in Loaders, Replace(l)
    PROVE  KeysInv'
<1>0. db' = db /\ load[l].at = 8 /\ load'[l] = NoLoad
  BY ReplaceLoads
<1>1. load[l].torn \/ Closed(load[l].snap)
  BY <1>0 DEF KeysInv, SnapOK
<1>2. engine'.snap = load[l].snap /\ engine'.torn = load[l].torn
  BY DEF Replace, Swap
<1>3. KeysHold'
  BY <1>0, <1>1, <1>2 DEF KeysInv, KeysHold
<1>4. SnapOK(l)'
  <2>1. load'[l].at = 0 /\ load'[l].snap = Empty
    BY <1>0 DEF NoLoad
  <2>2. \A i \in 1 .. 7 : ~(i < load'[l].at)
    BY <2>1
  <2> QED BY <2>1, <2>2, EmptyClosed DEF SnapOK
<1>5. ASSUME NEW m \in Loaders \ {l} PROVE SnapOK(m)'
  <2>1. SnapOK(m) /\ LoadOK(m)
    BY DEF KeysInv, LoadInv
  <2>2. load'[m] = [load[m] EXCEPT !.overtaken = load[m].at # 0]
    BY DEF Replace, Swap
  <2>3. load'[m].at = load[m].at /\ load'[m].snap = load[m].snap /\ load'[m].torn = load[m].torn
    BY <2>1, <2>2 DEF LoadOK, Fields
  <2> QED BY <1>0, <2>1, <2>3 DEF SnapOK
<1> QED BY <1>0, <1>3, <1>4, <1>5 DEF KeysInv

LEMMA KeysStep == LoadInv /\ KeysInv /\ [Next]_vars => KeysInv'
<1> SUFFICES ASSUME LoadInv, KeysInv, [Next]_vars PROVE KeysInv'
  OBVIOUS
<1>1. ASSUME NEW a \in Admins, NEW op \in Ops, Operate(a, op) PROVE KeysInv'
  BY <1>1, OperateKeys
<1>2. ASSUME NEW l \in Loaders, LoadBegin(l) \/ LoadRead(l) \/ LoadFail(l) PROVE KeysInv'
  <2>1. /\ db' = db /\ engine' = engine
        /\ \A m \in Loaders \ {l} : load'[m] = load[m]
    BY <1>2, LoadSteps
  <2>2. SnapOK(l)'
    BY <1>2, ReadKeys
  <2>3. \A m \in Loaders \ {l} : SnapOK(m)'
    BY <2>1 DEF KeysInv, SnapOK
  <2> QED BY <2>1, <2>2, <2>3 DEF KeysInv, KeysHold
<1>3. ASSUME NEW l \in Loaders, Replace(l) PROVE KeysInv'
  BY <1>3, ReplaceKeys
<1>4. CASE UNCHANGED <<db, load, engine>>
  BY <1>4 DEF KeysInv, KeysHold, SnapOK
<1> QED BY <1>1, <1>2, <1>3, <1>4, SessionsKeep DEF Next, vars

(***************************************************************************)
(* Names and ids: what a context remembers is never another name's id.     *)
(***************************************************************************)
LEMMA Greatest ==
    ASSUME NEW n \in Nat, NEW S \in SUBSET (0 .. n), S # {}
    PROVE  \E x \in S : \A y \in S : y <= x
<1> DEFINE R == {ss \in Nat \X Nat : ss[1] < ss[2]}
           D == {d \in Nat : \E x \in S : d = n - x}
<1>0. IsWellFoundedOn(R, Nat)
  BY NatLessThanWellFounded, Zenon DEF OpToRel
<1>1. D \subseteq Nat /\ D # {}
  <2>1. PICK x \in S : TRUE
    OBVIOUS
  <2>2. n - x \in D
    BY <2>1
  <2> QED BY <2>2
<1>2. PICK d \in D : \A e \in D : ~(<<e, d>> \in R)
  <2> HIDE DEF R, D
  <2> QED BY <1>0, <1>1, WFMin
<1>3. ASSUME NEW e \in D PROVE d <= e
  <2>1. e \in Nat /\ d \in Nat /\ <<e, d>> \notin R
    BY <1>2
  <2>2. ~(e < d)
    BY <2>1
  <2> QED BY <2>1, <2>2
<1>4. PICK x \in S : d = n - x
  BY <1>2
<1>5. \A y \in S : n - x <= n - y
  BY <1>3, <1>4
<1> QED BY <1>5

\* A table of named rows whose ids were given out below a bound, each once.
Numbered(rows, bound) ==
    /\ \A r \in rows : r.id \in 1 .. bound - 1
    /\ \A r, s \in rows : r.id = s.id => r = s

\* Ids remembered for names are below the bound, and nobody else's.
Faithful(known, rows, bound) ==
    \A n \in DOMAIN known :
        /\ known[n] \in 1 .. bound - 1
        /\ \A r \in rows : r.id = known[n] => r.name = n

NamesInv ==
    /\ DOMAIN db = Tables
    /\ next \in [Named -> Nat \ {0}]
    /\ DOMAIN ctx = Admins
    /\ \A t \in Named : Numbered(db[t], next[t])
    /\ \A a \in Admins : DOMAIN ctx[a] = Named
    /\ \A a \in Admins, t \in Named : Faithful(ctx[a][t], db[t], next[t])
    /\ GrantsReachTheirNames

LEMMA LatestIsOne ==
    ASSUME NEW bound \in Nat \ {0}, NEW rows, Numbered(rows, bound), rows # {}
    PROVE  Latest(rows) \in rows
<1> DEFINE ids == {r.id : r \in rows}
<1>1. ids \in SUBSET (0 .. bound) /\ ids # {}
  BY DEF Numbered
<1>2. PICK x \in ids : \A y \in ids : y <= x
  <2> HIDE DEF ids
  <2> QED BY <1>1, Greatest
<1>3. PICK r \in rows : \A s \in rows : s.id <= r.id
  BY <1>2
<1> QED BY <1>3 DEF Latest

LEMMA NameMapFaithful ==
    ASSUME NEW bound \in Nat \ {0}, NEW rows, Numbered(rows, bound)
    PROVE  Faithful(NameMap(rows), rows, bound)
<1> SUFFICES ASSUME NEW n \in DOMAIN NameMap(rows)
             PROVE  /\ NameMap(rows)[n] \in 1 .. bound - 1
                    /\ \A r \in rows : r.id = NameMap(rows)[n] => r.name = n
  BY DEF Faithful
<1> DEFINE S == {r \in rows : r.name = n}
<1>1. n \in {r.name : r \in rows} /\ NameMap(rows)[n] = Latest(S).id
  BY DEF NameMap
<1>2. S # {} /\ Numbered(S, bound)
  BY <1>1 DEF Numbered
<1>3. Latest(S) \in S
  <2> HIDE DEF S
  <2> QED BY <1>2, LatestIsOne
<1> QED BY <1>1, <1>3 DEF Numbered

LEMMA NamesAtFirst == Init => NamesInv
<1> SUFFICES ASSUME Init PROVE NamesInv
  OBVIOUS
<1>1. ASSUME NEW t \in Named
      PROVE  /\ next[t] \in Nat \ {0}
             /\ Numbered(db[t], next[t])
  <2>1. IsFiniteSet(Seed[t]) /\ Cardinality(Seed[t]) \in Nat
    BY RbacAssumption, FS_CardinalityType DEF SeedOK
  <2>2. next[t] = 1 + Cardinality(Seed[t]) /\ db[t] = Seed[t]
    BY DEF Init
  <2> QED BY <2>1, <2>2, RbacAssumption DEF SeedOK, Numbered
<1>2. ASSUME NEW a \in Admins
      PROVE  DOMAIN ctx[a] = Named /\ \A t \in Named : Faithful(ctx[a][t], db[t], next[t])
  <2>1. ctx[a] = [t \in Named |-> NameMap(Seed[t])] /\ db = Seed
    BY DEF Init
  <2>2. \A t \in Named : Faithful(NameMap(db[t]), db[t], next[t])
    BY <1>1, NameMapFaithful
  <2> QED BY <2>1, <2>2
<1>3. DOMAIN db = Tables /\ DOMAIN next = Named /\ DOMAIN ctx = Admins
  BY RbacAssumption DEF Init, SeedOK
<1>4. GrantsReachTheirNames
  BY DEF Init, GrantsReachTheirNames
<1>5. next \in [Named -> Nat \ {0}]
  BY <1>1 DEF Init
<1> QED BY <1>1, <1>2, <1>3, <1>4, <1>5 DEF NamesInv

(***************************************************************************)
(* Adding names: new ids for new rows, remembered for the names they got.  *)
(***************************************************************************)
NewRows(t, bound, names, k) == {NewRow(t, bound + i - 1, names[i]) : i \in 1 .. k}

LEMMA NewRowsAre ==
    ASSUME NEW t, NEW bound \in Nat \ {0}, NEW names, NEW k \in Nat,
           NEW r \in NewRows(t, bound, names, k)
    PROVE  \E i \in 1 .. k : /\ r = NewRow(t, bound + i - 1, names[i])
                             /\ r.id = bound + i - 1 /\ r.name = names[i]
BY DEF NewRows, NewRow

LEMMA AddNumbers ==
    ASSUME NEW t, NEW bound \in Nat \ {0}, NEW names, NEW k \in Nat, NEW rows,
           Numbered(rows, bound)
    PROVE  Numbered(rows \cup NewRows(t, bound, names, k), bound + k)
<1> DEFINE new == NewRows(t, bound, names, k)
<1>1. ASSUME NEW r \in rows PROVE r.id \in 1 .. bound - 1
  BY DEF Numbered
<1>2. ASSUME NEW r \in new PROVE r.id \in bound .. bound + k - 1
  BY NewRowsAre
<1>3. ASSUME NEW r \in new, NEW s \in new, r.id = s.id PROVE r = s
  <2>1. PICK i \in 1 .. k : r = NewRow(t, bound + i - 1, names[i]) /\ r.id = bound + i - 1
    BY NewRowsAre
  <2>2. PICK j \in 1 .. k : s = NewRow(t, bound + j - 1, names[j]) /\ s.id = bound + j - 1
    BY NewRowsAre
  <2>3. i = j
    BY <1>3, <2>1, <2>2
  <2> QED BY <2>1, <2>2, <2>3
<1>4. ASSUME NEW r \in rows \cup new, NEW s \in rows \cup new, r.id = s.id PROVE r = s
  BY <1>1, <1>2, <1>3, <1>4 DEF Numbered
<1>5. \A r \in rows \cup new : r.id \in 1 .. bound + k - 1
  BY <1>1, <1>2
<1> QED BY <1>4, <1>5 DEF Numbered

LEMMA KnownStaysFaithful ==
    ASSUME NEW t, NEW bound \in Nat \ {0}, NEW names, NEW k \in Nat, NEW rows, NEW known,
           Faithful(known, rows, bound)
    PROVE  /\ Faithful(known, rows, bound + k)
           /\ Faithful(known, rows \cup NewRows(t, bound, names, k), bound + k)
<1>1. ASSUME NEW r \in NewRows(t, bound, names, k) PROVE r.id \in bound .. bound + k - 1
  BY NewRowsAre
<1>2. ASSUME NEW n \in DOMAIN known
      PROVE  /\ known[n] \in 1 .. bound - 1 /\ known[n] \in 1 .. bound + k - 1
             /\ \A r \in rows : r.id = known[n] => r.name = n
             /\ \A r \in NewRows(t, bound, names, k) : r.id # known[n]
  BY <1>1 DEF Faithful
<1> QED BY <1>2 DEF Faithful

LEMMA LearntFaithful ==
    ASSUME NEW t, next[t] \in Nat \ {0}, NEW names, NEW k \in Nat, NEW rows,
           Numbered(rows, next[t])
    PROVE  /\ Faithful(Learnt(t, names, k), rows, next[t] + k)
           /\ Faithful(Learnt(t, names, k), rows \cup NewRows(t, next[t], names, k), next[t] + k)
<1> DEFINE new == NewRows(t, next[t], names, k)
<1> SUFFICES ASSUME NEW n \in DOMAIN Learnt(t, names, k)
             PROVE  /\ Learnt(t, names, k)[n] \in 1 .. next[t] + k - 1
                    /\ \A r \in rows \cup new : r.id = Learnt(t, names, k)[n] => r.name = n
  BY DEF Faithful
<1> DEFINE i == CHOOSE j \in 1 .. k : names[j] = n
<1>1. Learnt(t, names, k)[n] = next[t] - 1 + i
  BY DEF Learnt
<1>2. i \in 1 .. k /\ names[i] = n
  <2>1. \E j \in 1 .. k : names[j] = n
    BY DEF Learnt
  <2> QED BY <2>1
<1> HIDE DEF i
<1>3. Learnt(t, names, k)[n] \in 1 .. next[t] + k - 1
  BY <1>1, <1>2
<1>4. ASSUME NEW r \in rows PROVE r.id # Learnt(t, names, k)[n]
  BY <1>1, <1>2 DEF Numbered
<1>5. ASSUME NEW r \in new, r.id = Learnt(t, names, k)[n] PROVE r.name = n
  <2>1. PICK j \in 1 .. k : r.id = next[t] + j - 1 /\ r.name = names[j]
    BY NewRowsAre
  <2>2. j = i
    BY <1>1, <1>2, <1>5, <2>1
  <2> QED BY <1>2, <2>1, <2>2
<1> QED BY <1>3, <1>4, <1>5

LEMMA RememberFaithful ==
    ASSUME NEW rows, NEW bound, NEW known, NEW learnt,
           Faithful(known, rows, bound), Faithful(learnt, rows, bound)
    PROVE  Faithful(Remember(known, learnt), rows, bound)
BY DEF Faithful, Remember

LEMMA AddNames ==
    ASSUME NamesInv, NEW a \in Admins, NEW t \in Named, NEW names, Len(names) \in Nat,
           AddNamed(a, t, names)
    PROVE  NamesInv'
<1>1. PICK k \in Nat :
         /\ ctx' = [ctx EXCEPT ![a][t] = Remember(@, Learnt(t, names, k))]
         /\ next' = [next EXCEPT ![t] = @ + k]
         /\ \/ db' = [db EXCEPT ![t] = @ \cup NewRows(t, next[t], names, k)]
            \/ db' = db
  <2>1. PICK k \in 0 .. Len(names) :
           /\ ctx' = [ctx EXCEPT ![a][t] = Remember(@, Learnt(t, names, k))]
           /\ next' = [next EXCEPT ![t] = @ + k]
           /\ \/ Committed([db EXCEPT ![t] = @ \cup
                                {NewRow(t, next[t] + i - 1, names[i]) : i \in 1 .. k}])
              \/ db' = db
    BY DEF AddNamed
  <2>2. k \in Nat
    BY <2>1
  <2> QED BY <2>1, <2>2 DEF NewRows, Committed
<1>2. next[t] \in Nat \ {0} /\ Numbered(db[t], next[t])
  BY DEF NamesInv
<1>3. Named \subseteq Tables
  BY SevenTables DEF Named
<1>4. /\ DOMAIN db' = Tables /\ DOMAIN next' = Named /\ DOMAIN ctx' = Admins
      /\ \A b \in Admins : DOMAIN ctx'[b] = Named
  BY <1>1 DEF NamesInv
<1>5. /\ next'[t] = next[t] + k
      /\ db'[t] = db[t] \cup NewRows(t, next[t], names, k) \/ db'[t] = db[t]
      /\ \A u \in Named \ {t} : next'[u] = next[u] /\ db'[u] = db[u]
  <2>1. next'[t] = next[t] + k /\ \A u \in Named \ {t} : next'[u] = next[u]
    BY <1>1 DEF NamesInv
  <2>2. \A u \in Named \ {t} : db'[u] = db[u]
    BY <1>1, <1>3 DEF NamesInv
  <2>3. db'[t] = db[t] \cup NewRows(t, next[t], names, k) \/ db'[t] = db[t]
    BY <1>1, <1>3 DEF NamesInv
  <2> QED BY <2>1, <2>2, <2>3
<1>6. ASSUME NEW u \in Named PROVE next'[u] \in Nat \ {0} /\ Numbered(db'[u], next'[u])
  <2>1. CASE u = t
    <3>1. Numbered(db[t] \cup NewRows(t, next[t], names, k), next[t] + k)
      BY <1>2, AddNumbers
    <3>2. Numbered(db[t], next[t] + k)
      BY <1>2 DEF Numbered
    <3>3. next[t] + k \in Nat \ {0}
      BY <1>2
    <3>4. Numbered(db'[t], next'[t])
      BY <1>5, <3>1, <3>2
    <3> QED BY <1>5, <2>1, <3>3, <3>4
  <2>2. CASE u # t
    BY <1>5, <2>2 DEF NamesInv
  <2> QED BY <2>1, <2>2
<1>7. ASSUME NEW b \in Admins, NEW u \in Named PROVE Faithful(ctx'[b][u], db'[u], next'[u])
  <2>0. Faithful(ctx[b][u], db[u], next[u])
    BY DEF NamesInv
  <2>1. CASE u # t
    <3>1. ctx'[b][u] = ctx[b][u]
      BY <1>1, <2>1 DEF NamesInv
    <3> QED BY <1>5, <2>0, <2>1, <3>1
  <2>2. CASE u = t
    <3>1. Faithful(ctx[b][t], db'[t], next'[t])
      <4>1. /\ Faithful(ctx[b][t], db[t], next[t] + k)
            /\ Faithful(ctx[b][t], db[t] \cup NewRows(t, next[t], names, k), next[t] + k)
        BY <1>2, <2>0, <2>2, KnownStaysFaithful
      <4> QED BY <1>5, <4>1
    <3>2. Faithful(Learnt(t, names, k), db'[t], next'[t])
      <4>1. /\ Faithful(Learnt(t, names, k), db[t], next[t] + k)
            /\ Faithful(Learnt(t, names, k), db[t] \cup NewRows(t, next[t], names, k),
                        next[t] + k)
        BY <1>2, LearntFaithful
      <4> QED BY <1>5, <4>1
    <3>3. CASE b = a
      <4>1. ctx'[a][t] = Remember(ctx[a][t], Learnt(t, names, k))
        BY <1>1 DEF NamesInv
      <4> QED BY <2>2, <3>1, <3>2, <3>3, <4>1, RememberFaithful
    <3>4. CASE b # a
      <4>1. ctx'[b][t] = ctx[b][t]
        BY <1>1, <3>4 DEF NamesInv
      <4> QED BY <2>2, <3>1, <4>1
    <3> QED BY <3>3, <3>4
  <2> QED BY <2>1, <2>2
<1>8. GrantsReachTheirNames'
  <2>1. asked' = asked
    BY DEF AddNamed
  <2>2. \A u \in Named : db[u] \subseteq db'[u]
    BY <1>5
  <2>3. db.roles \subseteq db'.roles /\ db.permissions \subseteq db'.permissions
        /\ db.resources \subseteq db'.resources
    BY <2>2 DEF Named
  <2> QED BY <2>1, <2>3 DEF NamesInv, GrantsReachTheirNames
<1>9. next' \in [Named -> Nat \ {0}]
  BY <1>1, <1>2 DEF NamesInv
<1> QED BY <1>4, <1>6, <1>7, <1>8, <1>9 DEF NamesInv

\* A write of other tables, with the grants that were asked for.
LEMMA WriteNames ==
    ASSUME NamesInv, UNCHANGED <<ctx, next>>, DOMAIN db' = Tables,
           \A t \in Named : db'[t] = db[t],
           GrantsReachTheirNames'
    PROVE  NamesInv'
BY DEF NamesInv

LEMMA SameGrants ==
    ASSUME GrantsReachTheirNames, asked' = asked, \A t \in Named : db'[t] = db[t]
    PROVE  GrantsReachTheirNames'
<1>1. db'.roles = db.roles /\ db'.permissions = db.permissions /\ db'.resources = db.resources
  BY DEF Named
<1> QED BY <1>1 DEF GrantsReachTheirNames

LEMMA OperateNames ==
    ASSUME NamesInv, NEW a \in Admins, NEW op \in Ops, Operate(a, op)
    PROVE  NamesInv'
<1>0. CASE UNCHANGED vars
  BY <1>0 DEF vars, NamesInv, GrantsReachTheirNames
<1>w. ASSUME NEW tables, DOMAIN tables = Tables, \A t \in Named : tables[t] = db[t],
             UNCHANGED vars \/ (db' = tables /\ UNCHANGED <<ctx, next, asked>>)
      PROVE  NamesInv'
  BY <1>0, <1>w, WriteNames, SameGrants DEF NamesInv
<1>1. DOMAIN db = Tables
  BY DEF NamesInv
<1>2. Named \subseteq Tables /\ "user_roles" \notin Named /\ "role_permissions" \notin Named
      /\ "user_overrides" \notin Named /\ "role_hierarchy" \notin Named
  BY SevenTables DEF Named
<1>3. CASE op.op = "load" /\ LoadContext(a)
  <2>1. UNCHANGED <<db, next, asked>>
        /\ ctx' = [ctx EXCEPT ![a] = [t \in Named |-> NameMap(db[t])]]
    BY <1>3 DEF LoadContext
  <2>2. \A t \in Named : Faithful(NameMap(db[t]), db[t], next[t])
    BY NameMapFaithful DEF NamesInv
  <2>3. ASSUME NEW b \in Admins
        PROVE  DOMAIN ctx'[b] = Named /\ \A t \in Named : Faithful(ctx'[b][t], db[t], next[t])
    <3>1. CASE b = a
      <4>1. ctx'[b] = [t \in Named |-> NameMap(db[t])]
        BY <2>1, <3>1 DEF NamesInv
      <4> QED BY <2>2, <4>1
    <3>2. CASE b # a
      <4>1. ctx'[b] = ctx[b]
        BY <2>1, <3>2 DEF NamesInv
      <4> QED BY <4>1 DEF NamesInv
    <3> QED BY <3>1, <3>2
  <2>4. DOMAIN ctx' = Admins
    BY <2>1 DEF NamesInv
  <2> QED BY <2>1, <2>3, <2>4 DEF NamesInv, GrantsReachTheirNames
<1>4. CASE op.op = "add" /\ AddNamed(a, op.table, op.names)
  BY <1>4, AddNames, RbacAssumption
<1>5. CASE op.op = "grant" /\ GrantRole(a, op.role, op.actions, op.tables)
  <2> DEFINE rows   == RolePermissions(a, op.role, op.actions, op.tables)
             tables == [db EXCEPT !.role_permissions = @ \cup rows]
             grants == {[ids |-> [role |-> ctx[a].roles[op.role], perm |-> ctx[a].permissions[x],
                                  res |-> ctx[a].resources[y]],
                         role |-> op.role, action |-> x, table |-> y] :
                           x \in op.actions, y \in op.tables}
  <2>1. CASE /\ Knows(a, "roles", {op.role}) /\ Knows(a, "permissions", op.actions)
             /\ Knows(a, "resources", op.tables) /\ Closed(tables)
             /\ db' = tables /\ asked' = asked \cup grants /\ UNCHANGED <<ctx, next>>
    <3>1. DOMAIN tables = Tables /\ \A t \in Named : tables[t] = db[t]
      BY <1>1, <1>2
    <3>2. /\ tables.roles = db.roles /\ tables.permissions = db.permissions
          /\ tables.resources = db.resources /\ rows \subseteq tables.role_permissions
      BY <1>1, SevenTables
    <3>3. ASSUME NEW x \in op.actions, NEW y \in op.tables
          PROVE  /\ \E r \in db.roles : r.id = ctx[a].roles[op.role] /\ r.name = op.role
                 /\ \E p \in db.permissions : p.id = ctx[a].permissions[x] /\ p.name = x
                 /\ \E r \in db.resources : r.id = ctx[a].resources[y] /\ r.name = y
      <4> DEFINE row == [role |-> ctx[a].roles[op.role], perm |-> ctx[a].permissions[x],
                         res |-> ctx[a].resources[y]]
      <4>1. row \in tables.role_permissions
        BY <3>2 DEF RolePermissions
      <4>2. /\ row.role \in {r.id : r \in tables.roles}
            /\ row.perm \in {p.id : p \in tables.permissions}
            /\ row.res \in {r.id : r \in tables.resources}
        <5> HIDE DEF row, tables
        <5> QED BY <2>1, <4>1 DEF Closed
      <4>3. /\ \E r \in db.roles : r.id = ctx[a].roles[op.role]
            /\ \E p \in db.permissions : p.id = ctx[a].permissions[x]
            /\ \E r \in db.resources : r.id = ctx[a].resources[y]
        BY <3>2, <4>2
      <4>4. /\ op.role \in DOMAIN ctx[a]["roles"] /\ x \in DOMAIN ctx[a]["permissions"]
            /\ y \in DOMAIN ctx[a]["resources"]
        BY <2>1 DEF Knows
      <4>5. /\ Faithful(ctx[a]["roles"], db["roles"], next["roles"])
            /\ Faithful(ctx[a]["permissions"], db["permissions"], next["permissions"])
            /\ Faithful(ctx[a]["resources"], db["resources"], next["resources"])
        BY DEF NamesInv, Named
      <4> QED BY <4>3, <4>4, <4>5 DEF Faithful
    <3>4. ASSUME NEW g \in asked'
          PROVE  /\ \E r \in db.roles : r.id = g.ids.role /\ r.name = g.role
                 /\ \E p \in db.permissions : p.id = g.ids.perm /\ p.name = g.action
                 /\ \E r \in db.resources : r.id = g.ids.res /\ r.name = g.table
      <4>1. CASE g \in asked
        BY <4>1 DEF NamesInv, GrantsReachTheirNames
      <4>2. CASE g \in grants
        <5>1. PICK x \in op.actions, y \in op.tables :
                 g = [ids |-> [role |-> ctx[a].roles[op.role], perm |-> ctx[a].permissions[x],
                               res |-> ctx[a].resources[y]],
                      role |-> op.role, action |-> x, table |-> y]
          BY <4>2
        <5> QED BY <3>3, <5>1
      <4> QED BY <2>1, <4>1, <4>2
    <3>5. GrantsReachTheirNames'
      <4>1. db'.roles = db.roles /\ db'.permissions = db.permissions /\ db'.resources = db.resources
        BY <2>1, <3>2
      <4> QED BY <3>4, <4>1 DEF GrantsReachTheirNames
    <3> QED BY <2>1, <3>1, <3>5, WriteNames
  <2>2. UNCHANGED vars \/
             /\ Knows(a, "roles", {op.role}) /\ Knows(a, "permissions", op.actions)
             /\ Knows(a, "resources", op.tables) /\ Closed(tables)
             /\ db' = tables /\ asked' = asked \cup grants /\ UNCHANGED <<ctx, next>>
    BY <1>5 DEF GrantRole, Write, Accepts, Committed
  <2> QED BY <1>0, <2>1, <2>2
<1> USE DEF Write, Committed
<1>6. CASE op.op = "revoke" /\ RevokeRole(a, op.role, op.actions, op.tables)
  <2>1. PICK new : UNCHANGED vars \/ (/\ db' = [db EXCEPT !.role_permissions = new]
                                     /\ UNCHANGED <<ctx, next>> /\ asked' = asked \cup {})
    BY <1>6 DEF RevokeRole
  <2> QED BY <1>1, <1>2, <1>w, <2>1
<1>7. CASE op.op = "override" /\ Override(a, op.user, op.action, op.table, op.grant)
  <2>1. PICK new : UNCHANGED vars \/ (/\ db' = [db EXCEPT !.user_overrides = new]
                                     /\ UNCHANGED <<ctx, next>> /\ asked' = asked \cup {})
    BY <1>7 DEF Override
  <2> QED BY <1>1, <1>2, <1>w, <2>1
<1>8. CASE op.op = "hierarchy" /\ AddHierarchy(a, op.super, op.role)
  <2>1. PICK new : UNCHANGED vars \/ (/\ db' = [db EXCEPT !.role_hierarchy = new]
                                     /\ UNCHANGED <<ctx, next>> /\ asked' = asked \cup {})
    BY <1>8 DEF AddHierarchy
  <2> QED BY <1>1, <1>2, <1>w, <2>1
<1>9. CASE op.op = "assign" /\ AssignRole(a, op.user, op.role)
  <2>1. PICK new : UNCHANGED vars \/ (/\ db' = [db EXCEPT !.user_roles = new]
                                     /\ UNCHANGED <<ctx, next>> /\ asked' = asked \cup {})
    BY <1>9 DEF AssignRole
  <2> QED BY <1>1, <1>2, <1>w, <2>1
<1> QED BY <1>3, <1>4, <1>5, <1>6, <1>7, <1>8, <1>9 DEF Operate

LEMMA NamesStep == NamesInv /\ [Next]_vars => NamesInv'
<1> SUFFICES ASSUME NamesInv, [Next]_vars PROVE NamesInv'
  OBVIOUS
<1>1. CASE \E a \in Admins, op \in Ops : Operate(a, op)
  BY <1>1, OperateNames
<1>2. CASE UNCHANGED <<db, next, ctx, asked>>
  BY <1>2 DEF NamesInv, GrantsReachTheirNames
<1>3. (\E l \in Loaders : LoadBegin(l) \/ LoadRead(l) \/ LoadFail(l) \/ Replace(l))
         => UNCHANGED <<db, next, ctx, asked>>
  BY DEF LoadBegin, LoadRead, LoadFail, Replace, Swap
<1> QED BY <1>1, <1>2, <1>3, SessionsKeep DEF Next, vars

\* A grant reaches the role, the action and the table it was asked for by
\* name, though a context keeps the ids of inserts that were rolled back
\* (RbacContext): as long as the server gives no id out twice.
THEOREM GrantsAlwaysReach == Spec => []GrantsReachTheirNames
<1>1. NamesInv => GrantsReachTheirNames
  BY DEF NamesInv
<1> QED BY <1>1, NamesAtFirst, NamesStep, PTL DEF Spec

(***************************************************************************)
(* Type correctness, from what is known of names and loads.                *)
(***************************************************************************)
RunOK(s) == "at" \in DOMAIN run[s] /\ run[s].at \in {"idle", "walk", "decided"}

RunInv ==
    /\ DOMAIN run = Sessions
    /\ \A s \in Sessions : RunOK(s)
    /\ engine.set \in BOOLEAN
    /\ ops \in 0 .. MaxOps

LEMMA RunAtFirst == Init => RunInv
BY RbacAssumption DEF Init, RunInv, RunOK, NoRun, NoEngine

LEMMA RunStep == LoadInv /\ RunInv /\ [Next]_vars => RunInv'
<1> SUFFICES ASSUME LoadInv, RunInv, [Next]_vars PROVE RunInv'
  OBVIOUS
<1>0. MaxOps \in Nat
  BY RbacAssumption
<1>1. ASSUME NEW a \in Admins, NEW op \in Ops, Operate(a, op) PROVE RunInv'
  <2>1. UNCHANGED ops \/ (ops < MaxOps /\ ops' = ops + 1)
    BY <1>1 DEF Operate, LoadContext, AddNamed, GrantRole, RevokeRole, Override, AddHierarchy,
                AssignRole, Write, Counted, vars
  <2>2. ops' \in 0 .. MaxOps
    BY <1>0, <2>1 DEF RunInv
  <2> QED BY <1>1, <2>2, OperateLoads DEF RunInv, RunOK
<1>2. ASSUME NEW l \in Loaders, LoadBegin(l) \/ LoadRead(l) \/ LoadFail(l) PROVE RunInv'
  BY <1>2, LoadSteps DEF RunInv, RunOK
<1>3. ASSUME NEW l \in Loaders, Replace(l) PROVE RunInv'
  <2>1. run' = run /\ ops' = ops /\ engine'.set = TRUE
    BY <1>3 DEF Replace, Swap
  <2> QED BY <2>1 DEF RunInv, RunOK
<1>4. ASSUME NEW s \in Sessions, UNCHANGED <<engine, ops>>, DOMAIN run' = Sessions,
             \A q \in Sessions \ {s} : run'[q] = run[q], RunOK(s)'
      PROVE  RunInv'
  BY <1>4 DEF RunInv, RunOK
<1>a. ASSUME NEW r, "at" \in DOMAIN r, NEW i
      PROVE  "at" \in DOMAIN Ask(r, i) /\ Ask(r, i).at \in {"idle", "walk", "decided"}
  BY <1>a DEF Ask
<1>5. ASSUME NEW s \in Sessions, NEW u \in Users, NEW audit \in Audits, RunBegin(s, u, audit)
      PROVE  RunInv'
  <2> DEFINE r == [at |-> "decided", user |-> u, audit |-> audit, i |-> 0,
                   walk |-> WalkFrom(0), verdict |-> "yes"]
  <2>1. run' = [run EXCEPT ![s] = IF audit = <<>> THEN r ELSE Ask(r, 1)]
    BY <1>5 DEF RunBegin
  <2>2. "at" \in DOMAIN r /\ r.at = "decided"
    OBVIOUS
  <2>3. run'[s] = r \/ run'[s] = Ask(r, 1)
    BY <2>1 DEF RunInv
  <2>4. RunOK(s)'
    <3> HIDE DEF r
    <3> QED BY <1>a, <2>2, <2>3 DEF RunOK
  <2> QED BY <1>4, <1>5, <2>1, <2>4 DEF RunBegin, RunInv
<1>6. ASSUME NEW s \in Sessions, WalkRole(s) PROVE RunInv'
  <2>1. DOMAIN run'[s] = DOMAIN run[s] /\ run'[s].at = run[s].at
    BY <1>6 DEF WalkRole, RunInv, RunOK
  <2>2. RunOK(s)'
    BY <2>1 DEF RunInv, RunOK
  <2> QED BY <1>4, <1>6, <2>2 DEF WalkRole, RunInv
<1>7. ASSUME NEW s \in Sessions, Decide(s) PROVE RunInv'
  <2>1. run' = [run EXCEPT ![s] = Decided(@)] /\ "at" \in DOMAIN run[s]
    BY <1>7 DEF Decide, RunInv, RunOK
  <2>2. "at" \in DOMAIN Decided(run[s]) /\ Decided(run[s]).at \in {"idle", "walk", "decided"}
    BY <1>a, <2>1 DEF Decided
  <2>3. RunOK(s)'
    BY <2>1, <2>2 DEF RunOK, RunInv
  <2> QED BY <1>4, <1>7, <2>1, <2>3 DEF Decide, RunInv
<1>8. ASSUME NEW s \in Sessions, RunEnd(s) PROVE RunInv'
  <2>1. RunOK(s)'
    BY <1>8 DEF RunEnd, RunInv, RunOK, NoRun
  <2> QED BY <1>4, <1>8, <2>1 DEF RunEnd, RunInv
<1>9. CASE UNCHANGED vars
  BY <1>9 DEF vars, RunInv, RunOK
<1> QED BY <1>1, <1>2, <1>3, <1>5, <1>6, <1>7, <1>8, <1>9 DEF Next

\* Type correctness: every id the tables and the contexts hold has been given
\* out, and each load, run and the mount is in a state its code can be in.
THEOREM TypeCorrect == Spec => []TypeOK
<1>1. NamesInv /\ LoadInv /\ RunInv => TypeOK
  <2> SUFFICES ASSUME NamesInv, LoadInv, RunInv PROVE TypeOK
    OBVIOUS
  <2>1. next \in [Named -> Nat \ {0}]
    BY DEF NamesInv
  <2>2. \A t \in Named : \A r \in db[t] : r.id \in 1 .. next[t] - 1
    BY DEF NamesInv, Numbered
  <2>3. \A a \in Admins, t \in Named : \A n \in DOMAIN ctx[a][t] :
           ctx[a][t][n] \in 1 .. next[t] - 1
    BY DEF NamesInv, Faithful
  <2>4. \A l \in Loaders : load[l].at \in 0 .. Len(ReadOrder) + 1
    BY SevenTables DEF LoadInv, LoadOK
  <2> QED BY <2>1, <2>2, <2>3, <2>4 DEF TypeOK, NamesInv, RunInv, RunOK
<1> QED BY <1>1, LoadsAtFirst, LoadStep, NamesAtFirst, NamesStep, RunAtFirst, RunStep, PTL
        DEF Spec

(***************************************************************************)
(* The walk over the roles of a user stays among the roles of the engine.  *)
(***************************************************************************)
\* InIdOrder lists its ids: as many ranks as ids, no two alike.
LEMMA InIdOrderLists ==
    ASSUME NEW ids, IsFiniteSet(ids), ids \subseteq Nat
    PROVE  /\ InIdOrder(ids) \in Seq(ids)
           /\ \A x \in ids : \E i \in DOMAIN InIdOrder(ids) : InIdOrder(ids)[i] = x
<1> DEFINE n == Cardinality(ids)
           upTo(x) == {y \in ids : y <= x}
           rank == [x \in ids |-> Cardinality(upTo(x))]
<1>1. n \in Nat
  BY FS_CardinalityType
<1>2. ASSUME NEW x \in ids
      PROVE  IsFiniteSet(upTo(x)) /\ Cardinality(upTo(x)) \in 1 .. n
  <2>1. upTo(x) \in SUBSET ids /\ x \in upTo(x)
    OBVIOUS
  <2> HIDE DEF upTo
  <2>2. IsFiniteSet(upTo(x)) /\ Cardinality(upTo(x)) <= n
    BY <2>1, FS_Subset
  <2>3. Cardinality(upTo(x)) \in Nat /\ Cardinality(upTo(x)) # 0
    BY <2>1, <2>2, FS_CardinalityType, FS_EmptySet
  <2> QED BY <1>1, <2>2, <2>3
<1>3. ASSUME NEW x \in ids, NEW y \in ids, x < y
      PROVE  Cardinality(upTo(x)) # Cardinality(upTo(y))
  <2>0. x \in Nat /\ y \in Nat
    OBVIOUS
  <2>1. upTo(x) \in SUBSET upTo(y)
    <3>1. ASSUME NEW z \in ids, z <= x PROVE z <= y
      BY <1>3, <2>0, <3>1
    <3> QED BY <3>1
  <2>3. y \in upTo(y) /\ y \notin upTo(x)
    BY <1>3, <2>0
  <2>2. IsFiniteSet(upTo(y))
    BY <1>2
  <2> HIDE DEF upTo
  <2> QED BY <2>1, <2>2, <2>3, FS_Subset
<1>4. rank \in Injection(ids, 1 .. n)
  <2>1. rank \in [ids -> 1 .. n]
    BY <1>2
  <2>2. ASSUME NEW x \in ids, NEW y \in ids, rank[x] = rank[y] PROVE x = y
    <3>1. ~(x < y) /\ ~(y < x)
      BY <1>3, <2>2
    <3> QED BY <3>1
  <2> HIDE DEF rank
  <2> QED BY <2>1, <2>2 DEF Injection, IsInjective
<1>5. rank \in Surjection(ids, 1 .. n)
  <2>1. IsFiniteSet(1 .. n) /\ Cardinality(1 .. n) = n
    BY <1>1, FS_Interval
  <2> HIDE DEF rank
  <2> QED BY <1>4, <2>1, FS_Injection
<1>6. \A i \in 1 .. n : \E x \in ids : Cardinality({y \in ids : y <= x}) = i
  BY <1>5 DEF Surjection
<1>7. InIdOrder(ids) \in [1 .. n -> ids]
  BY <1>6 DEF InIdOrder
<1>8. ASSUME NEW x \in ids PROVE InIdOrder(ids)[rank[x]] = x /\ rank[x] \in 1 .. n
  <2>1. rank[x] \in 1 .. n /\ Cardinality({y \in ids : y <= x}) = rank[x]
    BY <1>2
  <2>2. InIdOrder(ids)[rank[x]] =
          CHOOSE z \in ids : Cardinality({y \in ids : y <= z}) = rank[x]
    BY <2>1 DEF InIdOrder
  <2>3. \A z \in ids : Cardinality({y \in ids : y <= z}) = rank[x] => z = x
    <3>1. ASSUME NEW z \in ids, Cardinality({y \in ids : y <= z}) = rank[x] PROVE z = x
      <4>1. rank[z] = rank[x]
        BY <3>1
      <4> HIDE DEF rank
      <4> QED BY <1>4, <4>1 DEF Injection, IsInjective
    <3> QED BY <3>1
  <2> HIDE DEF rank
  <2> QED BY <2>1, <2>2, <2>3
<1> HIDE DEF rank
<1> QED BY <1>1, <1>7, <1>8

\* Ids of roles that were read were given out.
BoundInv ==
    /\ \A r \in engine.snap.roles : r.id \in 1 .. next["roles"] - 1
    /\ \A l \in Loaders : \A r \in load[l].snap.roles : r.id \in 1 .. next["roles"] - 1

LEMMA BoundAtFirst == Init => BoundInv
BY SevenTables DEF Init, BoundInv, NoEngine, NoLoad, Empty

\* Ids are only ever given out.
LEMMA IdsGrow ==
    ASSUME NamesInv, NEW a \in Admins, NEW op \in Ops, Operate(a, op), NEW t \in Named
    PROVE  next'[t] \in Nat /\ next[t] <= next'[t]
<1>1. next' = next \/ \E u \in Named, k \in Nat : next' = [next EXCEPT ![u] = @ + k]
  <2>1. CASE op.op = "add" /\ AddNamed(a, op.table, op.names)
    <3>1. op.table \in Named /\ Len(op.names) \in Nat
      BY <2>1, RbacAssumption
    <3>2. PICK k \in 0 .. Len(op.names) : next' = [next EXCEPT ![op.table] = @ + k]
      BY <2>1 DEF AddNamed
    <3>3. k \in Nat
      BY <3>1, <3>2
    <3> QED BY <3>1, <3>2, <3>3
  <2>2. CASE ~(op.op = "add" /\ AddNamed(a, op.table, op.names))
    BY <2>2 DEF Operate, LoadContext, GrantRole, RevokeRole, Override, AddHierarchy,
                AssignRole, Write, vars
  <2> QED BY <2>1, <2>2
<1>2. next[t] \in Nat
  BY DEF NamesInv
<1> QED BY <1>1, <1>2 DEF NamesInv

LEMMA BoundStep == LoadInv /\ KeysInv /\ NamesInv /\ BoundInv /\ [Next]_vars => BoundInv'
<1> SUFFICES ASSUME LoadInv, KeysInv, NamesInv, BoundInv, [Next]_vars PROVE BoundInv'
  OBVIOUS
<1>0. "roles" \in Named /\ next["roles"] \in Nat /\ "roles" \in Tables
  BY SevenTables DEF NamesInv, Named
<1>1. ASSUME NEW a \in Admins, NEW op \in Ops, Operate(a, op) PROVE BoundInv'
  <2>2. next'["roles"] \in Nat /\ next["roles"] <= next'["roles"]
    BY <1>0, <1>1, IdsGrow
  <2>3. engine' = engine /\ \A l \in Loaders : load'[l].snap = load[l].snap
    BY <1>1, OperateLoads DEF Kept
  <2> QED BY <1>0, <2>2, <2>3 DEF BoundInv
<1>2. ASSUME NEW l \in Loaders, LoadBegin(l) \/ LoadRead(l) \/ LoadFail(l) PROVE BoundInv'
  <2>1. /\ next' = next /\ engine' = engine
        /\ \A m \in Loaders \ {l} : load'[m] = load[m]
    BY <1>2, LoadSteps DEF LoadBegin, LoadRead, LoadFail
  <2>2. load'[l].snap.roles \in {{}, db.roles, load[l].snap.roles}
    <3>1. CASE LoadBegin(l)
      <4>1. load'[l] = [NoLoad EXCEPT !.at = 1, !.from = ops]
        BY <3>1 DEF LoadBegin, LoadInv
      <4>2. load'[l].snap = Empty
        BY <4>1 DEF NoLoad
      <4> QED BY <1>0, <4>2 DEF Empty
    <3>2. CASE LoadFail(l)
      <4>1. load'[l].snap = Empty
        BY <3>2 DEF LoadFail, LoadInv, NoLoad
      <4> QED BY <1>0, <4>1 DEF Empty
    <3>3. CASE LoadRead(l)
      <4> DEFINE t == ReadOrder[load[l].at]
      <4>1. load'[l].snap = [load[l].snap EXCEPT ![t] = db[t]]
        BY <3>3 DEF LoadRead, LoadInv, LoadOK, Fields
      <4>2. DOMAIN load[l].snap = Tables
        BY DEF KeysInv, SnapOK
      <4> HIDE DEF t
      <4> QED BY <1>0, <4>1, <4>2
    <3> QED BY <1>2, <3>1, <3>2, <3>3
  <2>3. \A r \in db.roles : r.id \in 1 .. next["roles"] - 1
    BY <1>0 DEF NamesInv, Numbered
  <2> QED BY <2>1, <2>2, <2>3 DEF BoundInv
<1>3. ASSUME NEW l \in Loaders, Replace(l) PROVE BoundInv'
  <2>1. next' = next /\ engine'.snap = load[l].snap /\ load'[l].snap = Empty
    BY <1>3, ReplaceLoads DEF Replace, Swap, NoLoad
  <2>2. ASSUME NEW m \in Loaders \ {l} PROVE load'[m].snap = load[m].snap
    <3>1. load'[m] = [load[m] EXCEPT !.overtaken = load[m].at # 0]
      BY <1>3 DEF Replace, Swap
    <3> QED BY <3>1 DEF LoadInv, LoadOK, Fields
  <2>3. Empty.roles = {}
    BY <1>0 DEF Empty
  <2> QED BY <2>1, <2>2, <2>3 DEF BoundInv
<1>4. CASE UNCHANGED <<load, engine, next>>
  BY <1>4 DEF BoundInv
<1> QED BY <1>1, <1>2, <1>3, <1>4, SessionsKeep DEF Next, vars

\* The roles of the engine, and a walk that is among them.
RolesOf(snap) == {r.id : r \in snap.roles}

WalkOK(snap, w) ==
    /\ DOMAIN w = {"root", "queue", "roles"}
    /\ w.queue \in Seq(RolesOf(snap)) /\ w.roles \subseteq RolesOf(snap)

RunFields == {"at", "user", "audit", "i", "walk", "verdict"}

WalkInv ==
    \A s \in Sessions :
        \/ run[s].at = "idle"
        \/ /\ DOMAIN run[s] = RunFields
           /\ engine.torn \/ run[s].at = "decided" \/ WalkOK(engine.snap, run[s].walk)
           /\ engine.torn \/ run[s].at = "walk" \/ run[s].verdict # "role not found"

\* One session's part, on an engine that nothing moves.
RunWalks(r) ==
    /\ DOMAIN r = RunFields
    /\ engine.torn \/ r.at = "decided" \/ WalkOK(engine.snap, r.walk)
    /\ engine.torn \/ r.at = "walk" \/ r.verdict # "role not found"

LEMMA AskWalks ==
    ASSUME KeysInv, NEW r, DOMAIN r = RunFields, NEW i
    PROVE  RunWalks(Ask(r, i))
<1>1. CASE HasRole(engine.snap, r.user)
  <2> DEFINE root == RoleOf(engine.snap, r.user)
             new == [r EXCEPT !.at = "walk", !.i = i, !.walk = WalkFrom(root)]
  <2>1. Ask(r, i) = new
    BY <1>1 DEF Ask
  <2>2. DOMAIN new = RunFields /\ new.at = "walk" /\ new.walk = WalkFrom(root)
    BY DEF RunFields
  <2>3. engine.torn \/ root \in RolesOf(engine.snap)
    <3>1. \E ur \in engine.snap.user_roles : ur.user = r.user
      BY <1>1 DEF HasRole
    <3> DEFINE ur == CHOOSE x \in engine.snap.user_roles : x.user = r.user
    <3>2. ur \in engine.snap.user_roles /\ root = ur.role
      BY <3>1 DEF RoleOf
    <3> HIDE DEF ur, root
    <3> QED BY <3>2 DEF KeysInv, KeysHold, Closed, RolesOf
  <2>4. engine.torn \/ WalkOK(engine.snap, WalkFrom(root))
    <3> HIDE DEF root
    <3> QED BY <2>3 DEF WalkOK, WalkFrom
  <2> HIDE DEF new
  <2> QED BY <2>1, <2>2, <2>4 DEF RunWalks
<1>2. CASE ~HasRole(engine.snap, r.user)
  <2>1. Ask(r, i) = [r EXCEPT !.at = "decided", !.i = i, !.verdict = "user not found"]
    BY <1>2 DEF Ask
  <2>2. DOMAIN Ask(r, i) = RunFields /\ Ask(r, i).at = "decided"
        /\ Ask(r, i).verdict = "user not found"
    BY <2>1 DEF RunFields
  <2> QED BY <2>2 DEF RunWalks
<1> QED BY <1>1, <1>2

LEMMA StepWalks ==
    ASSUME KeysInv, NamesInv, BoundInv, ~engine.torn, NEW w, WalkOK(engine.snap, w), w.queue # <<>>
    PROVE  WalkOK(engine.snap, WalkStep(engine.snap, w))
<1> DEFINE R == RolesOf(engine.snap)
           role == Head(w.queue)
           below == Children(engine.snap, role) \ {w.root}
<1>1. role \in R /\ Tail(w.queue) \in Seq(R)
  BY DEF WalkOK
<1>2. below \in SUBSET R
  BY DEF KeysInv, KeysHold, Closed, Children, RolesOf
<1>3. R \in SUBSET (1 .. next["roles"] - 1) /\ next["roles"] \in Nat
  BY DEF BoundInv, RolesOf, NamesInv, Named
<1>4. IsFiniteSet(below) /\ below \subseteq Nat
  <2>1. IsFiniteSet(1 .. next["roles"] - 1)
    BY <1>3, FS_Interval
  <2>2. below \in SUBSET (1 .. next["roles"] - 1)
    BY <1>2, <1>3
  <2> HIDE DEF below
  <2>3. IsFiniteSet(below)
    BY <2>1, <2>2, FS_Subset
  <2> QED BY <1>3, <2>2, <2>3
<1>5. InIdOrder(below) \in Seq(R)
  <2> HIDE DEF below, R
  <2>1. InIdOrder(below) \in Seq(below)
    BY <1>4, InIdOrderLists
  <2> QED BY <1>2, <2>1
<1>6. WalkStep(engine.snap, w) = [w EXCEPT !.queue = Tail(w.queue) \o InIdOrder(below),
                                           !.roles = @ \cup {role}]
  BY DEF WalkStep
<1> HIDE DEF below, role
<1>7. Tail(w.queue) \o InIdOrder(below) \in Seq(R) /\ w.roles \cup {role} \subseteq R
  BY <1>1, <1>5 DEF WalkOK
<1> QED BY <1>6, <1>7 DEF WalkOK

LEMMA WalkAtFirst == Init => WalkInv
<1> SUFFICES ASSUME Init, NEW s \in Sessions PROVE run[s].at = "idle"
  BY DEF WalkInv
<1> QED BY DEF Init, NoRun

LEMMA WalkInvStep ==
    LoadInv /\ KeysInv /\ NamesInv /\ BoundInv /\ RunInv /\ WalkInv /\ [Next]_vars => WalkInv'
<1> SUFFICES ASSUME LoadInv, KeysInv, NamesInv, BoundInv, RunInv, WalkInv, [Next]_vars
             PROVE  WalkInv'
  OBVIOUS
<1>1. CASE UNCHANGED <<run, engine>>
  BY <1>1 DEF WalkInv, WalkOK
<1>2. ASSUME NEW l \in Loaders, Replace(l) PROVE WalkInv'
  BY <1>2 DEF Replace, Swap, Deciding, WalkInv
<1>3. ASSUME NEW s \in Sessions, UNCHANGED engine, DOMAIN run' = Sessions,
             \A q \in Sessions \ {s} : run'[q] = run[q],
             run'[s].at = "idle" \/ RunWalks(run'[s])
      PROVE  WalkInv'
  BY <1>3 DEF WalkInv, RunWalks, WalkOK
<1>4. ASSUME NEW s \in Sessions, NEW u \in Users, NEW audit \in Audits, RunBegin(s, u, audit)
      PROVE  WalkInv'
  <2> DEFINE r == [at |-> "decided", user |-> u, audit |-> audit, i |-> 0,
                   walk |-> WalkFrom(0), verdict |-> "yes"]
  <2>1. run' = [run EXCEPT ![s] = IF audit = <<>> THEN r ELSE Ask(r, 1)]
    BY <1>4 DEF RunBegin
  <2>2. DOMAIN r = RunFields /\ r.at = "decided" /\ r.verdict = "yes"
    BY DEF RunFields
  <2>3. run'[s] = r \/ run'[s] = Ask(r, 1)
    BY <2>1 DEF RunInv
  <2> HIDE DEF r
  <2>4. RunWalks(r) /\ RunWalks(Ask(r, 1))
    BY <2>2, AskWalks DEF RunWalks
  <2> QED BY <1>3, <1>4, <2>1, <2>3, <2>4 DEF RunBegin, RunInv
<1>5. ASSUME NEW s \in Sessions, WalkRole(s) PROVE WalkInv'
  <2>1. /\ run[s].at = "walk" /\ run[s].walk.queue # <<>>
        /\ run' = [run EXCEPT ![s].walk = WalkStep(engine.snap, @)]
    BY <1>5 DEF WalkRole
  <2>2. DOMAIN run[s] = RunFields /\ (engine.torn \/ WalkOK(engine.snap, run[s].walk))
    BY <2>1 DEF WalkInv
  <2>3. /\ DOMAIN run'[s] = RunFields /\ run'[s].at = "walk"
        /\ run'[s].walk = WalkStep(engine.snap, run[s].walk)
    BY <2>1, <2>2 DEF RunInv, RunFields
  <2>4. engine.torn \/ WalkOK(engine.snap, WalkStep(engine.snap, run[s].walk))
    BY <2>1, <2>2, StepWalks
  <2>5. RunWalks(run'[s])
    BY <2>3, <2>4 DEF RunWalks
  <2> QED BY <1>3, <1>5, <2>1, <2>5 DEF WalkRole, RunInv
<1>6. ASSUME NEW s \in Sessions, Decide(s) PROVE WalkInv'
  <2>1. run[s].at = "walk" /\ run' = [run EXCEPT ![s] = Decided(@)]
    BY <1>6 DEF Decide
  <2>2. DOMAIN run[s] = RunFields /\ (engine.torn \/ WalkOK(engine.snap, run[s].walk))
    BY <2>1 DEF WalkInv
  <2> DEFINE r == run[s]
             v == UserCan(engine.snap, r.user, r.audit[r.i], r.walk.roles)
  <2>3. engine.torn \/ v # "role not found"
    <3>1. engine.torn \/ r.walk.roles \subseteq {x.id : x \in engine.snap.roles}
      BY <2>2 DEF WalkOK, RolesOf
    <3> QED BY <3>1 DEF UserCan
  <2> HIDE DEF v
  <2>4. \/ Decided(r) = Ask(r, r.i + 1)
        \/ Decided(r) = [r EXCEPT !.at = "decided", !.verdict = v]
    BY DEF Decided, v
  <2>5. RunWalks([r EXCEPT !.at = "decided", !.verdict = v])
    BY <2>2, <2>3 DEF RunWalks, RunFields
  <2>6. RunWalks(Decided(r))
    BY <2>2, <2>4, <2>5, AskWalks
  <2>7. run'[s] = Decided(r)
    BY <2>1 DEF RunInv
  <2> QED BY <1>3, <1>6, <2>1, <2>6, <2>7 DEF Decide, RunInv
<1>7. ASSUME NEW s \in Sessions, RunEnd(s) PROVE WalkInv'
  BY <1>3, <1>7 DEF RunEnd, RunInv, NoRun
<1>8. ASSUME NEW l \in Loaders, LoadBegin(l) \/ LoadRead(l) \/ LoadFail(l) PROVE WalkInv'
  BY <1>1, <1>8, LoadSteps
<1>9. ASSUME NEW a \in Admins, NEW op \in Ops, Operate(a, op) PROVE WalkInv'
  BY <1>1, <1>9, OperateLoads
<1> QED BY <1>1, <1>2, <1>4, <1>5, <1>6, <1>7, <1>8, <1>9 DEF Next, vars

\* A decision fails for a role that is not there only on an engine whose load
\* a commit fell into: get_user_role_ids, on every engine that was read whole,
\* finds every role that enumerate_role lists.
THEOREM MissingRoleIsAlwaysTorn == Spec => []MissingRoleIsTorn
<1>1. KeysInv /\ WalkInv => MissingRoleIsTorn
  BY DEF KeysInv, KeysHold, WalkInv, MissingRoleIsTorn
<1> QED BY <1>1, LoadsAtFirst, LoadStep, KeysAtFirst, KeysStep, NamesAtFirst, NamesStep,
           BoundAtFirst, BoundStep, RunAtFirst, RunStep, WalkAtFirst, WalkInvStep, PTL
        DEF Spec

(***************************************************************************)
(* Decisions: the walk of the role hierarchy lists the roles below the one *)
(* it begins at, user_can permits what the rows permit, and what is listed *)
(* for a user agrees with it.                                              *)
(***************************************************************************)

(***************************************************************************)
(* The least set of roles that holds a role and inherits.                  *)
(***************************************************************************)
LEMMA RootIsBelow == ASSUME NEW snap, NEW root PROVE root \in Below(snap, root)
BY DEF Below

LEMMA ChildIsBelow ==
    ASSUME NEW snap, NEW root, NEW r \in Below(snap, root), NEW c \in Children(snap, r)
    PROVE  c \in Below(snap, root)
<1>1. PICK e \in snap.role_hierarchy : e.super = r /\ e.role = c
  BY DEF Children
<1>2. c \in RolesIn(snap)
  BY <1>1 DEF RolesIn
<1>3. ASSUME NEW S \in SUBSET (RolesIn(snap) \cup {root}), root \in S, Inherits(snap, S)
      PROVE  c \in S
  <2>1. r \in S
    BY <1>3 DEF Below
  <2> QED BY <1>1, <1>3, <2>1 DEF Inherits
<1> QED BY <1>2, <1>3 DEF Below

LEMMA BelowIsLeast ==
    ASSUME NEW snap, NEW root, NEW S \in SUBSET Below(snap, root), root \in S,
           \A r \in S : Children(snap, r) \subseteq S
    PROVE  S = Below(snap, root)
<1>1. S \in SUBSET (RolesIn(snap) \cup {root})
  BY DEF Below
<1>2. Inherits(snap, S)
  BY DEF Inherits, Children
<1> QED BY <1>1, <1>2 DEF Below

(***************************************************************************)
(* A walk has listed roles below its root only, and the children of those  *)
(* it has listed are listed or queued: when the queue is empty it has all. *)
(***************************************************************************)
Queued(w, r) == \E i \in DOMAIN w.queue : w.queue[i] = r

Walking(snap, w) ==
    /\ DOMAIN w = {"root", "queue", "roles"}
    /\ w.queue \in Seq(Below(snap, w.root)) /\ w.roles \subseteq Below(snap, w.root)
    /\ w.root \in w.roles \/ Queued(w, w.root)
    /\ \A r \in w.roles : \A c \in Children(snap, r) :
          c = w.root \/ c \in w.roles \/ Queued(w, c)

LEMMA WalkBegins ==
    ASSUME NEW snap, NEW root
    PROVE  Walking(snap, WalkFrom(root)) /\ WalkFrom(root).root = root
<1>1. DOMAIN <<root>> = 1 .. 1 /\ <<root>>[1] = root
  OBVIOUS
<1>2. WalkFrom(root).queue = <<root>> /\ WalkFrom(root).roles = {} /\ WalkFrom(root).root = root
      /\ DOMAIN WalkFrom(root) = {"root", "queue", "roles"}
  BY DEF WalkFrom
<1>3. <<root>> \in Seq(Below(snap, root))
  BY RootIsBelow
<1>4. Queued(WalkFrom(root), root)
  BY <1>1, <1>2 DEF Queued
<1> QED BY <1>2, <1>3, <1>4 DEF Walking

LEMMA WalkLists ==
    ASSUME NEW snap, NEW w, Walking(snap, w), w.queue = <<>>
    PROVE  w.roles = Below(snap, w.root)
<1>1. \A r : ~Queued(w, r)
  BY DEF Queued
<1>2. w.root \in w.roles /\ \A r \in w.roles : Children(snap, r) \subseteq w.roles
  BY <1>1 DEF Walking
<1> QED BY <1>2, BelowIsLeast DEF Walking

\* The members of a queue whose head was taken and to which a list was added.
LEMMA QueueGrows ==
    ASSUME NEW A, NEW q \in Seq(A), q # <<>>, NEW l \in Seq(A)
    PROVE  /\ Head(q) \in A /\ Tail(q) \o l \in Seq(A)
           /\ \A i \in DOMAIN q : q[i] = Head(q)
                 \/ \E j \in DOMAIN (Tail(q) \o l) : (Tail(q) \o l)[j] = q[i]
           /\ \A i \in DOMAIN l : \E j \in DOMAIN (Tail(q) \o l) : (Tail(q) \o l)[j] = l[i]
<1> DEFINE t == Tail(q)
<1>1. /\ Len(q) \in Nat /\ Len(q) > 0 /\ DOMAIN q = 1 .. Len(q) /\ Head(q) = q[1]
      /\ t \in Seq(A) /\ Len(t) = Len(q) - 1 /\ \A j \in 1 .. Len(q) - 1 : t[j] = q[j + 1]
      /\ Len(l) \in Nat /\ DOMAIN l = 1 .. Len(l)
  OBVIOUS
<1>2. /\ t \o l \in Seq(A) /\ Len(t \o l) = Len(t) + Len(l)
      /\ DOMAIN (t \o l) = 1 .. Len(t) + Len(l)
      /\ \A j \in 1 .. Len(t) : (t \o l)[j] = t[j]
      /\ \A j \in 1 .. Len(l) : (t \o l)[Len(t) + j] = l[j]
  <2> HIDE DEF t
  <2>0. t \in Seq(A) /\ l \in Seq(A) /\ Len(t) \in Nat /\ Len(l) \in Nat
    BY <1>1
  <2>1. /\ t \o l \in Seq(A) /\ Len(t \o l) = Len(t) + Len(l)
        /\ \A i \in 1 .. Len(t) + Len(l) : (t \o l)[i] =
              IF i <= Len(t) THEN t[i] ELSE l[i - Len(t)]
    BY <2>0, ConcatProperties
  <2>2. DOMAIN (t \o l) = 1 .. Len(t \o l)
    BY <2>1
  <2>3. \A j \in 1 .. Len(t) : (t \o l)[j] = t[j]
    BY <2>0, <2>1
  <2>4. ASSUME NEW j \in 1 .. Len(l) PROVE (t \o l)[Len(t) + j] = l[j]
    <3>1. Len(t) + j \in 1 .. Len(t) + Len(l) /\ ~(Len(t) + j <= Len(t))
          /\ (Len(t) + j) - Len(t) = j
      BY <2>0
    <3> QED BY <2>1, <3>1
  <2> QED BY <2>1, <2>2, <2>3, <2>4
<1> HIDE DEF t
<1>3. ASSUME NEW i \in DOMAIN q, q[i] # Head(q)
      PROVE  \E j \in DOMAIN (t \o l) : (t \o l)[j] = q[i]
  <2>1. i - 1 \in 1 .. Len(t) /\ i - 1 \in 1 .. Len(q) - 1 /\ (i - 1) + 1 = i
    BY <1>1, <1>3
  <2>2. (t \o l)[i - 1] = q[i]
    BY <1>1, <1>2, <2>1
  <2>3. i - 1 \in DOMAIN (t \o l)
    BY <1>1, <1>2, <2>1
  <2> QED BY <2>2, <2>3
<1>4. ASSUME NEW i \in DOMAIN l
      PROVE  \E j \in DOMAIN (t \o l) : (t \o l)[j] = l[i]
  <2>1. i \in 1 .. Len(l) /\ Len(t) + i \in 1 .. Len(t) + Len(l)
    BY <1>1
  <2> QED BY <1>2, <2>1
<1> QED BY <1>1, <1>2, <1>3, <1>4 DEF t

LEMMA WalkGoesOn ==
    ASSUME NEW snap, NEW n \in Nat, \A e \in snap.role_hierarchy : e.role \in 1 .. n,
           NEW w, Walking(snap, w), w.queue # <<>>
    PROVE  Walking(snap, WalkStep(snap, w)) /\ WalkStep(snap, w).root = w.root
<1> DEFINE B == Below(snap, w.root)
           role == Head(w.queue)
           kids == Children(snap, role) \ {w.root}
           list == InIdOrder(kids)
           next1 == WalkStep(snap, w)
<1>1. role \in B
  BY DEF Walking
<1>2. kids \in SUBSET B
  <2> HIDE DEF role
  <2> QED BY <1>1, ChildIsBelow
<1>3. IsFiniteSet(kids) /\ kids \subseteq Nat
  <2>1. kids \in SUBSET (1 .. n)
    BY DEF Children
  <2>2. IsFiniteSet(1 .. n)
    BY FS_Interval
  <2> HIDE DEF kids
  <2> QED BY <2>1, <2>2, FS_Subset
<1>4. list \in Seq(B) /\ \A x \in kids : \E i \in DOMAIN list : list[i] = x
  <2> HIDE DEF kids, B
  <2>1. InIdOrder(kids) \in Seq(kids)
        /\ \A x \in kids : \E i \in DOMAIN InIdOrder(kids) : InIdOrder(kids)[i] = x
    BY <1>3, InIdOrderLists
  <2> QED BY <1>2, <2>1
<1>5. next1 = [w EXCEPT !.queue = Tail(w.queue) \o list, !.roles = @ \cup {role}]
  BY DEF WalkStep
<1>6. /\ DOMAIN next1 = {"root", "queue", "roles"} /\ next1.root = w.root
      /\ next1.queue = Tail(w.queue) \o list /\ next1.roles = w.roles \cup {role}
  <2> HIDE DEF next1, list, role
  <2> QED BY <1>5 DEF Walking
<1> HIDE DEF list, kids, next1
<1>7. /\ next1.queue \in Seq(B)
      /\ \A r : Queued(w, r) => r = role \/ Queued(next1, r)
      /\ \A r \in kids : Queued(next1, r)
  <2>1. w.queue \in Seq(B)
    BY DEF Walking
  <2> HIDE DEF B
  <2> DEFINE q == w.queue
  <2>2. /\ Tail(q) \o list \in Seq(B)
        /\ \A i \in DOMAIN q : q[i] = Head(q)
                 \/ \E j \in DOMAIN (Tail(q) \o list) : (Tail(q) \o list)[j] = q[i]
        /\ \A i \in DOMAIN list : \E j \in DOMAIN (Tail(q) \o list) :
                 (Tail(q) \o list)[j] = list[i]
    <3> HIDE DEF q
    <3>1. q \in Seq(B) /\ q # <<>> /\ list \in Seq(B)
      BY <1>4, <2>1 DEF q
    <3> QED BY <3>1, QueueGrows
  <2> HIDE DEF q
  <2>3. next1.queue = Tail(q) \o list /\ w.queue = q /\ role = Head(q)
    BY <1>6 DEF q
  <2> HIDE DEF role
  <2>4. ASSUME NEW r, Queued(w, r) PROVE r = role \/ Queued(next1, r)
    BY <2>2, <2>3, <2>4 DEF Queued
  <2>5. ASSUME NEW r \in kids PROVE Queued(next1, r)
    <3>1. PICK i \in DOMAIN list : list[i] = r
      BY <1>4
    <3>2. PICK j \in DOMAIN (Tail(q) \o list) : (Tail(q) \o list)[j] = list[i]
      BY <2>2
    <3> QED BY <2>3, <3>1, <3>2 DEF Queued
  <2> QED BY <2>2, <2>3, <2>4, <2>5
<1>8. ASSUME NEW r \in next1.roles, NEW c \in Children(snap, r), c # w.root
      PROVE  c \in next1.roles \/ Queued(next1, c)
  <2>1. CASE r = role
    BY <1>7, <1>8, <2>1 DEF kids
  <2>2. CASE r \in w.roles
    BY <1>6, <1>7, <1>8, <2>2 DEF Walking
  <2> QED BY <1>6, <2>1, <2>2
<1>9. w.root \in next1.roles \/ Queued(next1, w.root)
  BY <1>6, <1>7 DEF Walking
<1>10. next1.roles \subseteq B
  BY <1>1, <1>6 DEF Walking
<1> QED BY <1>6, <1>7, <1>8, <1>9, <1>10 DEF Walking, next1

(***************************************************************************)
(* user_can and what is listed, on the roles below the user's.             *)
(***************************************************************************)
\* user_overrides has one row for a user, a permission and a resource.
OverridesOK(rows) ==
    /\ \A o \in rows : /\ o = [user |-> o.user, perm |-> o.perm, res |-> o.res,
                               grant |-> o.grant]
                        /\ o.grant \in BOOLEAN
    /\ \A o, q \in rows : o.user = q.user /\ o.perm = q.perm /\ o.res = q.res => o = q

LEMMA OneOverride ==
    ASSUME NEW snap, OverridesOK(snap.user_overrides), NEW u, NEW perm, NEW res,
           NEW o \in OverridesOf(snap, u, perm, res), NEW q \in OverridesOf(snap, u, perm, res)
    PROVE  o = q /\ o.grant \in BOOLEAN
BY DEF OverridesOK, OverridesOf

LEMMA RoleAllowsWhatItCovers ==
    ASSUME NEW snap, NEW role, NEW req
    PROVE  RoleAllows(snap, role, PermissionOf(snap, req), ResourceOf(snap, req))
              <=> \E rp \in snap.role_permissions : rp.role = role /\ Covers(snap, rp, req)
<1> DEFINE perm == PermissionOf(snap, req)
           res  == ResourceOf(snap, req)
<1>1. ASSUME NEW rp
      PROVE  Covers(snap, rp, req) <=>
                LET wildPerm == WildPermission(snap, rp.perm)
                    wildRes  == WildResourceFits(snap, rp.res, res) IN
                \/ perm # Nothing /\ res # Nothing /\ rp.perm = perm.id /\ rp.res = res.id
                \/ res # Nothing /\ rp.res = res.id /\ wildPerm
                \/ perm # Nothing /\ rp.perm = perm.id /\ wildRes
                \/ wildPerm /\ wildRes
  BY DEF Covers
<1> QED BY <1>1 DEF RoleAllows

\* user_can, given all the roles below the user's, permits what the rows permit.
LEMMA UserCanIsRight ==
    ASSUME NEW snap, OverridesOK(snap.user_overrides), NEW u, NEW req
    PROVE  LET v == UserCan(snap, u, req, Below(snap, RoleOf(snap, u))) IN
           /\ v = "yes" => Permits(snap, u, req)
           /\ v = "no" => ~Permits(snap, u, req)
<1> DEFINE perm  == PermissionOf(snap, req)
           res   == ResourceOf(snap, req)
           over  == OverridesOf(snap, u, perm, res)
           roles == Below(snap, RoleOf(snap, u))
           v     == UserCan(snap, u, req, roles)
           some  == \E role \in roles : RoleAllows(snap, role, perm, res)
<1>1. v = IF ~(roles \subseteq {r.id : r \in snap.roles}) THEN "role not found"
          ELSE IF over # {} THEN IF \E o \in over : o.grant THEN "yes" ELSE "no"
          ELSE IF some THEN "yes"
          ELSE IF res = Nothing THEN "resource not found"
          ELSE IF perm = Nothing THEN "permission not found"
          ELSE "no"
  BY DEF UserCan
<1>2. Permits(snap, u, req) = IF over # {} THEN \A o \in over : o.grant
                              ELSE \E rp \in snap.role_permissions :
                                      rp.role \in roles /\ Covers(snap, rp, req)
  BY DEF Permits
<1>3. some <=> \E rp \in snap.role_permissions : rp.role \in roles /\ Covers(snap, rp, req)
  <2> HIDE DEF roles
  <2> QED BY RoleAllowsWhatItCovers
<1>4. over # {} => ((\E o \in over : o.grant) <=> \A o \in over : o.grant)
  BY OneOverride
<1> HIDE DEF v, over, roles, some, res, perm
<1>5. /\ v = "yes" => Permits(snap, u, req)
      /\ v = "no" => ~Permits(snap, u, req)
  <2>1. CASE over # {}
    BY <1>1, <1>2, <1>4, <2>1
  <2>2. CASE over = {}
    BY <1>1, <1>2, <1>3, <2>2
  <2> QED BY <2>1, <2>2
<1> QED BY <1>5 DEF v, roles

\* What is listed for a user agrees with what is decided, as long as no override
\* names a wildcard.
LEMMA ListIsRight ==
    ASSUME NEW snap, OverridesOK(snap.user_overrides), NEW u, NEW req,
           \A o \in snap.user_overrides : Plain(snap, o)
    PROVE  LET perm == PermissionOf(snap, req)
               res  == ResourceOf(snap, req)
               list == Listed(snap, u, Below(snap, RoleOf(snap, u))) IN
           /\ perm # Nothing /\ res # Nothing /\ <<perm.id, res.id>> \in list
                => Permits(snap, u, req)
           /\ Permits(snap, u, req) =>
                \E pr \in list : Covers(snap, [perm |-> pr[1], res |-> pr[2]], req)
<1> DEFINE perm  == PermissionOf(snap, req)
           res   == ResourceOf(snap, req)
           over  == OverridesOf(snap, u, perm, res)
           roles == Below(snap, RoleOf(snap, u))
           own(grant) == {<<o.perm, o.res>> :
                            o \in {x \in snap.user_overrides : x.user = u /\ x.grant = grant}}
           theirs == {<<rp.perm, rp.res>> : rp \in {x \in snap.role_permissions : x.role \in roles}}
           list  == Listed(snap, u, roles)
           covered == \E rp \in snap.role_permissions : rp.role \in roles /\ Covers(snap, rp, req)
<1>1. list = (theirs \ own(FALSE)) \cup own(TRUE)
  BY DEF Listed
<1>2. Permits(snap, u, req) = IF over # {} THEN \A o \in over : o.grant ELSE covered
  BY DEF Permits
<1>3. ASSUME NEW o \in over PROVE /\ <<o.perm, o.res>> \in own(o.grant)
                                  /\ o.perm = perm.id /\ o.res = res.id
                                  /\ perm # Nothing /\ res # Nothing
                                  /\ o.grant \in BOOLEAN
                                  /\ \A q \in over : q = o
  <2>1. /\ o \in snap.user_overrides /\ o.user = u /\ o.perm = perm.id /\ o.res = res.id
        /\ perm # Nothing /\ res # Nothing
    BY DEF OverridesOf
  <2>2. o \in {x \in snap.user_overrides : x.user = u /\ x.grant = o.grant}
    BY <2>1
  <2>3. o.grant \in BOOLEAN /\ \A q \in over : q = o
    BY OneOverride
  <2> QED BY <2>1, <2>2, <2>3
<1>4. ASSUME NEW g, perm # Nothing, res # Nothing, <<perm.id, res.id>> \in own(g)
      PROVE  \E o \in over : o.grant = g
  <2>1. PICK o \in snap.user_overrides :
              o.user = u /\ o.grant = g /\ <<o.perm, o.res>> = <<perm.id, res.id>>
    BY <1>4
  <2> QED BY <1>4, <2>1 DEF OverridesOf
\* A pair that is listed is permitted.
<1>5. ASSUME perm # Nothing, res # Nothing, <<perm.id, res.id>> \in list
      PROVE  Permits(snap, u, req)
  <2>1. CASE over # {}
    <3>1. PICK o \in over : TRUE
      BY <2>1
    <3>2. o.grant
      <4> SUFFICES ASSUME ~o.grant PROVE FALSE
        OBVIOUS
      <4>1. o.grant = FALSE
        BY <1>3
      <4>2. <<perm.id, res.id>> \in own(FALSE) /\ <<perm.id, res.id>> \in own(TRUE)
        <5> HIDE DEF own
        <5> QED BY <1>1, <1>3, <1>5, <4>1
      <4>3. PICK q \in over : q.grant = TRUE
        BY <1>4, <1>5, <4>2
      <4> QED BY <1>3, <4>1, <4>3
    <3> QED BY <1>2, <1>3, <3>2
  <2>2. CASE over = {}
    <3>1. <<perm.id, res.id>> \notin own(TRUE)
      BY <1>4, <1>5, <2>2
    <3>2. PICK rp \in snap.role_permissions :
                rp.role \in roles /\ <<rp.perm, rp.res>> = <<perm.id, res.id>>
      <4> HIDE DEF own, list
      <4> QED BY <1>1, <1>5, <3>1
    <3>3. Covers(snap, rp, req)
      BY <1>5, <3>2 DEF Covers
    <3> QED BY <1>2, <2>2, <3>2, <3>3
  <2> QED BY <2>1, <2>2
\* What is permitted is listed, or a wildcard that covers it is.
<1>6. ASSUME Permits(snap, u, req)
      PROVE  \E pr \in list : Covers(snap, [perm |-> pr[1], res |-> pr[2]], req)
  <2>0. ASSUME NEW rp, <<rp.perm, rp.res>> \in list, Covers(snap, rp, req)
        PROVE  \E pr \in list : Covers(snap, [perm |-> pr[1], res |-> pr[2]], req)
    <3> DEFINE pr == <<rp.perm, rp.res>>
    <3>1. Covers(snap, [perm |-> pr[1], res |-> pr[2]], req)
      BY <2>0 DEF Covers
    <3> QED BY <2>0, <3>1
  <2>1. CASE over # {}
    <3>1. PICK o \in over : TRUE
      BY <2>1
    <3>2. o.grant = TRUE
      BY <1>2, <1>3, <1>6, <2>1, <3>1
    <3>3. <<o.perm, o.res>> \in list
      <4> HIDE DEF own, list
      <4> QED BY <1>1, <1>3, <3>2
    <3>4. Covers(snap, o, req)
      BY <1>3 DEF Covers
    <3> HIDE DEF list
    <3> QED BY <2>0, <3>3, <3>4
  <2>2. CASE over = {}
    <3>1. PICK rp \in snap.role_permissions : rp.role \in roles /\ Covers(snap, rp, req)
      BY <1>2, <1>6, <2>2
    <3>2. <<rp.perm, rp.res>> \in theirs
      BY <3>1
    <3>3. <<rp.perm, rp.res>> \notin own(FALSE)
      <4> SUFFICES ASSUME <<rp.perm, rp.res>> \in own(FALSE) PROVE FALSE
        OBVIOUS
      <4>1. PICK o \in snap.user_overrides :
                  o.user = u /\ o.grant = FALSE /\ <<o.perm, o.res>> = <<rp.perm, rp.res>>
        OBVIOUS
      <4>2. Plain(snap, o) /\ o.perm = rp.perm /\ o.res = rp.res
        BY <4>1
      <4>3. perm # Nothing /\ rp.perm = perm.id
        BY <3>1, <4>2 DEF Covers, Plain
      <4>4. res # Nothing /\ rp.res = res.id
        BY <3>1, <4>2 DEF Covers, Plain, WildResourceFits
      <4>5. o \in over
        BY <4>1, <4>2, <4>3, <4>4 DEF OverridesOf
      <4> QED BY <2>2, <4>5
    <3>4. <<rp.perm, rp.res>> \in list
      <4> HIDE DEF own, list, theirs
      <4> QED BY <1>1, <3>2, <3>3
    <3> HIDE DEF list
    <3> QED BY <2>0, <3>1, <3>4
  <2> QED BY <2>1, <2>2
<1> QED BY <1>5, <1>6

(***************************************************************************)
(* The rows the engine and the loads hold.                                 *)
(***************************************************************************)
SnapRows(snap) ==
    /\ OverridesOK(snap.user_overrides)
    /\ \A e \in snap.role_hierarchy : e.role \in 1 .. next["roles"] - 1

RowsInv ==
    /\ OverridesOK(db.user_overrides)
    /\ SnapRows(engine.snap)
    /\ \A l \in Loaders : SnapRows(load[l].snap)

LEMMA EmptyRows == SnapRows(Empty)
BY SevenTables DEF SnapRows, Empty, OverridesOK

LEMMA RowsAtFirst == Init => RowsInv
<1> SUFFICES ASSUME Init PROVE RowsInv
  OBVIOUS
<1>1. OverridesOK(db.user_overrides)
  BY RbacAssumption DEF Init, SeedOK, OverridesOK
<1>2. engine.snap = Empty /\ \A l \in Loaders : load[l].snap = Empty
  BY DEF Init, NoEngine, NoLoad
<1> QED BY <1>1, <1>2, EmptyRows DEF RowsInv

\* Replacing what is there already leaves one override for each key.
LEMMA OverrideKeepsOne ==
    ASSUME NEW rows, OverridesOK(rows), NEW u, NEW perm, NEW res, NEW grant \in BOOLEAN
    PROVE  LET row == [user |-> u, perm |-> perm, res |-> res, grant |-> grant] IN
           OverridesOK({o \in rows : [o EXCEPT !.grant = grant] # row} \cup {row})
<1> DEFINE row == [user |-> u, perm |-> perm, res |-> res, grant |-> grant]
           kept == {o \in rows : [o EXCEPT !.grant = grant] # row}
<1>1. ASSUME NEW o \in kept, o.user = u, o.perm = perm, o.res = res PROVE FALSE
  <2>1. o = [user |-> o.user, perm |-> o.perm, res |-> o.res, grant |-> o.grant]
    BY DEF OverridesOK
  <2>2. [o EXCEPT !.grant = grant] = row
    BY <1>1, <2>1
  <2> QED BY <2>2
<1>2. row = [user |-> row.user, perm |-> row.perm, res |-> row.res, grant |-> row.grant]
      /\ row.user = u /\ row.perm = perm /\ row.res = res /\ row.grant \in BOOLEAN
  OBVIOUS
<1>3. kept \subseteq rows
  OBVIOUS
<1> HIDE DEF row, kept
<1>4. OverridesOK(kept \cup {row})
  BY <1>1, <1>2, <1>3 DEF OverridesOK
<1> QED BY <1>4 DEF row, kept

LEMMA OperateRows ==
    ASSUME KeysInv, RowsInv, NEW a \in Admins, NEW op \in Ops, Operate(a, op)
    PROVE  OverridesOK(db'.user_overrides)
<1>0. DOMAIN db = Tables /\ OverridesOK(db.user_overrides)
  BY DEF KeysInv, RowsInv
<1>1. CASE op.op = "load" /\ LoadContext(a)
  BY <1>0, <1>1 DEF LoadContext
<1>2. CASE op.op = "add" /\ AddNamed(a, op.table, op.names)
  <2>1. op.table \in Named /\ op.table # "user_overrides"
    BY <1>2, RbacAssumption DEF Named
  <2>2. db' = db \/ \E rows : db' = [db EXCEPT ![op.table] = @ \cup rows]
    BY <1>2 DEF AddNamed, Committed
  <2> QED BY <1>0, <2>1, <2>2, SevenTables
<1>3. CASE op.op = "grant" /\ GrantRole(a, op.role, op.actions, op.tables)
  BY <1>0, <1>3, SevenTables DEF GrantRole, Write, Committed, vars
<1>4. CASE op.op = "revoke" /\ RevokeRole(a, op.role, op.actions, op.tables)
  BY <1>0, <1>4, SevenTables DEF RevokeRole, Write, Committed, vars
<1>5. CASE op.op = "override" /\ Override(a, op.user, op.action, op.table, op.grant)
  <2> DEFINE row == [user |-> op.user, perm |-> ctx[a].permissions[op.action],
                     res |-> ctx[a].resources[op.table], grant |-> op.grant]
             rows == {o \in db.user_overrides : [o EXCEPT !.grant = op.grant] # row} \cup {row}
  <2>1. OverridesOK(rows)
    BY <1>0, <1>5, OverrideKeepsOne, RbacAssumption
  <2>2. db' = db \/ db' = [db EXCEPT !.user_overrides = rows]
    BY <1>5 DEF Override, Write, Committed, vars
  <2> HIDE DEF rows
  <2> QED BY <1>0, <2>1, <2>2, SevenTables
<1>6. CASE op.op = "hierarchy" /\ AddHierarchy(a, op.super, op.role)
  BY <1>0, <1>6, SevenTables DEF AddHierarchy, Write, Committed, vars
<1>7. CASE op.op = "assign" /\ AssignRole(a, op.user, op.role)
  BY <1>0, <1>7, SevenTables DEF AssignRole, Write, Committed, vars
<1> QED BY <1>1, <1>2, <1>3, <1>4, <1>5, <1>6, <1>7 DEF Operate

LEMMA RowsStep == LoadInv /\ KeysInv /\ NamesInv /\ RowsInv /\ [Next]_vars => RowsInv'
<1> SUFFICES ASSUME LoadInv, KeysInv, NamesInv, RowsInv, [Next]_vars PROVE RowsInv'
  OBVIOUS
<1>0. "roles" \in Named /\ next["roles"] \in Nat
      /\ "user_overrides" \in Tables /\ "role_hierarchy" \in Tables
  BY SevenTables DEF NamesInv, Named
<1>1. ASSUME NEW a \in Admins, NEW op \in Ops, Operate(a, op) PROVE RowsInv'
  <2>1. next'["roles"] \in Nat /\ next["roles"] <= next'["roles"]
    BY <1>0, <1>1, IdsGrow
  <2>2. engine' = engine /\ \A l \in Loaders : load'[l].snap = load[l].snap
    BY <1>1, OperateLoads DEF Kept
  <2>3. \A snap : SnapRows(snap) => SnapRows(snap)'
    BY <1>0, <2>1 DEF SnapRows
  <2> QED BY <1>1, <2>2, <2>3, OperateRows DEF RowsInv, SnapRows
<1>2. ASSUME NEW l \in Loaders, LoadBegin(l) \/ LoadRead(l) \/ LoadFail(l) PROVE RowsInv'
  <2>1. /\ next' = next /\ engine' = engine /\ db' = db
        /\ \A m \in Loaders \ {l} : load'[m] = load[m]
    BY <1>2, LoadSteps DEF LoadBegin, LoadRead, LoadFail
  <2>2. SnapRows(load'[l].snap)
    <3>1. CASE LoadBegin(l) \/ LoadFail(l)
      <4>1. load'[l] = NoLoad \/ load'[l] = [NoLoad EXCEPT !.at = 1, !.from = ops]
        BY <3>1 DEF LoadBegin, LoadFail, LoadInv
      <4>2. NoLoad.snap = Empty /\ [NoLoad EXCEPT !.at = 1, !.from = ops].snap = Empty
        BY DEF NoLoad
      <4> QED BY <4>1, <4>2, EmptyRows
    <3>2. CASE LoadRead(l)
      <4> DEFINE t == ReadOrder[load[l].at]
      <4>1. load'[l].snap = [load[l].snap EXCEPT ![t] = db[t]]
        BY <3>2 DEF LoadRead, LoadInv, LoadOK, Fields
      <4>2. DOMAIN load[l].snap = Tables
        BY DEF KeysInv, SnapOK
      <4> HIDE DEF t
      <4>3. load'[l].snap.user_overrides \in {db.user_overrides, load[l].snap.user_overrides}
            /\ load'[l].snap.role_hierarchy \in {db.role_hierarchy, load[l].snap.role_hierarchy}
        BY <1>0, <4>1, <4>2
      <4>4. \A e \in db.role_hierarchy : e.role \in 1 .. next["roles"] - 1
        BY <1>0 DEF KeysInv, KeysHold, Closed, NamesInv, Numbered
      <4> QED BY <4>3, <4>4 DEF RowsInv, SnapRows
    <3> QED BY <1>2, <3>1, <3>2
  <2> QED BY <2>1, <2>2 DEF RowsInv, SnapRows
<1>3. ASSUME NEW l \in Loaders, Replace(l) PROVE RowsInv'
  <2>1. next' = next /\ db' = db /\ engine'.snap = load[l].snap /\ load'[l].snap = Empty
    BY <1>3, ReplaceLoads DEF Replace, Swap, NoLoad
  <2>2. ASSUME NEW m \in Loaders \ {l} PROVE load'[m].snap = load[m].snap
    <3>1. load'[m] = [load[m] EXCEPT !.overtaken = load[m].at # 0]
      BY <1>3 DEF Replace, Swap
    <3> QED BY <3>1 DEF LoadInv, LoadOK, Fields
  <2> QED BY <2>1, <2>2, EmptyRows DEF RowsInv, SnapRows
<1>4. CASE UNCHANGED <<db, load, engine, next>>
  BY <1>4 DEF RowsInv, SnapRows
<1> QED BY <1>1, <1>2, <1>3, <1>4, SessionsKeep DEF Next, vars

\* What is listed for a user agrees with what is decided, for every snapshot
\* the mount can hold, also one a commit fell into (get_user_role_permissions
\* and user_can, written twice).
THEOREM ListingAlwaysAgrees == Spec => []ListingAgrees
<1>1. RowsInv => ListingAgrees
  BY ListIsRight DEF RowsInv, SnapRows, ListingAgrees
<1> QED BY <1>1, LoadsAtFirst, LoadStep, KeysAtFirst, KeysStep, NamesAtFirst, NamesStep,
           RowsAtFirst, RowsStep, PTL DEF Spec

(***************************************************************************)
(* A statement under decision: all its requests before the one at hand are *)
(* permitted by the engine, which stays until the statement is decided.    *)
(***************************************************************************)
RunRight(snap, r) ==
    /\ DOMAIN r = RunFields
    /\ Len(r.audit) \in Nat /\ DOMAIN r.audit = 1 .. Len(r.audit)
    /\ r.at = "walk" =>
          /\ Walking(snap, r.walk) /\ r.walk.root = RoleOf(snap, r.user)
          /\ r.i \in Nat \ {0}
          /\ \A j \in 1 .. r.i - 1 : Permits(snap, r.user, r.audit[j])
    /\ r.at = "decided" =>
          /\ r.verdict = "yes" => \A j \in DOMAIN r.audit : Permits(snap, r.user, r.audit[j])
          /\ r.verdict = "no" => ~Permits(snap, r.user, r.audit[r.i])

DecisionInv == \A s \in Sessions : run[s].at = "idle" \/ RunRight(engine.snap, run[s])

LEMMA AskIsRight ==
    ASSUME NEW r, DOMAIN r = RunFields, Len(r.audit) \in Nat, DOMAIN r.audit = 1 .. Len(r.audit),
           NEW i \in Nat \ {0}, \A j \in 1 .. i - 1 : Permits(engine.snap, r.user, r.audit[j])
    PROVE  RunRight(engine.snap, Ask(r, i))
<1>1. CASE HasRole(engine.snap, r.user)
  <2> DEFINE root == RoleOf(engine.snap, r.user)
             new == [r EXCEPT !.at = "walk", !.i = i, !.walk = WalkFrom(root)]
  <2>1. Ask(r, i) = new
    BY <1>1 DEF Ask
  <2>2. /\ DOMAIN new = RunFields /\ new.at = "walk" /\ new.walk = WalkFrom(root)
        /\ new.i = i /\ new.audit = r.audit /\ new.user = r.user
    BY DEF RunFields
  <2>3. Walking(engine.snap, WalkFrom(root)) /\ WalkFrom(root).root = root
    BY WalkBegins
  <2> HIDE DEF new
  <2> QED BY <2>1, <2>2, <2>3 DEF RunRight
<1>2. CASE ~HasRole(engine.snap, r.user)
  <2>1. Ask(r, i) = [r EXCEPT !.at = "decided", !.i = i, !.verdict = "user not found"]
    BY <1>2 DEF Ask
  <2>2. DOMAIN Ask(r, i) = RunFields /\ Ask(r, i).at = "decided"
        /\ Ask(r, i).verdict = "user not found" /\ Ask(r, i).audit = r.audit
    BY <2>1 DEF RunFields
  <2> QED BY <2>2 DEF RunRight
<1> QED BY <1>1, <1>2

LEMMA DecidedIsRight ==
    ASSUME RowsInv, NEW r, RunRight(engine.snap, r), r.at = "walk", r.walk.queue = <<>>
    PROVE  RunRight(engine.snap, Decided(r))
<1> DEFINE v == UserCan(engine.snap, r.user, r.audit[r.i], r.walk.roles)
<1>0. /\ DOMAIN r = RunFields /\ r.i \in Nat \ {0}
      /\ Len(r.audit) \in Nat /\ DOMAIN r.audit = 1 .. Len(r.audit)
      /\ \A j \in 1 .. r.i - 1 : Permits(engine.snap, r.user, r.audit[j])
  BY DEF RunRight
<1>1. r.walk.roles = Below(engine.snap, RoleOf(engine.snap, r.user))
  BY WalkLists DEF RunRight
<1>2. /\ v = "yes" => Permits(engine.snap, r.user, r.audit[r.i])
      /\ v = "no" => ~Permits(engine.snap, r.user, r.audit[r.i])
  BY <1>1, UserCanIsRight DEF RowsInv, SnapRows
<1>3. Decided(r) = IF v = "yes" /\ r.i < Len(r.audit) THEN Ask(r, r.i + 1)
                   ELSE [r EXCEPT !.at = "decided", !.verdict = v]
  BY DEF Decided
<1> HIDE DEF v
<1>4. CASE v = "yes" /\ r.i < Len(r.audit)
  <2>1. r.i + 1 \in Nat \ {0}
    BY <1>0
  <2>2. \A j \in 1 .. (r.i + 1) - 1 : j = r.i \/ j \in 1 .. r.i - 1
    BY <1>0
  <2>3. \A j \in 1 .. (r.i + 1) - 1 : Permits(engine.snap, r.user, r.audit[j])
    BY <1>0, <1>2, <1>4, <2>2
  <2>4. RunRight(engine.snap, Ask(r, r.i + 1))
    BY <1>0, <2>1, <2>3, AskIsRight
  <2> QED BY <1>3, <1>4, <2>4
<1>5. CASE ~(v = "yes" /\ r.i < Len(r.audit))
  <2> DEFINE new == [r EXCEPT !.at = "decided", !.verdict = v]
  <2>1. /\ DOMAIN new = RunFields /\ new.at = "decided" /\ new.verdict = v
        /\ new.audit = r.audit /\ new.user = r.user /\ new.i = r.i
    BY <1>0 DEF RunFields
  <2> HIDE DEF new
  <2>2. ASSUME v = "yes", NEW j \in DOMAIN r.audit
        PROVE  Permits(engine.snap, r.user, r.audit[j])
    <3>1. j = r.i \/ j \in 1 .. r.i - 1
      BY <1>0, <1>5, <2>2
    <3> QED BY <1>0, <1>2, <2>2, <3>1
  <2>3. RunRight(engine.snap, new)
    BY <1>0, <1>2, <2>1, <2>2 DEF RunRight
  <2> QED BY <1>3, <1>5, <2>3 DEF new
<1> QED BY <1>4, <1>5

LEMMA DecisionAtFirst == Init => DecisionInv
<1> SUFFICES ASSUME Init, NEW s \in Sessions PROVE run[s].at = "idle"
  BY DEF DecisionInv
<1> QED BY DEF Init, NoRun

LEMMA DecisionStep ==
    LoadInv /\ NamesInv /\ RowsInv /\ RunInv /\ DecisionInv /\ [Next]_vars => DecisionInv'
<1> SUFFICES ASSUME LoadInv, NamesInv, RowsInv, RunInv, DecisionInv, [Next]_vars
             PROVE  DecisionInv'
  OBVIOUS
<1>1. CASE UNCHANGED <<run, engine>>
  BY <1>1 DEF DecisionInv
<1>2. ASSUME NEW l \in Loaders, Replace(l) PROVE DecisionInv'
  BY <1>2 DEF Replace, Swap, Deciding, DecisionInv
<1>3. ASSUME NEW s \in Sessions, UNCHANGED engine,
             \A q \in Sessions \ {s} : run'[q] = run[q],
             run'[s].at = "idle" \/ RunRight(engine.snap, run'[s])
      PROVE  DecisionInv'
  BY <1>3 DEF DecisionInv
<1>4. ASSUME NEW s \in Sessions, NEW u \in Users, NEW audit \in Audits, RunBegin(s, u, audit)
      PROVE  DecisionInv'
  <2> DEFINE r == [at |-> "decided", user |-> u, audit |-> audit, i |-> 0,
                   walk |-> WalkFrom(0), verdict |-> "yes"]
  <2>1. run' = [run EXCEPT ![s] = IF audit = <<>> THEN r ELSE Ask(r, 1)]
    BY <1>4 DEF RunBegin
  <2>2. /\ DOMAIN r = RunFields /\ r.at = "decided" /\ r.verdict = "yes" /\ r.audit = audit
        /\ Len(audit) \in Nat /\ DOMAIN audit = 1 .. Len(audit)
    BY RbacAssumption DEF RunFields
  <2>3. run'[s] = IF audit = <<>> THEN r ELSE Ask(r, 1)
    BY <2>1 DEF RunInv
  <2> HIDE DEF r
  <2>4. audit = <<>> => RunRight(engine.snap, r)
    BY <2>2 DEF RunRight
  <2>5. RunRight(engine.snap, Ask(r, 1))
    BY <2>2, AskIsRight
  <2>6. RunRight(engine.snap, run'[s])
    BY <2>3, <2>4, <2>5
  <2> QED BY <1>3, <1>4, <2>1, <2>6 DEF RunBegin, RunInv
<1>5. ASSUME NEW s \in Sessions, WalkRole(s) PROVE DecisionInv'
  <2>1. /\ run[s].at = "walk" /\ run[s].walk.queue # <<>>
        /\ run' = [run EXCEPT ![s].walk = WalkStep(engine.snap, @)]
    BY <1>5 DEF WalkRole
  <2>2. RunRight(engine.snap, run[s])
    BY <2>1 DEF DecisionInv
  <2> DEFINE r == run[s]
             walk == WalkStep(engine.snap, r.walk)
             new == [r EXCEPT !.walk = walk]
  <2>3. run'[s] = new
    BY <2>1 DEF RunInv
  <2>4. Walking(engine.snap, walk) /\ walk.root = r.walk.root
    <3>1. \A e \in engine.snap.role_hierarchy : e.role \in 1 .. next["roles"] - 1
      BY DEF RowsInv, SnapRows
    <3>2. next["roles"] - 1 \in Nat
      BY DEF NamesInv, Named
    <3>3. Walking(engine.snap, r.walk)
      BY <2>1, <2>2 DEF RunRight
    <3> QED BY <2>1, <3>1, <3>2, <3>3, WalkGoesOn
  <2> HIDE DEF walk
  <2>5. /\ DOMAIN new = RunFields /\ new.at = "walk" /\ new.walk = walk /\ new.i = r.i
        /\ new.audit = r.audit /\ new.user = r.user
    BY <2>1, <2>2 DEF RunRight, RunFields
  <2> HIDE DEF new
  <2>6. RunRight(engine.snap, new)
    BY <2>1, <2>2, <2>4, <2>5 DEF RunRight
  <2> QED BY <1>3, <1>5, <2>1, <2>3, <2>6 DEF WalkRole, RunInv
<1>6. ASSUME NEW s \in Sessions, Decide(s) PROVE DecisionInv'
  <2>1. /\ run[s].at = "walk" /\ run[s].walk.queue = <<>>
        /\ run' = [run EXCEPT ![s] = Decided(@)]
    BY <1>6 DEF Decide
  <2>2. RunRight(engine.snap, Decided(run[s]))
    BY <2>1, DecidedIsRight DEF DecisionInv
  <2>3. run'[s] = Decided(run[s])
    BY <2>1 DEF RunInv
  <2> QED BY <1>3, <1>6, <2>1, <2>2, <2>3 DEF Decide, RunInv
<1>7. ASSUME NEW s \in Sessions, RunEnd(s) PROVE DecisionInv'
  BY <1>3, <1>7 DEF RunEnd, RunInv, NoRun
<1>8. ASSUME NEW l \in Loaders, LoadBegin(l) \/ LoadRead(l) \/ LoadFail(l) PROVE DecisionInv'
  BY <1>1, <1>8, LoadSteps
<1>9. ASSUME NEW a \in Admins, NEW op \in Ops, Operate(a, op) PROVE DecisionInv'
  BY <1>1, <1>9, OperateLoads
<1> QED BY <1>1, <1>2, <1>4, <1>5, <1>6, <1>7, <1>8, <1>9 DEF Next, vars

\* A statement is let through only when the one engine it is decided on permits
\* all its requests, and denied only when that engine does not permit one of
\* them, for every hierarchy of roles, cycles included, and every interleaving
\* with loads and commits (user_can_run, user_can, enumerate_role).
THEOREM DecisionsAlwaysRight == Spec => []DecisionsRight
<1>1. DecisionInv => DecisionsRight
  BY DEF DecisionInv, RunRight, DecisionsRight
<1> QED BY <1>1, LoadsAtFirst, LoadStep, KeysAtFirst, KeysStep, NamesAtFirst, NamesStep,
           RowsAtFirst, RowsStep, RunAtFirst, RunStep, DecisionAtFirst, DecisionStep, PTL
        DEF Spec
=============================================================================
