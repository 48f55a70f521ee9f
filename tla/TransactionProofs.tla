-------------------------- MODULE TransactionProofs -------------------------
(***************************************************************************)
(* Theorems about Transaction, for every set of handles and writes, every  *)
(* driver and every set of refused statements the statements name.         *)
(***************************************************************************)
EXTENDS Transaction, FiniteSetTheorems, SequenceTheorems, TLAPS

(***************************************************************************)
(* The three statements a driver issues, at the depth it has counted, keep *)
(* the session well-typed and in step with the counter.                    *)
(***************************************************************************)
LEMMA BeginTyped ==
    ASSUME SessionTypeOK, NEW d \in Nat, BeginStmt(d)
    PROVE  SessionTypeOK'
<1>1. CASE d = 0
  BY <1>1 DEF SessionTypeOK, BeginStmt, StmtBegin
<1>2. CASE d # 0
  <2>1. [name |-> d, saved |-> view] \in Savepoint
    BY DEF SessionTypeOK, Savepoint
  <2> QED BY <1>2, <2>1 DEF SessionTypeOK, BeginStmt, StmtSavepoint
<1> QED BY <1>1, <1>2

LEMMA PrefixTyped ==
    ASSUME NEW s \in Seq(Savepoint), NEW i \in 0 .. Len(s)
    PROVE  /\ SubSeq(s, 1, i) \in Seq(Savepoint)
           /\ DOMAIN SubSeq(s, 1, i) = 1 .. i
           /\ \A j \in 1 .. i : SubSeq(s, 1, i)[j] = s[j]
OBVIOUS

LEMMA CommitTyped ==
    ASSUME SessionTypeOK, NEW d \in Nat, CommitStmt(d)
    PROVE  SessionTypeOK'
<1>1. CASE d = 1
  <2>1. inTx' \in BOOLEAN
    BY <1>1 DEF CommitStmt, StmtCommit
  <2>2. sp' = <<>> /\ view' = view /\ durable' = view
    BY <1>1 DEF CommitStmt, StmtCommit
  <2> QED BY <2>1, <2>2 DEF SessionTypeOK
<1>2. CASE d # 1
  <2>1. PICK i \in DOMAIN sp : sp' = SubSeq(sp, 1, i - 1)
    BY <1>2 DEF CommitStmt, StmtRelease
  <2>2. i - 1 \in 0 .. Len(sp)
    BY <2>1 DEF SessionTypeOK
  <2>3. sp' \in Seq(Savepoint)
    BY <2>1, <2>2, PrefixTyped DEF SessionTypeOK
  <2> QED BY <1>2, <2>3 DEF SessionTypeOK, CommitStmt, StmtRelease
<1> QED BY <1>1, <1>2

LEMMA RollbackTyped ==
    ASSUME SessionTypeOK, NEW d \in Nat, RollbackStmt(d)
    PROVE  SessionTypeOK'
<1>1. CASE d = 1
  <2>1. inTx' \in BOOLEAN
    BY <1>1 DEF RollbackStmt, StmtRollback
  <2>2. sp' = <<>> /\ view' = durable /\ durable' = durable
    BY <1>1 DEF RollbackStmt, StmtRollback
  <2> QED BY <2>1, <2>2 DEF SessionTypeOK
<1>2. CASE d # 1
  <2>1. PICK i \in DOMAIN sp : sp' = SubSeq(sp, 1, i) /\ view' = sp[i].saved
    BY <1>2 DEF RollbackStmt, StmtRollbackTo
  <2>2. i \in 0 .. Len(sp)
    BY <2>1 DEF SessionTypeOK
  <2>3. sp' \in Seq(Savepoint)
    BY <2>1, <2>2, PrefixTyped DEF SessionTypeOK
  <2>4. view' \in SUBSET Writes
    <3>1. sp[i] \in Savepoint
      BY <2>1 DEF SessionTypeOK
    <3> QED BY <2>1, <3>1 DEF Savepoint
  <2> QED BY <1>2, <2>3, <2>4 DEF SessionTypeOK, RollbackStmt, StmtRollbackTo
<1> QED BY <1>1, <1>2

(***************************************************************************)
(* Type correctness.                                                       *)
(***************************************************************************)
LEMMA SetStatusTyped ==
    ASSUME status \in [Handles -> Status], NEW h, NEW s \in Status, SetStatus(h, s)
    PROVE  status' \in [Handles -> Status]
BY DEF SetStatus

LEMMA BeginAtTyped ==
    ASSUME TypeOK, NEW h \in Handles, NEW d \in Nat, BeginAt(h, d)
    PROVE  SessionTypeOK' /\ depth' \in Nat /\ status' \in [Handles -> Status]
<1> USE SetStatusTyped DEF TypeOK, Status
<1>1. CASE BeginStmt(d) /\ depth' = d + 1 /\ SetStatus(h, "open")
  BY <1>1, BeginTyped
<1>2. CASE depth' = d /\ SetStatus(h, "dropping") /\ UNCHANGED sessionVars
  BY <1>2 DEF SessionTypeOK, sessionVars
<1>3. CASE BeginStmt(d) /\ depth' = d + 1 /\ SetStatus(h, "dropping")
  BY <1>3, BeginTyped
<1> QED BY <1>1, <1>2, <1>3 DEF BeginAt

LEMMA AtDepthZeroTyped ==
    ASSUME TypeOK, NEW h \in Handles, NEW answer \in Ended, AtDepthZero(h, answer)
    PROVE  SessionTypeOK' /\ depth' \in Nat /\ status' \in [Handles -> Status]
<1>1. SessionTypeOK' /\ depth' \in Nat
  BY DEF AtDepthZero, TypeOK, SessionTypeOK, sessionVars
<1>2. PICK s \in {"dropping", "panicked", answer} : SetStatus(h, s)
  BY DEF AtDepthZero
<1>3. s \in Status
  BY DEF Status, Ended
<1> QED BY <1>1, <1>2, <1>3, SetStatusTyped DEF TypeOK

LEMMA CommitAtTyped ==
    ASSUME TypeOK, NEW h \in Handles, CommitAt(h)
    PROVE  SessionTypeOK' /\ depth' \in Nat /\ status' \in [Handles -> Status]
<1> USE SetStatusTyped DEF TypeOK, Status, Ended
<1>1. CASE AtDepthZero(h, "committed")
  BY <1>1, AtDepthZeroTyped
<1>2. CASE depth > 0 /\ CommitStmt(depth) /\ depth' = depth - 1 /\ SetStatus(h, "committed")
  BY <1>2, CommitTyped
<1>3. CASE SetStatus(h, "dropping") /\ UNCHANGED <<sessionVars, depth>>
  BY <1>3 DEF SessionTypeOK, sessionVars
<1> QED BY <1>1, <1>2, <1>3 DEF CommitAt

LEMMA RollbackAtTyped ==
    ASSUME TypeOK, NEW h \in Handles, RollbackAt(h)
    PROVE  SessionTypeOK' /\ depth' \in Nat /\ status' \in [Handles -> Status]
<1> USE SetStatusTyped DEF TypeOK, Status, Ended
<1>1. CASE AtDepthZero(h, "rolledback")
  BY <1>1, AtDepthZeroTyped
<1>2. CASE depth > 0 /\ RollbackStmt(depth) /\ depth' = depth - 1 /\ SetStatus(h, "rolledback")
  BY <1>2, RollbackTyped
<1>3. CASE SetStatus(h, "dropping") /\ UNCHANGED <<sessionVars, depth>>
  BY <1>3 DEF SessionTypeOK, sessionVars
<1> QED BY <1>1, <1>2, <1>3 DEF RollbackAt

LEMMA StartRollbackTyped ==
    ASSUME TypeOK, NEW h \in Handles, StartRollback(h)
    PROVE  SessionTypeOK' /\ depth' \in Nat /\ status' \in [Handles -> Status]
<1> DEFINE s == AfterDrop(h)
<1>0. {"panicked", s} \subseteq Status
  BY DEF Status, Ended, AfterDrop
<1>1. CASE SetStatus(h, "panicked") /\ UNCHANGED <<sessionVars, depth>>
  BY <1>0, <1>1, SetStatusTyped DEF SessionTypeOK, sessionVars, TypeOK
<1>2. CASE SetStatus(h, s) /\ UNCHANGED <<sessionVars, depth>>
  BY <1>0, <1>2, SetStatusTyped DEF SessionTypeOK, sessionVars, TypeOK
<1>3. CASE depth > 0 /\ RollbackStmt(depth) /\ depth' = depth - 1 /\ SetStatus(h, s)
  BY <1>0, <1>3, SetStatusTyped, RollbackTyped DEF TypeOK
<1> QED BY <1>1, <1>2, <1>3 DEF StartRollback

LEMMA TypeStep == TypeOK /\ [Next]_vars => TypeOK'
<1> SUFFICES ASSUME TypeOK, [Next]_vars PROVE TypeOK'
  OBVIOUS
<1> USE DEF TypeOK
<1>1. ASSUME NEW h \in Handles, BeginRoot(h) PROVE TypeOK'
  BY <1>1, BeginAtTyped DEF BeginRoot
<1>2. ASSUME NEW h \in Handles, BeginResume(h) PROVE TypeOK'
  BY <1>2, BeginAtTyped DEF BeginResume
<1>3. ASSUME NEW h \in Handles, NEW p \in Handles, BeginNested(p, h) PROVE TypeOK'
  BY <1>3, BeginAtTyped DEF BeginNested
<1>4. ASSUME NEW h \in Handles, NEW p \in Handles, BeginWait(p, h) PROVE TypeOK'
  BY <1>4 DEF BeginWait, SetStatus, Status, Waiting, SessionTypeOK, sessionVars
<1>5. ASSUME NEW h \in Handles, Commit(h) PROVE TypeOK'
  BY <1>5, CommitAtTyped DEF Commit
<1>6. ASSUME NEW h \in Handles, Rollback(h) PROVE TypeOK'
  BY <1>6, RollbackAtTyped DEF Rollback
<1>7. ASSUME NEW h \in Handles, EndWait(h) PROVE TypeOK'
  BY <1>7 DEF EndWait, SetStatus, Status, Waiting, SessionTypeOK, sessionVars
<1>8. ASSUME NEW h \in Handles, Cancel(h) PROVE TypeOK'
  BY <1>8 DEF Cancel, SetStatus, Status, SessionTypeOK, sessionVars
<1>9. ASSUME NEW h \in Handles, DropHandle(h) PROVE TypeOK'
  BY <1>9, StartRollbackTyped DEF DropHandle
<1>10. ASSUME NEW h \in Handles, NEW w \in Writes, Execute(h, w) PROVE TypeOK'
  <2>1. SessionTypeOK'
    BY <1>10 DEF Execute, StmtWrite, SessionTypeOK
  <2> QED BY <1>10, <2>1 DEF Execute
<1>11. ASSUME NEW h \in Handles, StreamRaw(h) PROVE TypeOK'
  BY <1>11 DEF StreamRaw, SessionTypeOK, sessionVars
<1>12. CASE StreamDrop
  BY <1>12 DEF StreamDrop, SessionTypeOK, sessionVars
<1>13. CASE UNCHANGED vars
  BY <1>13 DEF vars, SessionTypeOK
<1> QED BY <1>1, <1>2, <1>3, <1>4, <1>5, <1>6, <1>7, <1>8, <1>9, <1>10,
           <1>11, <1>12, <1>13 DEF Next

LEMMA InitTyped == Init => TypeOK
<1> SUFFICES ASSUME Init PROVE TypeOK
  OBVIOUS
<1>1. inTx \in BOOLEAN
  BY DEF Init, SessionInit
<1>2. sp = <<>> /\ view = {} /\ durable = {}
  BY DEF Init, SessionInit
<1>3. SessionTypeOK
  BY <1>1, <1>2 DEF SessionTypeOK
<1> QED BY <1>3 DEF Init, TypeOK, Status

\* Every variable keeps its type, whatever the driver, the client and the
\* server do.
THEOREM TypeCorrect == Spec => []TypeOK
BY InitTyped, TypeStep, PTL DEF Spec

(***************************************************************************)
(* The counter and the savepoint names stay in step.                       *)
(***************************************************************************)
LEMMA BeginKeepsStack ==
    ASSUME TypeOK, StackInv, BeginStmt(depth), depth' = depth + 1
    PROVE  StackInv'
<1>1. CASE depth = 0
  <2>1. sp' = <<>> /\ inTx'
    BY <1>1 DEF StackInv, BeginStmt, StmtBegin
  <2> QED BY <1>1, <2>1 DEF StackInv, TypeOK
<1>2. CASE depth # 0
  <2>1. /\ inTx /\ inTx' /\ depth \in Nat /\ depth' = depth + 1
        /\ sp' = Append(sp, [name |-> depth, saved |-> view])
    BY <1>2 DEF BeginStmt, StmtSavepoint, TypeOK
  <2>2. /\ sp \in Seq(Savepoint) /\ Len(sp) \in Nat
        /\ DOMAIN sp = 1 .. Len(sp) /\ DOMAIN sp' = 1 .. Len(sp) + 1
        /\ sp'[Len(sp) + 1] = [name |-> depth, saved |-> view]
        /\ \A i \in DOMAIN sp : sp'[i] = sp[i]
    BY <2>1 DEF TypeOK, SessionTypeOK
  <2>3. \A i \in DOMAIN sp : sp[i].name \in 1 .. depth
    BY DEF StackInv
  <2>4. \A i \in DOMAIN sp' : sp'[i].name \in 1 .. depth'
    BY <1>2, <2>1, <2>2, <2>3
  <2>5. \A i, j \in DOMAIN sp' : i <= j => sp'[i].name <= sp'[j].name
    <3>1. \A i, j \in DOMAIN sp : i <= j => sp[i].name <= sp[j].name
      BY DEF StackInv
    <3> QED BY <2>1, <2>2, <2>3, <3>1
  <2>6. ASSUME NEW n \in 1 .. depth' - 1 PROVE \E i \in DOMAIN sp' : Newest(n, i)'
    <3>1. CASE n = depth
      BY <2>2, <3>1 DEF Newest
    <3>2. CASE n # depth
      <4>1. PICK i \in DOMAIN sp : Newest(n, i)
        BY <2>1, <3>2 DEF StackInv
      <4> QED BY <2>2, <3>2, <4>1 DEF Newest
    <3> QED BY <3>1, <3>2
  <2> QED BY <1>2, <2>1, <2>4, <2>5, <2>6 DEF StackInv
<1> QED BY <1>1, <1>2

\* Cutting the stack at, or just below, the newest savepoint of the level that
\* ends leaves exactly the savepoints of the levels below it.
LEMMA CutKeepsStack ==
    ASSUME TypeOK, StackInv, depth > 1, inTx' = inTx, depth' = depth - 1,
           NEW i \in DOMAIN sp, Newest(depth - 1, i),
           NEW k \in {i - 1, i}, sp' = SubSeq(sp, 1, k)
    PROVE  StackInv'
<1>1. /\ sp \in Seq(Savepoint) /\ Len(sp) \in Nat /\ DOMAIN sp = 1 .. Len(sp)
      /\ depth \in Nat /\ i \in 1 .. Len(sp) /\ k \in 0 .. Len(sp)
  BY DEF TypeOK, SessionTypeOK
<1>2. DOMAIN sp' = 1 .. k /\ \A j \in 1 .. k : sp'[j] = sp[j]
  BY <1>1, PrefixTyped
<1>3. /\ \A a \in DOMAIN sp : sp[a].name \in 1 .. depth
      /\ \A a, b \in DOMAIN sp : a <= b => sp[a].name <= sp[b].name
  BY DEF StackInv
<1>4. sp[i].name = depth - 1
  BY DEF Newest
<1>5. \A a \in DOMAIN sp' : sp'[a].name \in 1 .. depth'
  BY <1>1, <1>2, <1>3, <1>4
<1>6. \A a, b \in DOMAIN sp' : a <= b => sp'[a].name <= sp'[b].name
  BY <1>1, <1>2, <1>3
<1>7. ASSUME NEW n \in 1 .. depth' - 1 PROVE \E a \in DOMAIN sp' : Newest(n, a)'
  <2>0. n \in 1 .. depth - 1
    BY <1>1
  <2>1. PICK a \in DOMAIN sp : Newest(n, a)
    BY <2>0 DEF StackInv
  <2>2. sp[a].name = n /\ n < depth - 1
    BY <1>1, <2>1 DEF Newest
  <2>3. a < i
    BY <1>1, <1>3, <1>4, <2>2
  <2>4. a \in DOMAIN sp' /\ sp'[a] = sp[a]
    BY <1>1, <1>2, <2>3
  <2>5. \A b \in DOMAIN sp' : b \in DOMAIN sp /\ sp'[b] = sp[b]
    BY <1>1, <1>2
  <2> QED BY <2>1, <2>4, <2>5 DEF Newest
<1>8. inTx' /\ depth' > 0
  BY <1>1 DEF StackInv
<1> QED BY <1>5, <1>6, <1>7, <1>8 DEF StackInv

LEMMA CommitKeepsStack ==
    ASSUME TypeOK, StackInv, depth > 0, CommitStmt(depth), depth' = depth - 1
    PROVE  StackInv'
<1>1. CASE depth = 1
  <2>1. ~inTx' /\ sp' = <<>> /\ view' = durable'
    BY <1>1 DEF CommitStmt, StmtCommit
  <2> QED BY <1>1, <2>1 DEF StackInv
<1>2. CASE depth # 1
  <2>1. PICK i \in DOMAIN sp : Newest(depth - 1, i) /\ sp' = SubSeq(sp, 1, i - 1)
    BY <1>2 DEF CommitStmt, StmtRelease
  <2>2. depth > 1 /\ inTx' = inTx
    BY <1>2 DEF CommitStmt, StmtRelease, TypeOK
  <2> QED BY <2>1, <2>2, CutKeepsStack
<1> QED BY <1>1, <1>2

LEMMA RollbackKeepsStack ==
    ASSUME TypeOK, StackInv, depth > 0, RollbackStmt(depth), depth' = depth - 1
    PROVE  StackInv'
<1>1. CASE depth = 1
  <2>1. ~inTx' /\ sp' = <<>> /\ view' = durable'
    BY <1>1 DEF RollbackStmt, StmtRollback
  <2> QED BY <1>1, <2>1 DEF StackInv
<1>2. CASE depth # 1
  <2>1. PICK i \in DOMAIN sp : Newest(depth - 1, i) /\ sp' = SubSeq(sp, 1, i)
    BY <1>2 DEF RollbackStmt, StmtRollbackTo
  <2>2. depth > 1 /\ inTx' = inTx
    BY <1>2 DEF RollbackStmt, StmtRollbackTo, TypeOK
  <2> QED BY <2>1, <2>2, CutKeepsStack
<1> QED BY <1>1, <1>2

LEMMA StackUnchanged ==
    ASSUME StackInv, UNCHANGED <<inTx, sp, view, durable, depth>>
    PROVE  StackInv'
BY DEF StackInv, Newest

LEMMA BeginAtKeepsStack ==
    ASSUME TypeOK, StackInv, NEW h, BeginAt(h, depth)
    PROVE  StackInv'
<1>1. CASE BeginStmt(depth) /\ depth' = depth + 1
  BY <1>1, BeginKeepsStack
<1>2. CASE depth' = depth /\ UNCHANGED sessionVars
  BY <1>2, StackUnchanged DEF sessionVars
<1> QED BY <1>1, <1>2 DEF BeginAt

\* Nothing but a connection handed out with a stale counter could break the
\* stack; a rusqlite connection restarts its counter at 0.
LEMMA StackStep ==
    ASSUME TypeOK, StackInv, [Next]_vars,
           Driver = "rusqlite" /\ Alive = {} => depth = 0
    PROVE  StackInv'
<1>1. ASSUME NEW h \in Handles, BeginRoot(h) PROVE StackInv'
  <2>1. BeginAt(h, depth)
    BY <1>1 DEF BeginRoot
  <2> QED BY <2>1, BeginAtKeepsStack
<1>2. ASSUME NEW h \in Handles, BeginResume(h) PROVE StackInv'
  BY <1>2, BeginAtKeepsStack DEF BeginResume
<1>3. ASSUME NEW h \in Handles, NEW p \in Handles, BeginNested(p, h) PROVE StackInv'
  BY <1>3, BeginAtKeepsStack DEF BeginNested
<1>4. ASSUME NEW h \in Handles, NEW p \in Handles, BeginWait(p, h) PROVE StackInv'
  BY <1>4, StackUnchanged DEF BeginWait, sessionVars
<1>5. ASSUME NEW h \in Handles, Commit(h) PROVE StackInv'
  <2>1. CASE UNCHANGED <<sessionVars, depth>>
    BY <2>1, StackUnchanged DEF sessionVars
  <2>2. CASE depth > 0 /\ CommitStmt(depth) /\ depth' = depth - 1
    BY <2>2, CommitKeepsStack
  <2> QED BY <1>5, <2>1, <2>2 DEF Commit, CommitAt, AtDepthZero
<1>6. ASSUME NEW h \in Handles, Rollback(h) PROVE StackInv'
  <2>1. CASE UNCHANGED <<sessionVars, depth>>
    BY <2>1, StackUnchanged DEF sessionVars
  <2>2. CASE depth > 0 /\ RollbackStmt(depth) /\ depth' = depth - 1
    BY <2>2, RollbackKeepsStack
  <2> QED BY <1>6, <2>1, <2>2 DEF Rollback, RollbackAt, AtDepthZero
<1>7. ASSUME NEW h \in Handles, EndWait(h) \/ Cancel(h) \/ StreamRaw(h) PROVE StackInv'
  BY <1>7, StackUnchanged DEF EndWait, Cancel, StreamRaw, sessionVars
<1>8. ASSUME NEW h \in Handles, DropHandle(h) PROVE StackInv'
  <2>1. CASE UNCHANGED <<sessionVars, depth>>
    BY <2>1, StackUnchanged DEF sessionVars
  <2>2. CASE depth > 0 /\ RollbackStmt(depth) /\ depth' = depth - 1
    BY <2>2, RollbackKeepsStack
  <2> QED BY <1>8, <2>1, <2>2 DEF DropHandle, StartRollback
<1>9. ASSUME NEW h \in Handles, NEW w \in Writes, Execute(h, w) PROVE StackInv'
  <2>1. /\ UNCHANGED <<inTx, sp, depth>>
        /\ view' = view \cup {w} /\ durable' = IF inTx THEN durable ELSE view'
    BY <1>9 DEF Execute, StmtWrite
  <2>2. ~inTx' => view' = durable'
    BY <2>1
  <2> QED BY <2>1, <2>2 DEF StackInv, Newest
<1>10. CASE StreamDrop
  BY <1>10, StackUnchanged DEF StreamDrop, sessionVars
<1>11. CASE UNCHANGED vars
  BY <1>11, StackUnchanged DEF vars
<1> QED BY <1>1, <1>2, <1>3, <1>4, <1>5, <1>6, <1>7, <1>8, <1>9, <1>10,
           <1>11 DEF Next

LEMMA StackGivesStep == TypeOK /\ StackInv => SessionInStep
<1> SUFFICES ASSUME TypeOK, StackInv PROVE SessionInStep
  OBVIOUS
<1>1. /\ depth \in Nat /\ sp \in Seq(Savepoint) /\ Len(sp) \in Nat
      /\ DOMAIN sp = 1 .. Len(sp)
  BY DEF TypeOK, SessionTypeOK
<1>2. \A n \in 1 .. depth - 1 : HasSavepoint(n)
  BY DEF StackInv, HasSavepoint, Newest
<1>3. ASSUME depth > 1 PROVE sp[Len(sp)].name \in {depth - 1, depth}
  <2>1. PICK i \in DOMAIN sp : Newest(depth - 1, i)
    BY <1>1, <1>3 DEF StackInv
  <2>2. sp[i].name = depth - 1 /\ i <= Len(sp) /\ Len(sp) \in DOMAIN sp
    BY <1>1, <2>1 DEF Newest
  <2>3. sp[i].name <= sp[Len(sp)].name /\ sp[Len(sp)].name \in 1 .. depth
    BY <2>2 DEF StackInv
  <2> QED BY <1>1, <2>2, <2>3
<1> QED BY <1>1, <1>2, <1>3 DEF StackInv, SessionInStep

LEMMA InitStack == Init => StackInv /\ CountInv /\ NobodyWaits
<1> SUFFICES ASSUME Init PROVE StackInv /\ CountInv /\ NobodyWaits
  OBVIOUS
<1>1. StackInv
  <2>1. ~inTx /\ sp = <<>> /\ view = durable /\ depth = 0
    BY DEF Init, SessionInit
  <2> QED BY <2>1 DEF StackInv
<1>2. Alive = {} /\ depth = 0
  BY DEF Init, Alive
<1>3. NobodyWaits
  BY DEF Init, NobodyWaits, Waiting
<1> QED BY <1>1, <1>2, <1>3, FS_EmptySet DEF CountInv

\* With any sqlx driver the depth counter and the savepoints never drift
\* apart, whatever the client does and whichever statements are refused: the
\* statement chosen by depth always addresses the youngest level.
THEOREM SqlxInStep ==
    ASSUME Driver # "rusqlite"
    PROVE  Spec => []SessionInStep
<1>1. Init => TypeOK /\ StackInv
  BY InitTyped, InitStack
<1>2. TypeOK /\ StackInv /\ [Next]_vars => (TypeOK /\ StackInv)'
  BY TypeStep, StackStep
<1> QED BY <1>1, <1>2, StackGivesStep, PTL DEF Spec

(***************************************************************************)
(* Every level belongs to a living handle, so the connection comes back    *)
(* idle.                                                                   *)
(***************************************************************************)
\* How one handle's change of status changes the number of living handles.
LEMMA AliveAfter ==
    ASSUME TypeOK, NEW h \in Handles, NEW s \in Status, SetStatus(h, s)
    PROVE  /\ Cardinality(Alive) \in Nat
           /\ s \in Ended /\ h \in Alive => Cardinality(Alive') = Cardinality(Alive) - 1
           /\ s \notin Ended /\ s # "unborn" =>
                 Cardinality(Alive') =
                    IF h \in Alive THEN Cardinality(Alive) ELSE Cardinality(Alive) + 1
<1>1. IsFiniteSet(Alive)
  BY HandleAssumption, FS_Subset DEF Alive
<1>2. Cardinality(Alive) \in Nat
  BY <1>1, FS_CardinalityType
<1>3. \A g \in Handles : status'[g] = IF g = h THEN s ELSE status[g]
  BY DEF SetStatus, TypeOK
<1>4. CASE s \in Ended
  <2>1. Alive' = Alive \ {h}
    BY <1>3, <1>4 DEF Alive
  <2> QED BY <1>1, <1>2, <1>4, <2>1, FS_RemoveElement
<1>5. CASE s \notin Ended /\ s # "unborn"
  <2>1. Alive' = Alive \cup {h}
    BY <1>3, <1>5 DEF Alive
  <2> QED BY <1>1, <1>2, <1>5, <2>1, FS_AddElement
<1>6. CASE s = "unborn"
  BY <1>2, <1>6 DEF Ended
<1> QED BY <1>4, <1>5, <1>6

LEMMA AliveUnchanged == status' = status => Alive' = Alive
BY DEF Alive

\* A begin brings a new handle along with at most one level.
LEMMA BeginAtCounts ==
    ASSUME TypeOK, CountInv, NEW h \in Handles, status[h] = "unborn", BeginAt(h, depth)
    PROVE  CountInv' /\ \E s \in {"open", "dropping"} : SetStatus(h, s)
<1>1. PICK s \in {"open", "dropping"} : SetStatus(h, s)
  BY DEF BeginAt
<1>2. depth' \in {depth, depth + 1}
  BY DEF BeginAt
<1>3. s \in Status /\ s \notin Ended /\ s # "unborn" /\ h \notin Alive
  BY DEF Status, Ended, Alive
<1>4. Cardinality(Alive') = Cardinality(Alive) + 1 /\ Cardinality(Alive) \in Nat
  BY <1>1, <1>3, AliveAfter
<1> QED BY <1>1, <1>2, <1>4 DEF CountInv, TypeOK

\* A living handle that ends takes a level with it, or there is none left.
LEMMA EndCounts ==
    ASSUME TypeOK, CountInv, NEW h \in Alive, NEW s \in Ended, SetStatus(h, s),
           \/ depth' = depth - 1
           \/ depth' = depth /\ depth = 0
    PROVE  CountInv'
<1>1. h \in Handles /\ s \in Status
  BY DEF Alive, Status
<1>2. Cardinality(Alive') = Cardinality(Alive) - 1 /\ Cardinality(Alive) \in Nat
  BY <1>1, AliveAfter
<1>3. IsFiniteSet(Alive) /\ Cardinality(Alive) # 0
  BY HandleAssumption, FS_Subset, FS_EmptySet DEF Alive
<1> QED BY <1>2, <1>3 DEF CountInv, TypeOK

LEMMA DroppingCounts ==
    ASSUME TypeOK, CountInv, NEW h \in Alive, SetStatus(h, "dropping"), depth' = depth
    PROVE  CountInv'
<1>1. h \in Handles /\ "dropping" \in Status /\ "dropping" \notin Ended
  BY DEF Alive, Status, Ended
<1>2. Cardinality(Alive') = Cardinality(Alive)
  BY <1>1, AliveAfter
<1> QED BY <1>2 DEF CountInv

LEMMA WaitingUnchanged ==
    ASSUME TypeOK, NobodyWaits, NEW h \in Handles, NEW s \in Status \ Waiting,
           SetStatus(h, s), lock' = lock
    PROVE  NobodyWaits'
BY DEF NobodyWaits, SetStatus, TypeOK

LEMMA CountStep ==
    ASSUME QuietUse, TypeOK, StackInv, CountInv, NobodyWaits, [Next]_vars
    PROVE  CountInv' /\ NobodyWaits'
<1> DEFINE Goal == CountInv' /\ NobodyWaits'
<1> USE DEF Waiting, Status, Ended
<1>0. \A h \in Handles : status[h] \in {"open", "dropping"} => h \in Alive
  BY DEF Alive
<1>1. ASSUME NEW h \in Handles, BeginRoot(h) PROVE Goal
  <2>1. depth = 0 \/ Driver # "rusqlite"
    <3>1. Alive = {}
      BY <1>1 DEF BeginRoot
    <3>2. Cardinality(Alive) = 0
      BY <3>1, FS_EmptySet
    <3> QED BY <3>2 DEF CountInv, TypeOK
  <2>2. BeginAt(h, depth) /\ status[h] = "unborn" /\ lock' = lock
    BY <1>1, <2>1 DEF BeginRoot
  <2> QED BY <2>2, BeginAtCounts, WaitingUnchanged
<1>2. ASSUME NEW h \in Handles, NEW p \in Handles, BeginNested(p, h) PROVE Goal
  <2>1. BeginAt(h, depth) /\ status[h] = "unborn" /\ lock' = lock
    BY <1>2 DEF BeginNested
  <2> QED BY <2>1, BeginAtCounts, WaitingUnchanged
<1>3. ASSUME NEW h \in Handles,
             \/ BeginResume(h) \/ EndWait(h) \/ Cancel(h) \/ StreamRaw(h) \/ StreamDrop
             \/ \E p \in Handles : BeginWait(p, h)
      PROVE FALSE
  BY <1>3 DEF BeginResume, EndWait, Cancel, StreamRaw, StreamDrop, BeginWait,
              QuietUse, NobodyWaits
<1>4. ASSUME NEW h \in Handles, Commit(h) PROVE Goal
  <2>1. h \in Alive /\ lock' = lock
    BY <1>0, <1>4 DEF Commit, NobodyWaits
  <2>2. CASE AtDepthZero(h, "committed")
    <3>1. PICK s \in {"dropping", "panicked", "committed"} : SetStatus(h, s)
      BY <2>2 DEF AtDepthZero
    <3>2. depth' = depth /\ depth = 0
      BY <2>2 DEF AtDepthZero
    <3> QED BY <2>1, <3>1, <3>2, EndCounts, DroppingCounts, WaitingUnchanged
  <2>3. CASE depth > 0 /\ depth' = depth - 1 /\ SetStatus(h, "committed")
    BY <2>1, <2>3, EndCounts, WaitingUnchanged
  <2>4. CASE depth' = depth /\ SetStatus(h, "dropping")
    BY <2>1, <2>4, DroppingCounts, WaitingUnchanged
  <2> QED BY <1>4, <2>2, <2>3, <2>4 DEF Commit, CommitAt
<1>5. ASSUME NEW h \in Handles, Rollback(h) PROVE Goal
  <2>1. h \in Alive /\ lock' = lock
    BY <1>0, <1>5 DEF Rollback, NobodyWaits
  <2>2. CASE AtDepthZero(h, "rolledback")
    <3>1. PICK s \in {"dropping", "panicked", "rolledback"} : SetStatus(h, s)
      BY <2>2 DEF AtDepthZero
    <3>2. depth' = depth /\ depth = 0
      BY <2>2 DEF AtDepthZero
    <3> QED BY <2>1, <3>1, <3>2, EndCounts, DroppingCounts, WaitingUnchanged
  <2>3. CASE depth > 0 /\ depth' = depth - 1 /\ SetStatus(h, "rolledback")
    BY <2>1, <2>3, EndCounts, WaitingUnchanged
  <2>4. CASE depth' = depth /\ SetStatus(h, "dropping")
    BY <2>1, <2>4, DroppingCounts, WaitingUnchanged
  <2> QED BY <1>5, <2>2, <2>3, <2>4 DEF Rollback, RollbackAt
<1>6. ASSUME NEW h \in Handles, DropHandle(h) PROVE Goal
  <2>1. h \in Alive /\ lock' = lock /\ AfterDrop(h) \in {"dropped", "failed"}
    BY <1>0, <1>6 DEF DropHandle, AfterDrop
  <2>2. CASE depth = 0 /\ depth' = depth /\ SetStatus(h, AfterDrop(h))
    BY <2>1, <2>2, EndCounts, WaitingUnchanged
  <2>3. CASE depth' = depth - 1 /\ SetStatus(h, AfterDrop(h))
    BY <2>1, <2>3, EndCounts, WaitingUnchanged
  <2>4. lock = NoHandle
    BY DEF NobodyWaits
  <2>5. ASSUME depth > 0 PROVE ~RollbackRefused(depth)
    <3>1. inTx /\ (depth # 1 => HasSavepoint(depth - 1))
      BY <2>5 DEF StackInv, HasSavepoint, Newest, TypeOK
    <3> QED BY <3>1 DEF RollbackRefused, QuietUse, RollbacksSucceed
  <2> QED BY <1>6, <2>2, <2>3, <2>4, <2>5 DEF DropHandle, StartRollback
<1>7. ASSUME NEW h \in Handles, NEW w \in Writes, Execute(h, w) PROVE Goal
  BY <1>7, AliveUnchanged DEF Execute, CountInv, NobodyWaits
<1>8. CASE UNCHANGED vars
  BY <1>8, AliveUnchanged DEF vars, CountInv, NobodyWaits
<1>9. CASE StreamDrop
  BY <1>9 DEF StreamDrop, NobodyWaits
<1> QED BY <1>1, <1>2, <1>3, <1>4, <1>5, <1>6, <1>7, <1>8, <1>9 DEF Next

QuietInv == TypeOK /\ StackInv /\ CountInv /\ NobodyWaits

LEMMA QuietStep ==
    ASSUME QuietUse
    PROVE  Spec => []QuietInv
<1>1. Init => QuietInv
  BY InitTyped, InitStack DEF QuietInv
<1>2. QuietInv /\ [Next]_vars => QuietInv'
  <2> SUFFICES ASSUME QuietInv, [Next]_vars PROVE QuietInv'
    OBVIOUS
  <2>1. Alive = {} => depth = 0
    BY FS_EmptySet DEF QuietInv, CountInv, TypeOK
  <2> QED BY <2>1, TypeStep, StackStep, CountStep DEF QuietInv
<1> QED BY <1>1, <1>2, PTL DEF Spec

\* When the client keeps no stream beside other handles and the server accepts
\* rollbacks, the counter and the savepoints stay in step on every driver, and
\* the last handle to go leaves the connection without an open transaction, in
\* whatever order the handles were used.
THEOREM QuietUseReturnsIdle ==
    ASSUME QuietUse
    PROVE  Spec => [](SessionInStep /\ ReturnedIdle)
<1>1. QuietInv => SessionInStep /\ ReturnedIdle
  <2> SUFFICES ASSUME QuietInv PROVE SessionInStep /\ ReturnedIdle
    OBVIOUS
  <2>1. Alive = {} => depth = 0
    BY FS_EmptySet DEF QuietInv, CountInv, TypeOK
  <2>2. depth = 0 => ~inTx
    BY DEF QuietInv, StackInv
  <2> QED BY <2>1, <2>2, StackGivesStep DEF QuietInv, ReturnedIdle
<1> QED BY <1>1, QuietStep, PTL

(***************************************************************************)
(* Refinement: the saved views the savepoints stand for are the stack of   *)
(* NestedTxn.                                                              *)
(***************************************************************************)
Stacked == TypeOK /\ StackInv

SavesFacts ==
    /\ Saves \in Seq(SUBSET Writes)
    /\ Len(Saves) = depth
    /\ depth > 0 => Saves[1] = durable
    /\ \A n \in 1 .. depth - 1 : \A i \in DOMAIN sp :
          Newest(n, i) => Saves[n + 1] = sp[i].saved

LEMMA SavesAre == Stacked => SavesFacts
<1> SUFFICES ASSUME Stacked PROVE SavesFacts
  OBVIOUS
<1>1. /\ depth \in Nat /\ durable \in SUBSET Writes /\ sp \in Seq(Savepoint)
      /\ DOMAIN sp = 1 .. Len(sp) /\ Len(sp) \in Nat
  BY DEF Stacked, TypeOK, SessionTypeOK
<1>2. ASSUME NEW n, NEW i \in DOMAIN sp, Newest(n, i)
      PROVE  SavedAs(n) = sp[i].saved
  <2>1. ASSUME NEW j \in DOMAIN sp, Newest(n, j) PROVE j = i
    <3>1. ~(i < j) /\ ~(j < i)
      BY <1>1, <1>2, <2>1 DEF Newest
    <3> QED BY <1>1, <3>1
  <2>2. (CHOOSE j \in DOMAIN sp : Newest(n, j)) = i
    BY <1>2, <2>1
  <2> QED BY <2>2 DEF SavedAs
<1>3. ASSUME NEW i \in DOMAIN sp PROVE sp[i].saved \in SUBSET Writes
  <2>1. sp[i] \in Savepoint
    BY <1>1, <1>3
  <2> QED BY <2>1 DEF Savepoint
<1>4. ASSUME NEW n \in 1 .. depth - 1 PROVE SavedAs(n) \in SUBSET Writes
  <2>1. PICK i \in DOMAIN sp : Newest(n, i)
    BY DEF Stacked, StackInv
  <2> QED BY <1>2, <1>3, <2>1
<1>5. \A i \in 1 .. depth : (IF i = 1 THEN durable ELSE SavedAs(i - 1)) \in SUBSET Writes
  BY <1>1, <1>4
<1>6. Saves \in Seq(SUBSET Writes) /\ Len(Saves) = depth
  BY <1>1, <1>5 DEF Saves
<1>7. ASSUME NEW n \in 1 .. depth - 1, NEW i \in DOMAIN sp, Newest(n, i)
      PROVE  Saves[n + 1] = sp[i].saved
  <2>1. n + 1 \in 1 .. depth /\ n + 1 # 1 /\ (n + 1) - 1 = n
    BY <1>1
  <2>2. Saves[n + 1] = SavedAs(n)
    BY <2>1 DEF Saves
  <2> QED BY <1>2, <1>7, <2>2
<1>8. depth > 0 => Saves[1] = durable
  BY <1>1 DEF Saves
<1> QED BY <1>6, <1>7, <1>8 DEF SavesFacts

LEMMA BeginRefines ==
    ASSUME Stacked, Stacked', BeginStmt(depth), depth' = depth + 1
    PROVE  Abstract!Begin
<1>1. SavesFacts /\ SavesFacts'
  BY SavesAre, PTL
<1>2. /\ depth \in Nat /\ view \in SUBSET Writes
      /\ sp \in Seq(Savepoint) /\ DOMAIN sp = 1 .. Len(sp) /\ Len(sp) \in Nat
  BY DEF Stacked, TypeOK, SessionTypeOK
<1>3. view' = view /\ durable' = durable
  BY DEF BeginStmt, StmtBegin, StmtSavepoint
<1> DEFINE A == Append(Saves, view)
<1>4. /\ A \in Seq(SUBSET Writes) /\ Len(A) = depth + 1 /\ A[depth + 1] = view
      /\ \A i \in 1 .. depth : A[i] = Saves[i]
  BY <1>1, <1>2, AppendProperties DEF SavesFacts
<1> HIDE DEF A
<1>5. CASE depth = 0
  <2>1. view = durable
    BY <1>5 DEF Stacked, StackInv
  <2>2. Saves' \in Seq(SUBSET Writes) /\ Len(Saves') = 1 /\ Saves'[1] = view
    BY <1>1, <1>3, <1>5, <2>1 DEF SavesFacts
  <2>3. A[1] = view /\ Len(A) = 1
    BY <1>4, <1>5
  <2>4. \A i \in 1 .. Len(Saves') : Saves'[i] = A[i]
    BY <2>2, <2>3
  <2>5. Saves' = A
    BY <1>4, <2>2, <2>3, <2>4, SeqEqual, Zenon
  <2> QED BY <1>3, <2>5 DEF Abstract!Begin, A
<1>6. CASE depth > 0
  <2>1. sp' = Append(sp, [name |-> depth, saved |-> view])
    BY <1>2, <1>6 DEF BeginStmt, StmtSavepoint
  <2>2. /\ DOMAIN sp' = 1 .. Len(sp) + 1
        /\ sp'[Len(sp) + 1] = [name |-> depth, saved |-> view]
        /\ \A i \in DOMAIN sp : i \in DOMAIN sp' /\ sp'[i] = sp[i]
    BY <1>2, <2>1
  <2>3. ASSUME NEW n \in 1 .. depth - 1 PROVE Saves'[n + 1] = Saves[n + 1]
    <3>1. PICK i \in DOMAIN sp : Newest(n, i)
      BY DEF Stacked, StackInv
    <3>2. Newest(n, i)'
      <4>1. n # depth
        BY <1>2
      <4> QED BY <1>2, <2>2, <3>1, <4>1 DEF Newest
    <3>3. n \in 1 .. depth' - 1
      BY <1>2
    <3> QED BY <1>1, <2>2, <3>1, <3>2, <3>3 DEF SavesFacts
  <2>4. Saves'[depth + 1] = view
    <3>0. PICK d \in Nat : d = depth
      BY <1>2
    <3>1. PICK k \in Nat : k = Len(sp) + 1
      BY <1>2
    <3>2. Newest(d, k)'
      BY <1>2, <2>2, <3>0, <3>1 DEF Newest
    <3>3. d \in 1 .. depth' - 1 /\ k \in DOMAIN sp' /\ sp'[k].saved = view
      BY <1>2, <1>6, <2>2, <3>0, <3>1
    <3>4. Saves'[d + 1] = sp'[k].saved
      BY <1>1, <3>2, <3>3 DEF SavesFacts
    <3> QED BY <3>0, <3>3, <3>4
  <2>5. Saves'[1] = Saves[1]
    BY <1>1, <1>2, <1>3, <1>6 DEF SavesFacts
  <2>6. ASSUME NEW i \in 1 .. depth + 1 PROVE Saves'[i] = A[i]
    <3>1. CASE i = 1
      <4>1. 1 \in 1 .. depth
        BY <1>2, <1>6
      <4>2. A[1] = Saves[1]
        BY <1>4, <4>1
      <4> QED BY <2>5, <3>1, <4>2
    <3>2. CASE i = depth + 1
      BY <1>4, <2>4, <3>2
    <3>3. CASE i \in 2 .. depth
      <4>1. i - 1 \in 1 .. depth - 1 /\ (i - 1) + 1 = i /\ i \in 1 .. depth
        BY <1>2, <3>3
      <4>2. Saves'[i] = Saves[i]
        BY <2>3, <4>1
      <4> QED BY <1>4, <4>1, <4>2
    <3> QED BY <1>2, <3>1, <3>2, <3>3
  <2>7. Saves' \in Seq(SUBSET Writes) /\ Len(Saves') = Len(A) /\ Len(A) = depth + 1
    BY <1>1, <1>4 DEF SavesFacts
  <2>8. Saves' = A
    BY <1>4, <2>6, <2>7, SeqEqual, Zenon
  <2> QED BY <1>3, <2>8 DEF Abstract!Begin, A
<1> QED BY <1>2, <1>5, <1>6

LEMMA CutRefines ==
    ASSUME Stacked, Stacked', depth > 1, depth' = depth - 1, durable' = durable,
           NEW i \in DOMAIN sp, Newest(depth - 1, i),
           NEW k \in {i - 1, i}, sp' = SubSeq(sp, 1, k)
    PROVE  /\ Abstract!Forget
           /\ Saves # <<>> /\ Len(Saves) # 1 /\ Saves[Len(Saves)] = sp[i].saved
<1>1. SavesFacts /\ SavesFacts'
  BY SavesAre, PTL
<1>2. /\ depth \in Nat /\ i \in 1 .. Len(sp) /\ k \in 0 .. Len(sp)
      /\ sp \in Seq(Savepoint) /\ DOMAIN sp = 1 .. Len(sp) /\ Len(sp) \in Nat
  BY DEF Stacked, TypeOK, SessionTypeOK
<1>3. DOMAIN sp' = 1 .. k /\ \A j \in 1 .. k : sp'[j] = sp[j]
  BY <1>2, PrefixTyped
<1>4. depth - 1 \in 1 .. depth - 1 /\ (depth - 1) + 1 = depth
  BY <1>2
<1>5. Len(Saves) = depth /\ Saves[depth] = sp[i].saved
  BY <1>1, <1>4 DEF SavesFacts
<1>6. ASSUME NEW n \in 1 .. depth - 2 PROVE Saves'[n + 1] = Saves[n + 1]
  <2>1. n \in 1 .. depth - 1 /\ n \in 1 .. depth' - 1
    BY <1>2
  <2>2. PICK a \in DOMAIN sp : Newest(n, a)
    BY <2>1 DEF Stacked, StackInv
  <2>3. a < i
    <3>1. sp[a].name = n /\ sp[i].name = depth - 1 /\ n < depth - 1
      BY <1>2, <2>2 DEF Newest
    <3>2. i <= a => sp[i].name <= sp[a].name
      BY <2>2 DEF Stacked, StackInv
    <3> QED BY <1>2, <3>1, <3>2
  <2>4. a \in DOMAIN sp' /\ sp'[a] = sp[a]
    BY <1>2, <1>3, <2>3
  <2>5. \A b \in DOMAIN sp' : b \in DOMAIN sp /\ sp'[b] = sp[b]
    BY <1>2, <1>3
  <2>6. Newest(n, a)'
    BY <2>2, <2>4, <2>5 DEF Newest
  <2> QED BY <1>1, <2>1, <2>2, <2>4, <2>6 DEF SavesFacts
<1>7. Saves'[1] = Saves[1]
  BY <1>1, <1>2 DEF SavesFacts
<1> DEFINE F == SubSeq(Saves, 1, Len(Saves) - 1)
<1>8. /\ F \in Seq(SUBSET Writes) /\ Len(F) = depth - 1
      /\ \A j \in 1 .. depth - 1 : F[j] = Saves[j]
  BY <1>1, <1>2, <1>5 DEF SavesFacts
<1> HIDE DEF F
<1>9. \A j \in 1 .. depth - 1 : Saves'[j] = F[j]
  <2> TAKE j \in 1 .. depth - 1
  <2>1. CASE j = 1
    BY <1>2, <1>7, <1>8, <2>1
  <2>2. CASE j # 1
    <3>1. j - 1 \in 1 .. depth - 2 /\ (j - 1) + 1 = j
      BY <1>2, <2>2
    <3>2. Saves'[j] = Saves[j]
      BY <1>6, <3>1
    <3> QED BY <1>8, <3>2
  <2> QED BY <2>1, <2>2
<1>10. Saves' \in Seq(SUBSET Writes) /\ Len(Saves') = depth - 1
  BY <1>1 DEF SavesFacts
<1>11. Saves' = F
  BY <1>8, <1>9, <1>10, SeqEqual, Zenon
<1>12. Saves # <<>> /\ Len(Saves) # 1
  BY <1>2, <1>5
<1> QED BY <1>5, <1>11, <1>12 DEF F, Abstract!Forget

\* Ending the only level: the stack becomes empty.
LEMMA LastRefines ==
    ASSUME Stacked, Stacked', depth = 1, depth' = 0
    PROVE  /\ Abstract!Forget
           /\ Saves # <<>> /\ Len(Saves) = 1 /\ Saves[1] = durable
<1>1. SavesFacts /\ SavesFacts'
  BY SavesAre, PTL
<1>2. Saves \in Seq(SUBSET Writes) /\ Len(Saves) = 1 /\ Saves[1] = durable
  BY <1>1 DEF SavesFacts
<1>3. Saves' = <<>>
  BY <1>1 DEF SavesFacts
<1>4. SubSeq(Saves, 1, 0) = <<>>
  BY <1>2
<1> QED BY <1>2, <1>3, <1>4 DEF Abstract!Forget

LEMMA CommitRefines ==
    ASSUME Stacked, Stacked', depth > 0, CommitStmt(depth), depth' = depth - 1
    PROVE  Abstract!Commit
<1>1. CASE depth = 1
  <2>1. durable' = view /\ view' = view
    BY <1>1 DEF CommitStmt, StmtCommit
  <2> QED BY <1>1, <2>1, LastRefines DEF Abstract!Commit
<1>2. CASE depth # 1
  <2>1. PICK i \in DOMAIN sp : Newest(depth - 1, i) /\ sp' = SubSeq(sp, 1, i - 1)
    BY <1>2 DEF CommitStmt, StmtRelease
  <2>2. depth > 1 /\ view' = view /\ durable' = durable
    BY <1>2 DEF CommitStmt, StmtRelease, Stacked, TypeOK
  <2>3. Abstract!Forget /\ Saves # <<>> /\ Len(Saves) # 1
    BY <2>1, <2>2, CutRefines
  <2> QED BY <2>2, <2>3 DEF Abstract!Commit
<1> QED BY <1>1, <1>2

LEMMA RollbackRefines ==
    ASSUME Stacked, Stacked', depth > 0, RollbackStmt(depth), depth' = depth - 1
    PROVE  Abstract!Rollback
<1>1. CASE depth = 1
  <2>1. durable' = durable /\ view' = durable
    BY <1>1 DEF RollbackStmt, StmtRollback
  <2>2. Abstract!Forget /\ Saves # <<>> /\ Len(Saves) = 1 /\ Saves[1] = durable
    BY <1>1, LastRefines
  <2>3. view' = Saves[Len(Saves)]
    BY <2>1, <2>2
  <2> QED BY <2>1, <2>2, <2>3 DEF Abstract!Rollback
<1>2. CASE depth # 1
  <2>1. PICK i \in DOMAIN sp : /\ Newest(depth - 1, i)
                               /\ sp' = SubSeq(sp, 1, i)
                               /\ view' = sp[i].saved
    BY <1>2 DEF RollbackStmt, StmtRollbackTo
  <2>2. depth > 1 /\ durable' = durable
    BY <1>2 DEF RollbackStmt, StmtRollbackTo, Stacked, TypeOK
  <2>3. Abstract!Forget /\ Saves # <<>> /\ Saves[Len(Saves)] = sp[i].saved
    BY <2>1, <2>2, CutRefines
  <2> QED BY <2>1, <2>2, <2>3 DEF Abstract!Rollback
<1> QED BY <1>1, <1>2

LEMMA WriteRefines ==
    ASSUME Stacked, Stacked', NEW w \in Writes, StmtWrite(w), depth' = depth
    PROVE  Abstract!Write(w)
<1>1. SavesFacts /\ SavesFacts'
  BY SavesAre, PTL
<1>2. depth \in Nat /\ sp' = sp /\ view' = view \cup {w}
  BY DEF StmtWrite, Stacked, TypeOK
<1>3. durable' = IF depth = 0 THEN view' ELSE durable
  BY <1>2 DEF StmtWrite, Stacked, StackInv
<1>4. Saves = <<>> <=> depth = 0
  BY <1>1, <1>2 DEF SavesFacts
<1>5. Saves' = Saves
  <2>1. CASE depth = 0
    <3>1. Saves = <<>>
      BY <1>4, <2>1
    <3>2. Saves' = <<>>
      BY <1>1, <2>1 DEF SavesFacts
    <3> QED BY <3>1, <3>2
  <2>2. CASE depth # 0
    BY <1>2, <1>3, <2>2 DEF Saves, SavedAs, Newest
  <2> QED BY <2>1, <2>2
<1> QED BY <1>2, <1>3, <1>4, <1>5 DEF Abstract!Write

LEMMA SavesUnchanged ==
    UNCHANGED <<sp, view, durable, depth>> => UNCHANGED Abstract!vars
BY DEF Abstract!vars, Saves, SavedAs, Newest

LEMMA BeginAtRefines ==
    ASSUME Stacked, Stacked', NEW h, BeginAt(h, depth)
    PROVE  [Abstract!Next]_(Abstract!vars)
<1>1. CASE BeginStmt(depth) /\ depth' = depth + 1
  BY <1>1, BeginRefines DEF Abstract!Next
<1>2. CASE depth' = depth /\ UNCHANGED sessionVars
  BY <1>2, SavesUnchanged DEF sessionVars
<1> QED BY <1>1, <1>2 DEF BeginAt

LEMMA RefinementStep ==
    ASSUME Stacked, Stacked', [Next]_vars,
           Driver = "rusqlite" /\ Alive = {} => depth = 0
    PROVE  [Abstract!Next]_(Abstract!vars)
<1> DEFINE Goal == [Abstract!Next]_(Abstract!vars)
<1>0. UNCHANGED <<sessionVars, depth>> => Goal
  BY SavesUnchanged DEF sessionVars
<1>a. depth > 0 /\ CommitStmt(depth) /\ depth' = depth - 1 => Goal
  BY CommitRefines DEF Abstract!Next
<1>b. depth > 0 /\ RollbackStmt(depth) /\ depth' = depth - 1 => Goal
  BY RollbackRefines DEF Abstract!Next
<1>1. ASSUME NEW h \in Handles, BeginRoot(h) PROVE Goal
  <2>1. BeginAt(h, depth)
    BY <1>1 DEF BeginRoot
  <2> QED BY <2>1, BeginAtRefines
<1>2. ASSUME NEW h \in Handles, BeginResume(h) PROVE Goal
  BY <1>2, BeginAtRefines DEF BeginResume
<1>3. ASSUME NEW h \in Handles, NEW p \in Handles, BeginNested(p, h) PROVE Goal
  BY <1>3, BeginAtRefines DEF BeginNested
<1>4. ASSUME NEW h \in Handles, NEW p \in Handles, BeginWait(p, h) PROVE Goal
  BY <1>0, <1>4 DEF BeginWait
<1>5. ASSUME NEW h \in Handles, Commit(h) PROVE Goal
  BY <1>0, <1>a, <1>5 DEF Commit, CommitAt, AtDepthZero
<1>6. ASSUME NEW h \in Handles, Rollback(h) PROVE Goal
  BY <1>0, <1>b, <1>6 DEF Rollback, RollbackAt, AtDepthZero
<1>7. ASSUME NEW h \in Handles, EndWait(h) \/ Cancel(h) \/ StreamRaw(h) PROVE Goal
  BY <1>0, <1>7 DEF EndWait, Cancel, StreamRaw
<1>8. ASSUME NEW h \in Handles, DropHandle(h) PROVE Goal
  BY <1>0, <1>b, <1>8 DEF DropHandle, StartRollback
<1>9. ASSUME NEW h \in Handles, NEW w \in Writes, Execute(h, w) PROVE Goal
  <2>1. StmtWrite(w) /\ depth' = depth
    BY <1>9 DEF Execute
  <2> QED BY <2>1, WriteRefines DEF Abstract!Next
<1>10. CASE StreamDrop
  BY <1>0, <1>10 DEF StreamDrop
<1>11. CASE UNCHANGED vars
  BY <1>0, <1>11 DEF vars, sessionVars
<1> QED BY <1>1, <1>2, <1>3, <1>4, <1>5, <1>6, <1>7, <1>8, <1>9, <1>10,
           <1>11 DEF Next

LEMMA RefinementInit == Init => Abstract!Init
<1> SUFFICES ASSUME Init PROVE Abstract!Init
  OBVIOUS
<1>1. view = {} /\ durable = {} /\ depth = 0
  BY DEF Init, SessionInit
<1>2. Stacked
  BY InitTyped, InitStack DEF Stacked
<1>3. Saves = <<>>
  BY <1>1, <1>2, SavesAre DEF SavesFacts
<1> QED BY <1>1, <1>3 DEF Abstract!Init

\* With any sqlx driver the connection is one stack of nested transactions,
\* whatever the clients and the server do: streams, cancelled operations,
\* refused statements, handles ended in any order.
THEOREM SqlxRefines ==
    ASSUME Driver # "rusqlite"
    PROVE  Spec => ImplementsNestedTxn
<1>1. Init => Stacked
  BY InitTyped, InitStack DEF Stacked
<1>2. Stacked /\ [Next]_vars => Stacked'
  BY TypeStep, StackStep DEF Stacked
<1>3. Stacked /\ Stacked' /\ [Next]_vars => [Abstract!Next]_(Abstract!vars)
  BY RefinementStep
<1> QED BY <1>1, <1>2, <1>3, RefinementInit, PTL
        DEF Spec, ImplementsNestedTxn, Abstract!Spec

\* On every driver, rusqlite included, the same holds in quiet use: no stream
\* beside other handles, no refused rollback.
THEOREM QuietUseRefines ==
    ASSUME QuietUse
    PROVE  Spec => ImplementsNestedTxn
<1>1. QuietInv => Stacked /\ (Alive = {} => depth = 0)
  BY FS_EmptySet DEF QuietInv, Stacked, CountInv, TypeOK
<1>2. QuietInv /\ QuietInv' /\ [Next]_vars => [Abstract!Next]_(Abstract!vars)
  <2> SUFFICES ASSUME QuietInv, QuietInv', [Next]_vars
               PROVE  [Abstract!Next]_(Abstract!vars)
    OBVIOUS
  <2>1. Stacked /\ Stacked'
    BY <1>1, PTL
  <2> QED BY <1>1, <2>1, RefinementStep
<1> QED BY <1>2, QuietStep, RefinementInit, PTL
        DEF Spec, ImplementsNestedTxn, Abstract!Spec

(***************************************************************************)
(* Durability with a stack-like client: what each level began with are the *)
(* writes whose handles have committed or own one of the levels below it.  *)
(***************************************************************************)
LEMMA UptoIs ==
    ASSUME NEW n \in Nat, NEW S, NEW c \in [1 .. n -> S]
    PROVE  /\ Upto(c, 0) = {}
           /\ n > 0 => Upto(c, n) = Upto(c, n - 1) \cup {c[n]}
BY DEF Upto

LEMMA UptoGrows ==
    ASSUME NEW n \in Nat, NEW i \in 1 .. n, NEW c
    PROVE  Upto(c, i) \subseteq Upto(c, n) /\ c[i] \in Upto(c, i)
<1>1. \A j \in 1 .. i : j \in 1 .. n
  OBVIOUS
<1> QED BY <1>1 DEF Upto

\* Chains that agree below i.
LEMMA UptoSame ==
    ASSUME NEW c, NEW d, NEW i \in Nat, \A j \in 1 .. i : c[j] = d[j]
    PROVE  Upto(c, i) = Upto(d, i)
BY DEF Upto

Level(c) == TypeOK /\ FamilyInv /\ ChainInv(c) /\ KeptInv(c) /\ SavesFacts

LEMMA LevelFacts ==
    ASSUME NEW c \in Chains, Level(c)
    PROVE  /\ depth \in Nat
           /\ c \in [1 .. depth -> Handles]
           /\ anc \in [Handles -> SUBSET Handles]
           /\ status \in [Handles -> Status]
           /\ writer \in [Writes -> Handles \cup {NoHandle}]
           /\ \A i \in 1 .. depth : c[i] \in Handles
           /\ Saves \in Seq(SUBSET Writes) /\ Len(Saves) = depth
BY DEF Level, TypeOK, SavesFacts, Chains

\* What is kept depends on which handles have committed, and on the writers.
LEMMA KeptSame ==
    ASSUME NEW c, NEW d, NEW i, Upto(c, i) = Upto(d, i), TypeOK,
           writer' = writer,
           \A w \in Writes : writer[w] # NoHandle => anc'[writer[w]] = anc[writer[w]],
           \A w \in Writes : writer[w] # NoHandle =>
              \A a \in anc[writer[w]] :
                 a \notin Upto(c, i) => (status'[a] = "committed" <=> status[a] = "committed")
    PROVE  Kept(d, i)' = Kept(c, i)
BY DEF Kept, Upto

LEMMA LevelAdded ==
    ASSUME NEW c \in Chains, Level(c), TypeOK',
           NEW h \in Handles, status[h] = "unborn",
           NEW s \in {"open", "dropping"}, SetStatus(h, s),
           anc' = [anc EXCEPT ![h] = Upto(c, depth) \cup {h}],
           depth' = depth + 1, Saves' = Append(Saves, view),
           view' = view, durable' = durable, writer' = writer,
           \A i \in 1 .. depth : status[c[i]] = "open",
           depth = 0 => Alive = {}
    PROVE  SettledInv'
<1> USE DEF Status, Ended, Waiting
<1>0. PICK n \in Nat : n = depth
  BY LevelFacts
<1>1. PICK d \in [1 .. depth + 1 -> Handles] :
         d[depth + 1] = h /\ \A i \in 1 .. depth : d[i] = c[i]
  <2> DEFINE e == [i \in 1 .. depth + 1 |-> IF i = depth + 1 THEN h ELSE c[i]]
  <2>1. e \in [1 .. depth + 1 -> Handles]
    BY LevelFacts
  <2>2. e[depth + 1] = h /\ \A i \in 1 .. depth : e[i] = c[i]
    BY LevelFacts
  <2> QED BY <2>1, <2>2
<1>2. \A i \in 0 .. depth : Upto(d, i) = Upto(c, i)
  <2> TAKE i \in 0 .. depth
  <2>1. i \in Nat /\ \A j \in 1 .. i : c[j] = d[j]
    BY <1>1, LevelFacts
  <2> QED BY <2>1, UptoSame
<1>3. Upto(d, depth + 1) = Upto(c, depth) \cup {h}
  <2>1. Upto(d, depth + 1) = Upto(d, depth) \cup {d[depth + 1]}
    BY LevelFacts DEF Upto
  <2> QED BY <1>1, <1>2, <2>1, LevelFacts
<1>4. \A g \in Handles : h \notin anc[g]
  BY DEF Level, FamilyInv
<1>5. \A g \in Handles \ {h} : anc'[g] = anc[g] /\ status'[g] = status[g]
  BY LevelFacts DEF SetStatus
<1>6. anc'[h] = Upto(d, depth + 1) /\ status'[h] = s
  BY <1>3, LevelFacts DEF SetStatus
<1>7. Alive' = Alive \cup {h} /\ h \notin Alive
  BY <1>5, <1>6 DEF Alive
<1>8. ChainInv(d)'
  <2>1. \A i \in 1 .. depth : c[i] \in Alive /\ c[i] # h /\ anc[c[i]] = Upto(c, i)
    BY <1>7 DEF Level, ChainInv
  <2>2. \A i \in 1 .. depth' : d[i] \in Alive' /\ anc'[d[i]] = Upto(d, i)
    <3>1. d[depth + 1] \in Alive' /\ anc'[d[depth + 1]] = Upto(d, depth + 1)
      BY <1>1, <1>6, <1>7
    <3>2. ASSUME NEW i \in 1 .. depth PROVE d[i] \in Alive' /\ anc'[d[i]] = Upto(d, i)
      <4>1. d[i] = c[i] /\ c[i] \in Handles \ {h} /\ Upto(d, i) = Upto(c, i)
        BY <1>1, <1>2, <2>1, LevelFacts
      <4> QED BY <1>5, <1>7, <2>1, <4>1
    <3>3. \A i \in 1 .. depth' : i \in 1 .. depth \/ i = depth + 1
      BY <1>1, LevelFacts
    <3> QED BY <3>1, <3>2, <3>3
  <2>3. \A i, j \in 1 .. depth : c[i] = c[j] => i = j
    BY DEF Level, ChainInv
  <2>4. \A i, j \in 1 .. depth' : d[i] = d[j] => i = j
    BY <1>1, <2>1, <2>3, LevelFacts
  <2>5. \A i \in 1 .. depth' - 1 : status'[d[i]] = "open"
    BY <1>1, <1>5, <2>1, LevelFacts
  <2>6. Alive \subseteq Upto(c, depth)
    BY LevelFacts DEF Level, ChainInv
  <2>7. \A g \in Alive' : g \in Upto(d, depth')
    BY <1>3, <1>7, <2>6
  <2> QED BY <2>2, <2>4, <2>5, <2>7, <1>1 DEF ChainInv
<1>9. FamilyInv'
  <2>1. Upto(c, depth) \subseteq Handles /\ \A g \in Upto(c, depth) :
           anc[g] \subseteq Upto(c, depth) /\ status[g] # "unborn" /\ g # h
    <3>1. Upto(c, depth) \subseteq Handles
      BY LevelFacts DEF Upto
    <3>2. ASSUME NEW i \in 1 .. depth
          PROVE  anc[c[i]] \subseteq Upto(c, depth) /\ c[i] \in Alive
      BY UptoGrows, LevelFacts DEF Level, ChainInv
    <3> QED BY <1>7, <3>1, <3>2 DEF Upto, Alive
  <2>2. \A k \in Handles : \A g \in anc'[k] : anc'[g] \subseteq anc'[k] /\ status'[g] # "unborn"
    <3> SUFFICES ASSUME NEW k \in Handles, NEW g \in anc'[k]
                 PROVE  anc'[g] \subseteq anc'[k] /\ status'[g] # "unborn"
      OBVIOUS
    <3>1. CASE k = h
      BY <1>3, <1>5, <1>6, <2>1, <3>1
    <3>2. CASE k # h
      <4>1. g \in anc[k] /\ g \in Handles \ {h}
        BY <1>4, <1>5, <3>2, LevelFacts
      <4> QED BY <1>5, <3>2, <4>1 DEF Level, FamilyInv
    <3> QED BY <3>1, <3>2
  <2>3. \A w \in Writes : writer[w] # NoHandle => writer[w] \in anc'[writer[w]]
    BY <1>4, <1>5, LevelFacts DEF Level, FamilyInv
  <2> QED BY <2>2, <2>3 DEF FamilyInv
<1>10. \A i \in 0 .. depth : Kept(d, i)' = Kept(c, i)
  <2> TAKE i \in 0 .. depth
  <2>1. \A w \in Writes : writer[w] # NoHandle =>
           /\ anc'[writer[w]] = anc[writer[w]]
           /\ \A a \in anc[writer[w]] : a \in Handles \ {h}
    BY <1>4, <1>5, LevelFacts DEF Level, FamilyInv
  <2> QED BY <1>2, <1>5, <2>1, KeptSame DEF Level
<1>11. Kept(d, n + 1)' = Kept(d, n)'
  <2>1. \A w \in Writes : writer'[w] # NoHandle => h \notin anc'[writer'[w]]
    BY <1>4, <1>5, LevelFacts DEF Level, FamilyInv
  <2>2. Upto(d, n + 1) = Upto(d, n) \cup {h}
    BY <1>0, <1>2, <1>3, LevelFacts
  <2> QED BY <2>1, <2>2 DEF Kept, Upto
<1>12. KeptInv(d)'
  <2>1. /\ durable = Kept(c, 0) /\ view = Kept(c, depth)
        /\ \A i \in 1 .. depth : Saves[i] = Kept(c, i - 1)
    BY DEF Level, KeptInv
  <2>2. durable' = Kept(d, 0)' /\ view' = Kept(d, n + 1)'
    BY <1>0, <1>10, <1>11, <2>1, LevelFacts
  <2>3. \A i \in 1 .. depth + 1 : Saves'[i] = IF i = depth + 1 THEN view ELSE Saves[i]
    BY LevelFacts
  <2>4. \A i \in 1 .. depth + 1 : Saves'[i] = Kept(d, i - 1)'
    BY <1>10, <2>1, <2>3, LevelFacts
  <2>5. depth' = n + 1
    BY <1>0
  <2> QED BY <2>2, <2>4, <2>5 DEF KeptInv
<1> QED BY <1>1, <1>8, <1>9, <1>12 DEF SettledInv, Chains

\* The youngest level ends: its writes stay where they are or are undone.
LEMMA LevelEnded ==
    ASSUME NEW c \in Chains, Level(c), TypeOK', depth > 0,
           NEW s \in Ended, SetStatus(c[depth], s),
           depth' = depth - 1, Saves' = SubSeq(Saves, 1, depth - 1),
           UNCHANGED <<anc, writer>>,
           \/ /\ s = "committed" /\ view' = view
              /\ durable' = IF depth = 1 THEN view ELSE durable
           \/ /\ s # "committed" /\ view' = Saves[depth] /\ durable' = durable
    PROVE  SettledInv'
<1> USE DEF Status, Ended, Waiting
<1>0. PICK n \in Nat, h \in Handles : n = depth - 1 /\ h = c[depth]
  BY LevelFacts
<1>s. ASSUME NEW i \in 1 .. n
      PROVE  i - 1 \in 0 .. n - 1 /\ i - 1 \in 0 .. n /\ i \in 1 .. depth /\ Saves'[i] = Saves[i]
  <2>1. i \in Nat /\ n \in Nat /\ depth \in Nat /\ n = depth - 1 /\ 1 <= i /\ i <= n
    BY <1>0, LevelFacts
  <2>2. Saves \in Seq(SUBSET Writes) /\ Len(Saves) = depth
    BY LevelFacts
  <2>3. Saves' = SubSeq(Saves, 1, n)
    BY <1>0
  <2>4. Saves'[i] = Saves[i]
    BY <2>1, <2>2, <2>3
  <2> QED BY <2>1, <2>4
<1>1. PICK d \in [1 .. n -> Handles] : \A i \in 1 .. n : d[i] = c[i]
  <2>1. [i \in 1 .. n |-> c[i]] \in [1 .. n -> Handles]
    BY <1>0, LevelFacts
  <2> QED BY <2>1
<1>2. \A i \in 0 .. n : Upto(d, i) = Upto(c, i)
  <2> TAKE i \in 0 .. n
  <2>1. i \in Nat /\ \A j \in 1 .. i : c[j] = d[j]
    BY <1>0, <1>1
  <2> QED BY <2>1, UptoSame
<1>3. Upto(c, depth) = Upto(c, n) \cup {h}
  BY <1>0, UptoIs, LevelFacts
<1>4. \A i, j \in 1 .. depth : c[i] = c[j] => i = j
  BY DEF Level, ChainInv
<1>5. \A g \in Handles : status'[g] = IF g = h THEN s ELSE status[g]
  BY <1>0, LevelFacts DEF SetStatus
<1>6. \A i \in 1 .. n : c[i] \in Alive /\ c[i] # h /\ anc[c[i]] = Upto(c, i) /\ status[c[i]] = "open"
  <2> TAKE i \in 1 .. n
  <2>1. i \in 1 .. depth /\ depth \in 1 .. depth /\ i # depth /\ i \in 1 .. depth - 1
    BY <1>0, LevelFacts
  <2>2. c[i] # h
    BY <1>0, <1>4, <2>1
  <2> QED BY <2>1, <2>2 DEF Level, ChainInv
<1>7. h \notin Upto(c, n)
  BY <1>6 DEF Upto
<1>8. Alive' = Alive \ {h} /\ h \in Alive
  <2>1. h \in Alive
    BY <1>0, LevelFacts DEF Level, ChainInv
  <2> QED BY <1>5, <2>1 DEF Alive
<1>9. ChainInv(d)'
  <2>1. \A i \in 1 .. n : d[i] \in Alive' /\ anc'[d[i]] = Upto(d, i) /\ status'[d[i]] = "open"
    BY <1>0, <1>1, <1>2, <1>5, <1>6, <1>8, LevelFacts
  <2>2. \A i, j \in 1 .. n : d[i] = d[j] => i = j
    <3>1. \A i \in 1 .. n : i \in 1 .. depth
      BY <1>0, LevelFacts
    <3> QED BY <1>1, <1>4, <3>1
  <2>3. Alive \subseteq Upto(c, depth)
    BY LevelFacts DEF Level, ChainInv
  <2>4. Alive' \subseteq Upto(d, n)
    BY <1>0, <1>2, <1>3, <1>8, <2>3
  <2>5. \A i \in 1 .. depth' - 1 : i \in 1 .. n
    BY <1>0, LevelFacts
  <2> QED BY <1>0, <2>1, <2>2, <2>4, <2>5 DEF ChainInv
<1>10. FamilyInv'
  <2>1. \A g \in Handles : status[g] # "unborn" => status'[g] # "unborn"
    BY <1>5
  <2> QED BY <2>1, LevelFacts DEF Level, FamilyInv
<1>11. ASSUME NEW w \in Writes, writer[w] # NoHandle, NEW a \in anc[writer[w]]
       PROVE  a \in Handles
  BY <1>11, LevelFacts
<1>12. h \notin Upto(c, n) /\ status[h] # "committed"
  BY <1>7, <1>8 DEF Alive
<1>13. CASE s # "committed" /\ view' = Saves[depth] /\ durable' = durable
  <2>1. \A i \in 0 .. n : Kept(d, i)' = Kept(c, i)
    <3> TAKE i \in 0 .. n
    <3>1. \A a \in Handles : status'[a] = "committed" <=> status[a] = "committed"
      BY <1>5, <1>12, <1>13
    <3> QED BY <1>2, <1>11, <3>1, KeptSame DEF Level
  <2>2. KeptInv(d)'
    <3>1. /\ durable = Kept(c, 0)
          /\ \A i \in 1 .. depth : Saves[i] = Kept(c, i - 1)
      BY DEF Level, KeptInv
    <3>2. durable' = Kept(d, 0)' /\ view' = Kept(d, n)'
      BY <1>0, <1>13, <2>1, <3>1, LevelFacts
    <3>3. \A i \in 1 .. n : Saves'[i] = Kept(d, i - 1)'
      <4> TAKE i \in 1 .. n
      <4>1. i - 1 \in 0 .. n /\ i \in 1 .. depth /\ Saves'[i] = Saves[i]
        BY <1>s
      <4> QED BY <2>1, <3>1, <4>1
    <3> QED BY <1>0, <3>2, <3>3 DEF KeptInv
  <2> QED BY <1>0, <1>1, <1>9, <1>10, <2>2 DEF SettledInv, Chains
<1>14. CASE /\ s = "committed" /\ view' = view
            /\ durable' = IF depth = 1 THEN view ELSE durable
  <2>1. Kept(d, n)' = Kept(c, depth)
    <3>1. \A a \in Handles : status'[a] = "committed" <=> status[a] = "committed" \/ a = h
      BY <1>5, <1>14
    <3> QED BY <1>2, <1>3, <1>11, <3>1 DEF Kept
  <2>2. ASSUME NEW i \in 0 .. n - 1 PROVE Kept(d, i)' = Kept(c, i)
    <3>1. n \in 1 .. n /\ n # 0 /\ c[n] \in Alive /\ c[n] \in Handles
      <4>1. n \in 1 .. n /\ n \in 1 .. depth
        BY <1>0, <2>2, LevelFacts
      <4> QED BY <1>6, <4>1, LevelFacts
    <3>2. c[n] \notin Upto(c, i) /\ status[c[n]] = "open" /\ c[n] # h
      <4>1. \A j \in 1 .. i : j \in 1 .. depth /\ j # n /\ n \in 1 .. depth
        BY <1>0, <2>2, LevelFacts
      <4> QED BY <1>4, <1>6, <3>1, <4>1 DEF Upto
    <3>3. c[n] \in anc[h]
      <4>1. anc[h] = Upto(c, depth)
        <5>1. depth \in 1 .. depth
          BY LevelFacts
        <5> QED BY <1>0, <5>1 DEF Level, ChainInv
      <4>2. c[n] \in Upto(c, n)
        BY <1>0, <3>1, UptoGrows
      <4> QED BY <1>3, <4>1, <4>2
    <3>4. ASSUME NEW w \in Writes, writer[w] # NoHandle, h \in anc[writer[w]]
          PROVE  w \notin Kept(c, i) /\ w \notin Kept(d, i)'
      <4>1. c[n] \in anc[writer[w]]
        BY <3>3, <3>4, LevelFacts DEF Level, FamilyInv
      <4>2. status'[c[n]] = "open"
        BY <1>5, <3>1, <3>2
      <4> QED BY <1>2, <2>2, <3>2, <3>4, <4>1, <4>2 DEF Kept
    <3>5. ASSUME NEW w \in Writes, writer[w] # NoHandle, h \notin anc[writer[w]]
          PROVE  w \in Kept(c, i) <=> w \in Kept(d, i)'
      <4>1. \A a \in anc[writer[w]] : status'[a] = status[a]
        BY <1>5, <1>11, <3>5
      <4> QED BY <1>2, <2>2, <3>5, <4>1 DEF Kept
    <3>6. \A w \in Kept(c, i) : w \in Writes /\ writer[w] # NoHandle
      BY DEF Kept
    <3>7. \A w \in Kept(d, i)' : w \in Writes /\ writer[w] # NoHandle
      BY DEF Kept
    <3> QED BY <3>4, <3>5, <3>6, <3>7
  <2>3. KeptInv(d)'
    <3>1. /\ durable = Kept(c, 0) /\ view = Kept(c, depth)
          /\ \A i \in 1 .. depth : Saves[i] = Kept(c, i - 1)
      BY DEF Level, KeptInv
    <3>2. view' = Kept(d, n)'
      BY <1>14, <2>1, <3>1
    <3>3. durable' = Kept(d, 0)'
      <4>1. CASE depth = 1
        BY <1>0, <1>14, <2>1, <3>1, <4>1
      <4>2. CASE depth # 1
        <5>1. 0 \in 0 .. n - 1
          BY <1>0, <4>2, LevelFacts
        <5> QED BY <1>14, <2>2, <3>1, <4>2, <5>1
      <4> QED BY <4>1, <4>2
    <3>4. \A i \in 1 .. n : Saves'[i] = Kept(d, i - 1)'
      <4> TAKE i \in 1 .. n
      <4>1. i - 1 \in 0 .. n - 1 /\ i \in 1 .. depth /\ Saves'[i] = Saves[i]
        BY <1>s
      <4> QED BY <2>2, <3>1, <4>1
    <3> QED BY <1>0, <3>2, <3>3, <3>4 DEF KeptInv
  <2> QED BY <1>0, <1>1, <1>9, <1>10, <2>3 DEF SettledInv, Chains
<1> QED BY <1>13, <1>14

\* The handle of the youngest level, or one without a level, is left to Drop.
LEMMA LevelLeft ==
    ASSUME NEW c \in Chains, Level(c), TypeOK', NEW h \in Alive,
           depth > 0 => h = c[depth],
           NEW s \in {"dropping", "failed"}, s = "failed" => depth = 0,
           SetStatus(h, s), depth' = depth, Saves' = Saves,
           UNCHANGED <<view, durable, anc, writer>>
    PROVE  SettledInv'
<1> USE DEF Status, Ended, Waiting
<1>0. h \in Handles /\ status[h] # "committed"
  BY DEF Alive
<1>1. PICK n \in Nat : n = depth
  BY LevelFacts
<1>2. \A g \in Handles : status'[g] = IF g = h THEN s ELSE status[g]
  BY <1>0, LevelFacts DEF SetStatus
<1>3. Alive' = IF s = "failed" THEN Alive \ {h} ELSE Alive
  BY <1>2 DEF Alive
<1>4. ChainInv(c)'
  <2>1. \A i \in 1 .. n : c[i] \in Alive' /\ anc'[c[i]] = Upto(c, i)
    BY <1>1, <1>3, LevelFacts DEF Level, ChainInv
  <2>2. \A i, j \in 1 .. n : c[i] = c[j] => i = j
    BY <1>1 DEF Level, ChainInv
  <2>3. \A i \in 1 .. n - 1 : status'[c[i]] = "open"
    <3> TAKE i \in 1 .. n - 1
    <3>1. i \in 1 .. depth /\ depth \in 1 .. depth /\ i # depth
      BY <1>1
    <3>2. c[i] # h /\ c[i] \in Handles
      BY <1>1, <2>2, <3>1, LevelFacts
    <3> QED BY <1>1, <1>2, <3>2 DEF Level, ChainInv
  <2>4. ASSUME NEW g \in Alive'
        PROVE  g \in Upto(c, n) \/ (n = 0 /\ status'[g] = "dropping")
    <3>1. g \in Alive /\ g \in Handles
      BY <1>3 DEF Alive
    <3>2. g \in Upto(c, n) \/ (n = 0 /\ status[g] = "dropping")
      BY <1>1, <3>1 DEF Level, ChainInv
    <3>3. g = h => s = "dropping"
      BY <1>3
    <3> QED BY <1>2, <3>1, <3>2, <3>3
  <2> QED BY <1>1, <2>1, <2>2, <2>3, <2>4 DEF ChainInv
<1>5. FamilyInv'
  <2>1. \A g \in Handles : status[g] # "unborn" => status'[g] # "unborn"
    BY <1>2
  <2> QED BY <2>1, LevelFacts DEF Level, FamilyInv
<1>6. ASSUME NEW i PROVE Kept(c, i)' = Kept(c, i)
  <2>1. \A a \in Handles : status'[a] = "committed" <=> status[a] = "committed"
    BY <1>0, <1>2
  <2>2. \A w \in Writes : writer[w] # NoHandle => anc[writer[w]] \subseteq Handles
    BY LevelFacts
  <2> QED BY <2>1, <2>2, KeptSame DEF Level
<1>7. KeptInv(c)'
  <2>1. /\ durable = Kept(c, 0) /\ view = Kept(c, n)
        /\ \A i \in 1 .. n : Saves[i] = Kept(c, i - 1)
    BY <1>1 DEF Level, KeptInv
  <2>2. durable' = Kept(c, 0)' /\ view' = Kept(c, n)'
    BY <1>6, <2>1
  <2>3. \A i \in 1 .. n : Saves'[i] = Kept(c, i - 1)'
    BY <1>6, <2>1
  <2> QED BY <1>1, <2>2, <2>3 DEF KeptInv
<1>8. c \in Chains'
  BY DEF Chains
<1> QED BY <1>4, <1>5, <1>7, <1>8 DEF SettledInv

\* A root whose BEGIN is refused exists, without a level.
LEMMA RootLeft ==
    ASSUME NEW c \in Chains, Level(c), TypeOK', Alive = {}, depth = 0,
           NEW h \in Handles, status[h] = "unborn", SetStatus(h, "dropping"),
           anc' = [anc EXCEPT ![h] = {h}], depth' = depth, Saves' = Saves,
           UNCHANGED <<view, durable, writer>>
    PROVE  SettledInv'
<1> USE DEF Status, Ended, Waiting
<1>1. \A g \in Handles : h \notin anc[g]
  BY DEF Level, FamilyInv
<1>2. \A g \in Handles : /\ status'[g] = IF g = h THEN "dropping" ELSE status[g]
                         /\ anc'[g] = IF g = h THEN {h} ELSE anc[g]
  BY LevelFacts DEF SetStatus
<1>3. Alive' = {h}
  BY <1>2 DEF Alive
<1>4. ChainInv(c)'
  BY <1>2, <1>3 DEF ChainInv
<1>5. FamilyInv'
  <2>1. \A k \in Handles : \A g \in anc'[k] : anc'[g] \subseteq anc'[k] /\ status'[g] # "unborn"
    BY <1>1, <1>2, LevelFacts DEF Level, FamilyInv
  <2>2. \A w \in Writes : writer[w] # NoHandle => writer[w] \in anc'[writer[w]]
    BY <1>1, <1>2, LevelFacts DEF Level, FamilyInv
  <2> QED BY <2>1, <2>2 DEF FamilyInv
<1>6. Kept(c, 0)' = Kept(c, 0)
  <2>1. \A w \in Writes : writer[w] # NoHandle =>
           writer[w] \in Handles \ {h} /\ anc[writer[w]] \subseteq Handles \ {h}
    BY <1>1, LevelFacts DEF Level, FamilyInv
  <2> QED BY <1>2, <2>1, KeptSame DEF Level
<1>7. KeptInv(c)'
  BY <1>6 DEF Level, KeptInv
<1>8. c \in Chains'
  BY DEF Chains
<1> QED BY <1>4, <1>5, <1>7, <1>8 DEF SettledInv

\* A write belongs to the youngest level.
LEMMA LevelWrites ==
    ASSUME NEW c \in Chains, Level(c), TypeOK', depth > 0,
           NEW w \in Writes, writer[w] = NoHandle,
           writer' = [writer EXCEPT ![w] = c[depth]],
           view' = view \cup {w}, durable' = durable, Saves' = Saves,
           UNCHANGED <<status, anc, depth>>
    PROVE  SettledInv'
<1>0. PICK n \in Nat, h \in Handles : n = depth /\ h = c[depth]
  BY LevelFacts
<1>1. n \in 1 .. n /\ n > 0 /\ anc[h] = Upto(c, n) /\ h \in Alive
  <2>1. depth \in 1 .. depth
    BY LevelFacts
  <2> QED BY <1>0, <2>1 DEF Level, ChainInv
<1>2. h \in anc[h] /\ h # NoHandle /\ status[h] # "committed"
  BY <1>0, <1>1, UptoGrows, HandleAssumption DEF Alive, Ended
<1>3. \A v \in Writes : writer'[v] = IF v = w THEN h ELSE writer[v]
  BY <1>0, LevelFacts
<1>4. Alive' = Alive
  BY AliveUnchanged
<1>5. ChainInv(c)'
  BY <1>4 DEF Level, ChainInv
<1>6. FamilyInv'
  BY <1>2, <1>3 DEF Level, FamilyInv
<1>7. \A i \in 0 .. n - 1 : Kept(c, i)' = Kept(c, i)
  <2> TAKE i \in 0 .. n - 1
  <2>1. h \notin Upto(c, i)
    <3>1. \A j \in 1 .. i : j \in 1 .. depth /\ j # depth /\ depth \in 1 .. depth
      BY <1>0
    <3> QED BY <1>0, <3>1 DEF Level, ChainInv, Upto
  <2>2. \A v \in Writes : v \in Kept(c, i)' <=> v \in Kept(c, i)
    BY <1>2, <1>3, <2>1 DEF Kept
  <2>3. Kept(c, i)' \subseteq Writes /\ Kept(c, i) \subseteq Writes
    BY DEF Kept
  <2> QED BY <2>2, <2>3
<1>8. Kept(c, n)' = Kept(c, n) \cup {w}
  <2>1. \A v \in Writes : v \in Kept(c, n)' <=> v \in Kept(c, n) \/ v = w
    BY <1>1, <1>2, <1>3 DEF Kept
  <2>2. Kept(c, n)' \subseteq Writes /\ Kept(c, n) \subseteq Writes
    BY DEF Kept
  <2> QED BY <2>1, <2>2
<1>9. KeptInv(c)'
  <2>1. /\ durable = Kept(c, 0) /\ view = Kept(c, n)
        /\ \A i \in 1 .. n : Saves[i] = Kept(c, i - 1)
    BY <1>0 DEF Level, KeptInv
  <2>2. durable' = Kept(c, 0)' /\ view' = Kept(c, n)'
    BY <1>1, <1>7, <1>8, <2>1
  <2>3. \A i \in 1 .. n : Saves'[i] = Kept(c, i - 1)'
    BY <1>7, <2>1
  <2> QED BY <1>0, <2>2, <2>3 DEF KeptInv
<1>10. c \in Chains'
  BY DEF Chains
<1> QED BY <1>5, <1>6, <1>9, <1>10 DEF SettledInv

\* A stack-like client acts through the handle of the youngest level.
LEMMA UsableIsYoungest ==
    ASSUME Lifo, NEW c \in Chains, Level(c), NEW h \in Alive,
           status[h] = "open" /\ Usable(h)
    PROVE  depth > 0 /\ h = c[depth] /\ \A i \in 1 .. depth : status[c[i]] = "open"
<1>1. PICK i \in 1 .. depth : h = c[i]
  BY DEF Level, ChainInv, Upto
<1>2. depth \in 1 .. depth /\ c[depth] \in Alive
  <2>1. depth \in 1 .. depth
    BY <1>1, LevelFacts
  <2> QED BY <2>1 DEF Level, ChainInv
<1>3. h \in anc[c[depth]]
  BY <1>1, <1>2 DEF Level, ChainInv, Upto
<1>4. h = c[depth]
  BY <1>2, <1>3 DEF Usable
<1>5. ASSUME NEW j \in 1 .. depth PROVE status[c[j]] = "open"
  <2>1. j = depth \/ j \in 1 .. depth - 1
    BY LevelFacts
  <2> QED BY <1>4, <2>1 DEF Level, ChainInv
<1> QED BY <1>2, <1>4, <1>5, LevelFacts

\* A handle that is about to be dropped is the youngest, or there is no level.
LEMMA DroppingIsYoungest ==
    ASSUME NEW c \in Chains, Level(c), NEW h \in Alive, status[h] = "dropping", depth > 0
    PROVE  h = c[depth]
<1>1. PICK i \in 1 .. depth : h = c[i]
  BY DEF Level, ChainInv, Upto
<1>2. i \notin 1 .. depth - 1
  BY <1>1 DEF Level, ChainInv
<1> QED BY <1>1, <1>2, LevelFacts

LEMMA BeginSettles ==
    ASSUME StackUse, Stacked, Stacked', NEW c \in Chains, Level(c),
           NEW h \in Handles, status[h] = "unborn", BeginAt(h, depth),
           anc' = [anc EXCEPT ![h] = Upto(c, depth) \cup {h}], writer' = writer,
           \A i \in 1 .. depth : status[c[i]] = "open", depth = 0 => Alive = {}
    PROVE  SettledInv'
<1> USE DEF Stacked
<1>1. ASSUME NEW s \in {"open", "dropping"}, SetStatus(h, s), BeginStmt(depth), depth' = depth + 1
      PROVE  SettledInv'
  <2>1. Abstract!Begin
    BY <1>1, BeginRefines
  <2> QED BY <1>1, <2>1, LevelAdded DEF Abstract!Begin
<1>2. CASE BeginRefused(depth) /\ depth' = depth /\ SetStatus(h, "dropping") /\ UNCHANGED sessionVars
  <2>1. depth = 0
    BY <1>2 DEF BeginRefused, StackUse
  <2>2. UNCHANGED Abstract!vars
    BY <1>2, SavesUnchanged DEF sessionVars
  <2>3. Upto(c, depth) \cup {h} = {h}
    BY <2>1 DEF Upto
  <2> QED BY <1>2, <2>1, <2>2, <2>3, RootLeft DEF Abstract!vars
<1> QED BY <1>1, <1>2 DEF BeginAt, StackUse

LEMMA CommitSettles ==
    ASSUME StackUse, Stacked, Stacked', NEW c \in Chains, Level(c), depth > 0,
           NEW h \in Alive, h = c[depth], CommitAt(h), UNCHANGED <<anc, writer>>
    PROVE  SettledInv'
<1> USE DEF Stacked
<1>1. CASE CommitStmt(depth) /\ depth' = depth - 1 /\ SetStatus(h, "committed")
  <2>1. Abstract!Commit
    BY <1>1, CommitRefines
  <2>2. Len(Saves) = depth
    BY LevelFacts
  <2>3. "committed" \in Ended
    BY DEF Ended
  <2> QED BY <1>1, <2>1, <2>2, <2>3, LevelEnded DEF Abstract!Commit, Abstract!Forget
<1>2. CASE SetStatus(h, "dropping") /\ UNCHANGED <<sessionVars, depth>>
  <2>1. UNCHANGED Abstract!vars
    BY <1>2, SavesUnchanged DEF sessionVars
  <2> QED BY <1>2, <2>1, LevelLeft DEF Abstract!vars
<1> QED BY <1>1, <1>2 DEF CommitAt, AtDepthZero

LEMMA RollbackSettles ==
    ASSUME StackUse, Stacked, Stacked', NEW c \in Chains, Level(c), depth > 0,
           RollbackStmt(depth), depth' = depth - 1, UNCHANGED <<anc, writer>>,
           NEW s \in Ended, s # "committed", SetStatus(c[depth], s)
    PROVE  SettledInv'
<1>1. Abstract!Rollback
  BY RollbackRefines
<1>2. Len(Saves) = depth
  BY LevelFacts
<1> QED BY <1>1, <1>2, LevelEnded DEF Abstract!Rollback, Abstract!Forget, Stacked

\* A rollback is not refused while a level is open.
LEMMA RollbackAccepted ==
    ASSUME StackUse, Stacked, depth > 0
    PROVE  ~RollbackRefused(depth)
<1>1. inTx /\ (depth # 1 => HasSavepoint(depth - 1))
  BY DEF Stacked, StackInv, HasSavepoint, Newest, TypeOK
<1> QED BY <1>1 DEF RollbackRefused, StackUse, QuietUse, RollbacksSucceed

LEMMA SettledStep ==
    ASSUME StackUse, QuietInv, QuietInv', SettledInv, [Next]_vars
    PROVE  SettledInv'
<1> USE DEF Status, Ended, Waiting
<1>0. Stacked /\ Stacked' /\ NobodyWaits
  BY DEF QuietInv, Stacked
<1>a. PICK c \in Chains : Level(c)
  <2>1. SavesFacts
    BY <1>0, SavesAre
  <2> QED BY <1>0, <2>1 DEF SettledInv, Level, Stacked
<1>b. lock = NoHandle /\ \A h \in Handles : status[h] \notin Waiting
  BY <1>0 DEF NobodyWaits
<1>c. Lifo /\ Streamers = {}
  BY DEF StackUse, QuietUse
<1>d. Alive = {} => depth = 0
  BY FS_EmptySet DEF QuietInv, CountInv, TypeOK
<1>e. ASSUME NEW h \in Handles, status[h] \in {"open", "dropping"} PROVE h \in Alive
  BY <1>e DEF Alive
<1>1. ASSUME NEW h \in Handles, BeginRoot(h) PROVE SettledInv'
  <2>1. depth = 0 /\ Alive = {} /\ status[h] = "unborn" /\ writer' = writer /\ BeginAt(h, depth)
    BY <1>1, <1>d DEF BeginRoot
  <2>2. anc' = [anc EXCEPT ![h] = Upto(c, depth) \cup {h}]
    <3>1. Upto(c, depth) = {}
      BY <2>1 DEF Upto
    <3> QED BY <1>1, <3>1 DEF BeginRoot
  <2>3. \A i \in 1 .. depth : status[c[i]] = "open"
    BY <2>1
  <2> QED BY <1>0, <1>a, <2>1, <2>2, <2>3, BeginSettles
<1>2. ASSUME NEW h \in Handles, BeginResume(h) PROVE FALSE
  BY <1>2, <1>b DEF BeginResume
<1>3. ASSUME NEW h \in Handles, NEW p \in Handles, BeginNested(p, h) PROVE SettledInv'
  <2>1. status[p] = "open" /\ Usable(p) /\ status[h] = "unborn" /\ writer' = writer /\ BeginAt(h, depth)
    BY <1>3 DEF BeginNested
  <2>2. depth > 0 /\ p = c[depth] /\ \A i \in 1 .. depth : status[c[i]] = "open"
    BY <1>a, <1>c, <1>e, <2>1, UsableIsYoungest
  <2>3. anc[p] = Upto(c, depth)
    <3>1. depth \in 1 .. depth
      BY <1>a, <2>2, LevelFacts
    <3> QED BY <1>a, <2>2, <3>1 DEF Level, ChainInv
  <2>4. anc' = [anc EXCEPT ![h] = Upto(c, depth) \cup {h}]
    BY <1>3, <2>3 DEF BeginNested
  <2>5. depth = 0 => Alive = {}
    BY <1>a, <2>2, LevelFacts
  <2> HIDE DEF Status, Ended, Waiting
  <2> QED BY <1>0, <1>a, <2>1, <2>2, <2>4, <2>5, BeginSettles
<1>4. ASSUME NEW h \in Handles, NEW p \in Handles, BeginWait(p, h) PROVE FALSE
  BY <1>4, <1>c DEF BeginWait
<1>5. ASSUME NEW h \in Handles, Commit(h) PROVE SettledInv'
  <2>1. h \in Alive /\ status[h] = "open" /\ Usable(h)
    BY <1>5, <1>b, <1>e DEF Commit
  <2>2. depth > 0 /\ h = c[depth]
    BY <1>a, <1>c, <2>1, UsableIsYoungest
  <2> QED BY <1>0, <1>5, <1>a, <2>1, <2>2, CommitSettles DEF Commit
<1>6. ASSUME NEW h \in Handles, Rollback(h) PROVE SettledInv'
  <2>1. h \in Alive /\ status[h] = "open" /\ Usable(h)
    BY <1>6, <1>b, <1>e DEF Rollback
  <2>2. depth > 0 /\ h = c[depth]
    BY <1>a, <1>c, <2>1, UsableIsYoungest
  <2>3. RollbackStmt(depth) /\ depth' = depth - 1 /\ SetStatus(h, "rolledback")
    BY <1>0, <1>6, <2>2, RollbackAccepted DEF Rollback, RollbackAt, AtDepthZero
  <2> QED BY <1>0, <1>6, <1>a, <2>2, <2>3, RollbackSettles DEF Rollback
<1>7. ASSUME NEW h \in Handles, EndWait(h) \/ Cancel(h) \/ StreamRaw(h) PROVE FALSE
  BY <1>7, <1>b, <1>c DEF EndWait, Cancel, StreamRaw
<1>8. ASSUME NEW h \in Handles, DropHandle(h) PROVE SettledInv'
  <2>1. h \in Alive /\ UNCHANGED <<anc, writer>> /\ StartRollback(h)
    BY <1>8, <1>e DEF DropHandle
  <2>2. status[h] = "dropping" \/ (depth > 0 /\ h = c[depth])
    BY <1>8, <1>a, <1>c, <2>1, UsableIsYoungest DEF DropHandle
  <2>3. depth > 0 => h = c[depth]
    BY <1>a, <2>1, <2>2, DroppingIsYoungest
  <2>4. CASE depth = 0
    <3>1. SetStatus(h, "failed") /\ UNCHANGED <<sessionVars, depth>>
      BY <1>b, <2>1, <2>2, <2>4 DEF StartRollback, AfterDrop
    <3>2. UNCHANGED Abstract!vars
      BY <3>1, SavesUnchanged DEF sessionVars
    <3>3. TypeOK'
      BY <1>0 DEF Stacked
    <3> QED BY <1>a, <2>1, <2>4, <3>1, <3>2, <3>3, LevelLeft DEF Abstract!vars
  <2>5. CASE depth # 0
    <3>1. depth > 0
      BY <1>a, <2>5, LevelFacts
    <3>2. RollbackStmt(depth) /\ depth' = depth - 1 /\ SetStatus(h, AfterDrop(h))
      BY <1>0, <1>b, <2>1, <3>1, RollbackAccepted DEF StartRollback
    <3>3. AfterDrop(h) \in Ended /\ AfterDrop(h) # "committed"
      BY DEF AfterDrop
    <3> QED BY <1>0, <1>a, <2>1, <2>3, <3>1, <3>2, <3>3, RollbackSettles
  <2> QED BY <2>4, <2>5
<1>9. ASSUME NEW h \in Handles, NEW w \in Writes, Execute(h, w) PROVE SettledInv'
  <2>1. h \in Alive /\ status[h] = "open" /\ Usable(h)
    BY <1>9, <1>e DEF Execute
  <2>2. depth > 0 /\ h = c[depth]
    BY <1>a, <1>c, <2>1, UsableIsYoungest
  <2>3. Abstract!Write(w)
    BY <1>0, <1>9, WriteRefines DEF Execute
  <2>4. Saves # <<>>
    BY <1>a, <2>2, LevelFacts
  <2>5. TypeOK'
    BY <1>0 DEF Stacked
  <2> QED BY <1>9, <1>a, <2>2, <2>3, <2>4, <2>5, LevelWrites DEF Execute, Abstract!Write
<1>10. CASE StreamDrop
  BY <1>10, <1>b DEF StreamDrop
<1>11. CASE UNCHANGED vars
  <2>1. UNCHANGED Abstract!vars
    BY <1>11, SavesUnchanged DEF vars, sessionVars
  <2>2. UNCHANGED <<depth, status, anc, writer, Saves, view, durable, Alive>>
    BY <1>11, <2>1 DEF vars, Alive, Abstract!vars
  <2>3. FamilyInv'
    BY <1>a, <2>2 DEF Level, FamilyInv
  <2>4. \A i : Kept(c, i)' = Kept(c, i)
    BY <2>2 DEF Kept, Upto
  <2>5. c \in Chains' /\ ChainInv(c)'
    BY <1>a, <2>2 DEF Level, ChainInv, Chains, Upto
  <2>6. KeptInv(c)'
    BY <1>a, <2>2, <2>4 DEF Level, KeptInv
  <2> QED BY <2>3, <2>5, <2>6 DEF SettledInv
<1> QED BY <1>1, <1>2, <1>3, <1>4, <1>5, <1>6, <1>7, <1>8, <1>9, <1>10,
           <1>11 DEF Next

LEMMA InitSettled == Init => SettledInv
<1> SUFFICES ASSUME Init PROVE SettledInv
  OBVIOUS
<1>1. /\ depth = 0 /\ view = {} /\ durable = {} /\ Alive = {}
      /\ \A h \in Handles : anc[h] = {}
      /\ \A w \in Writes : writer[w] = NoHandle
  BY DEF Init, SessionInit, Alive
<1>2. PICK c \in Chains : TRUE
  <2>1. 1 .. depth = {}
    BY <1>1
  <2>2. [i \in {} |-> NoHandle] \in [{} -> Handles]
    OBVIOUS
  <2> QED BY <2>1, <2>2 DEF Chains
<1>3. FamilyInv
  BY <1>1 DEF FamilyInv
<1>4. ChainInv(c) /\ KeptInv(c)
  BY <1>1 DEF ChainInv, KeptInv, Kept
<1> QED BY <1>3, <1>4 DEF SettledInv

LEMMA SettledGives == SettledInv => CommittedIsDurable /\ OnlyCommittedIsDurable
<1> SUFFICES ASSUME NEW c \in Chains, KeptInv(c)
             PROVE  CommittedIsDurable /\ OnlyCommittedIsDurable
  BY DEF SettledInv
<1>1. Upto(c, 0) = {}
  BY DEF Upto
<1> QED BY <1>1 DEF KeptInv, Kept, CommittedIsDurable, OnlyCommittedIsDurable, CommittedThrough

LEMMA AlwaysSettled ==
    ASSUME StackUse
    PROVE  Spec => []SettledInv
<1>1. SettledInv /\ QuietInv /\ QuietInv' /\ [Next]_vars => SettledInv'
  BY SettledStep
<1>2. Spec => []QuietInv
  BY QuietStep DEF StackUse
<1> QED BY <1>1, <1>2, InitSettled, PTL DEF Spec

\* With a client that uses handles like a stack and a server that refuses
\* neither savepoints nor rollbacks, on every driver but MySQL's: a write is
\* durable once its handle and every handle around it have answered Ok to
\* commit.
THEOREM StackUseKeepsCommitted ==
    ASSUME StackUse
    PROVE  Spec => []CommittedIsDurable
BY AlwaysSettled, SettledGives, PTL

\* Under the same use, nothing is durable that a handle around it has not yet
\* committed, or has rolled back.
THEOREM StackUseKeepsOnlyCommitted ==
    ASSUME StackUse
    PROVE  Spec => []OnlyCommittedIsDurable
BY AlwaysSettled, SettledGives, PTL
=============================================================================
