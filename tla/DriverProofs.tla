---------------------------- MODULE DriverProofs ----------------------------
(***************************************************************************)
(* Theorems about RusqliteShared, for every set of threads and writes and  *)
(* every number of calls, and about MockConnection, for every set of       *)
(* callers and handles and every number of queued results.                 *)
(***************************************************************************)
EXTENDS RusqliteShared, MockConnection, TLAPS

\* One thread's step.
Step(t) ==
    \/ \E c \in Calls : Call(t, c)
    \/ TryLock(t) \/ Check(t) \/ Spin(t) \/ Expire(t)
    \/ ExecuteFails(t) \/ ExecutePanics(t) \/ Lend(t) \/ Close(t)
    \/ OpenTxn(t) \/ CommitTxn(t) \/ RollbackTxn(t) \/ EndStream(t) \/ Return(t)
    \/ \E w \in Writes : Execute(t, w) \/ TxnWrite(t, w)

\* Who holds the mutex.
GuardInv == \A t \in Threads : pc[t] \in {"checking", "guarded"} <=> guard = t

\* Who holds the connection, and what the slot and the mutex know of it.
LoanInv ==
    /\ \A t \in Threads : loan[t] # "none" => slot = "Loaned" /\ poisoned = FALSE
    /\ slot = "Loaned" => \E t \in Threads : loan[t] # "none"
    /\ \A t, u \in Threads : loan[t] # "none" /\ loan[u] # "none" => t = u
    /\ \A t \in Threads : pc[t] = "guarded" => slot = "Idle"
    /\ \A t \in Threads : pc[t] \in {"checking", "guarded"} => poisoned = FALSE
    /\ \A t \in Threads : pc[t] = "opening" => loan[t] = "txn"
    /\ \A t \in Threads : pc[t] = "returning" => loan[t] # "none"

\* Whose transaction is open, and which writes it may still undo.
InTxn(t) == loan[t] = "txn" /\ pc[t] \notin {"opening", "returning"}
TxnInv ==
    /\ \A t \in Threads : InTxn(t) => inTx = TRUE
    /\ inTx = TRUE => \E t \in Threads : InTxn(t)
DurableInv ==
    /\ settled = durable
    /\ durable \subseteq view
    /\ inTx = FALSE => view = durable

IInv == TypeOK /\ GuardInv /\ LoanInv /\ TxnInv /\ DurableInv

LEMMA NextIsStep == Next <=> \E t \in Threads : Step(t)
BY DEF Next, Step

LEMMA Initially == Init => IInv
<1> SUFFICES ASSUME Init PROVE IInv
  OBVIOUS
<1>1. TypeOK
  <2>1. inTx \in BOOLEAN
    BY DEF Init, SessionInit
  <2>2. poisoned \in BOOLEAN
    BY DEF Init
  <2>3. SessionTypeOK
    BY <2>1 DEF Init, SessionInit, SessionTypeOK
  <2> QED BY <2>2, <2>3, ThreadAssumption DEF Init, TypeOK, Calls
<1>2. GuardInv
  BY ThreadAssumption DEF Init, GuardInv
<1>3. LoanInv
  BY DEF Init, LoanInv
<1>4. TxnInv /\ DurableInv
  BY DEF Init, SessionInit, TxnInv, InTxn, DurableInv
<1> QED BY <1>1, <1>2, <1>3, <1>4 DEF IInv

(***************************************************************************)
(* Type correctness.                                                       *)
(***************************************************************************)
LEMMA StatementsTyped ==
    ASSUME SessionTypeOK,
           \/ StmtBegin \/ StmtCommit \/ StmtRollback \/ UNCHANGED sessionVars
           \/ \E w \in Writes : StmtWrite(w)
    PROVE  SessionTypeOK'
<1>1. CASE StmtBegin
  BY <1>1 DEF StmtBegin, SessionTypeOK
<1>2. CASE StmtCommit
  <2>1. inTx' \in BOOLEAN
    BY <1>2 DEF StmtCommit
  <2>2. sp' = <<>> /\ view' = view /\ durable' = view
    BY <1>2 DEF StmtCommit
  <2> QED BY <2>1, <2>2 DEF SessionTypeOK
<1>3. CASE StmtRollback
  <2>1. inTx' \in BOOLEAN
    BY <1>3 DEF StmtRollback
  <2>2. sp' = <<>> /\ view' = durable /\ durable' = durable
    BY <1>3 DEF StmtRollback
  <2> QED BY <2>1, <2>2 DEF SessionTypeOK
<1>4. CASE UNCHANGED sessionVars
  BY <1>4 DEF sessionVars, SessionTypeOK
<1>5. CASE \E w \in Writes : StmtWrite(w)
  BY <1>5 DEF StmtWrite, SessionTypeOK
<1> QED BY <1>1, <1>2, <1>3, <1>4, <1>5

LEMMA SessionTyped ==
    ASSUME SessionTypeOK, NEW t \in Threads, Step(t)
    PROVE  SessionTypeOK'
BY StatementsTyped
   DEF Step, Call, TryLock, Check, Spin, Expire, ExecuteFails, ExecutePanics, Lend,
       Close, OpenTxn, CommitTxn, RollbackTxn, EndStream, Return, Execute, TxnWrite

LEMMA ThreadsTyped ==
    ASSUME TypeOK, NEW t \in Threads, Step(t)
    PROVE  TypeOK'
<1> USE DEF TypeOK, Goto, Unlock, Acquiring
<1>0. SessionTypeOK'
  BY SessionTyped
<1>1. CASE \E c \in Calls : Call(t, c)
  BY <1>0, <1>1 DEF Call
<1>2. CASE TryLock(t)
  BY <1>0, <1>2 DEF TryLock
<1>3. CASE Check(t)
  BY <1>0, <1>3 DEF Check
<1>4. CASE Spin(t) \/ Expire(t)
  BY <1>0, <1>4 DEF Spin, Expire
<1>5. CASE ExecuteFails(t) \/ ExecutePanics(t)
  BY <1>0, <1>5 DEF ExecuteFails, ExecutePanics
<1>6. CASE Lend(t) \/ Close(t)
  BY <1>0, <1>6 DEF Lend, Close
<1>7. CASE OpenTxn(t)
  BY <1>0, <1>7 DEF OpenTxn
<1>8. CASE CommitTxn(t)
  BY <1>0, <1>8 DEF CommitTxn, SessionTypeOK
<1>9. CASE RollbackTxn(t) \/ EndStream(t) \/ Return(t)
  BY <1>0, <1>9 DEF RollbackTxn, EndStream, Return
<1>10. CASE \E w \in Writes : Execute(t, w) \/ TxnWrite(t, w)
  BY <1>0, <1>10 DEF Execute, TxnWrite, threadVars
<1> QED BY <1>1, <1>2, <1>3, <1>4, <1>5, <1>6, <1>7, <1>8, <1>9, <1>10 DEF Step

(***************************************************************************)
(* The mutex: the step of a thread moves only that thread, and takes the   *)
(* guard only when it is free.                                             *)
(***************************************************************************)
LEMMA GuardStep ==
    ASSUME TypeOK, GuardInv, NEW t \in Threads, Step(t)
    PROVE  GuardInv'
<1> USE ThreadAssumption DEF TypeOK, GuardInv, Goto, Unlock, Acquiring
<1>1. CASE \E c \in Calls : Call(t, c)
  BY <1>1 DEF Call
<1>2. CASE TryLock(t)
  BY <1>2 DEF TryLock
<1>3. CASE Check(t)
  BY <1>3 DEF Check
<1>4. CASE Spin(t) \/ Expire(t)
  BY <1>4 DEF Spin, Expire
<1>5. CASE ExecuteFails(t) \/ ExecutePanics(t)
  BY <1>5 DEF ExecuteFails, ExecutePanics
<1>6. CASE Lend(t) \/ Close(t)
  BY <1>6 DEF Lend, Close
<1>7. CASE OpenTxn(t) \/ CommitTxn(t)
  BY <1>7 DEF OpenTxn, CommitTxn
<1>8. CASE RollbackTxn(t) \/ EndStream(t) \/ Return(t)
  BY <1>8 DEF RollbackTxn, EndStream, Return
<1>9. CASE \E w \in Writes : Execute(t, w) \/ TxnWrite(t, w)
  BY <1>9 DEF Execute, TxnWrite, threadVars
<1> QED BY <1>1, <1>2, <1>3, <1>4, <1>5, <1>6, <1>7, <1>8, <1>9 DEF Step

(***************************************************************************)
(* The loan: it is made under the guard over an idle slot, and whoever     *)
(* holds it brings it back to a mutex that is not poisoned.                *)
(***************************************************************************)
LEMMA LoanStep ==
    ASSUME TypeOK, GuardInv, LoanInv, NEW t \in Threads, Step(t)
    PROVE  LoanInv'
<1> USE DEF TypeOK, LoanInv, Goto, Unlock, Acquiring
<1>1. CASE \E c \in Calls : Call(t, c)
  BY <1>1 DEF Call
<1>2. CASE TryLock(t)
  BY <1>2 DEF TryLock
<1>3. CASE Check(t)
  BY <1>3 DEF Check
<1>4. CASE Spin(t) \/ Expire(t)
  BY <1>4 DEF Spin, Expire
<1>5. CASE ExecuteFails(t)
  BY <1>5 DEF ExecuteFails
<1>6. CASE ExecutePanics(t)
  <2>1. loan[t] = "none" /\ \A u \in Threads : loan[u] = "none"
    BY <1>6 DEF ExecutePanics
  <2>2. \A u \in Threads : u # t => pc[u] \notin {"checking", "guarded"}
    BY <1>6 DEF ExecutePanics, GuardInv
  <2> QED BY <1>6, <2>1, <2>2 DEF ExecutePanics
<1>7. CASE Lend(t)
  <2>1. \A u \in Threads : u # t => pc[u] # "guarded"
    BY <1>7 DEF Lend, GuardInv
  <2>2. \A u \in Threads : loan[u] = "none"
    BY <1>7 DEF Lend
  <2>3. poisoned = FALSE /\ poisoned' = FALSE
    BY <1>7 DEF Lend
  <2> QED BY <1>7, <2>1, <2>2, <2>3 DEF Lend
<1>8. CASE Close(t)
  <2>1. \A u \in Threads : u # t => pc[u] # "guarded"
    BY <1>8 DEF Close, GuardInv
  <2> QED BY <1>8, <2>1 DEF Close
<1>9. CASE OpenTxn(t)
  BY <1>9 DEF OpenTxn
<1>10. CASE CommitTxn(t) \/ RollbackTxn(t) \/ EndStream(t)
  BY <1>10 DEF CommitTxn, RollbackTxn, EndStream
<1>11. CASE Return(t)
  <2>1. poisoned = FALSE /\ poisoned' = FALSE
    BY <1>11 DEF Return
  <2>2. slot' = "Idle" /\ pc' = [pc EXCEPT ![t] = "ready"]
    BY <1>11, <2>1 DEF Return
  <2>3. \A u \in Threads : u # t => loan[u] = "none"
    BY <1>11 DEF Return
  <2> QED BY <1>11, <2>1, <2>2, <2>3 DEF Return
<1>12. CASE \E w \in Writes : Execute(t, w) \/ TxnWrite(t, w)
  BY <1>12 DEF Execute, TxnWrite, threadVars
<1> QED BY <1>1, <1>2, <1>3, <1>4, <1>5, <1>6, <1>7, <1>8, <1>9, <1>10, <1>11, <1>12 DEF Step

(***************************************************************************)
(* The transaction: it is open exactly while its loan is in use.           *)
(***************************************************************************)
LEMMA TxnStep ==
    ASSUME TypeOK, GuardInv, LoanInv, TxnInv, NEW t \in Threads, Step(t)
    PROVE  TxnInv'
<1> USE DEF TypeOK, TxnInv, InTxn, Goto, Unlock, Acquiring
<1>1. CASE \E c \in Calls : Call(t, c)
  BY <1>1 DEF Call, sessionVars
<1>2. CASE TryLock(t)
  BY <1>2 DEF TryLock, sessionVars
<1>3. CASE Check(t)
  BY <1>3 DEF Check, sessionVars
<1>4. CASE Spin(t) \/ Expire(t)
  BY <1>4 DEF Spin, Expire, sessionVars
<1>5. CASE ExecuteFails(t) \/ ExecutePanics(t) \/ Lend(t) \/ Close(t)
  <2>1. \A u \in Threads : loan[u] = "none"
    BY <1>5 DEF ExecuteFails, ExecutePanics, Lend, Close, LoanInv
  <2> QED BY <1>5, <2>1 DEF ExecuteFails, ExecutePanics, Lend, Close, sessionVars
<1>6. CASE OpenTxn(t)
  <2>1. \A u \in Threads : u # t => loan[u] = "none"
    BY <1>6 DEF OpenTxn, LoanInv
  <2>2. loan[t] = "txn" /\ loan' = loan
    BY <1>6 DEF OpenTxn, LoanInv
  <2>3. CASE StmtBegin /\ Goto(t, "ready")
    <3>1. inTx' = TRUE
      BY <2>3 DEF StmtBegin
    <3> QED BY <2>1, <2>2, <2>3, <3>1
  <2>4. CASE UNCHANGED sessionVars /\ Goto(t, "returning")
    BY <1>6, <2>1, <2>2, <2>4 DEF OpenTxn, sessionVars
  <2> QED BY <1>6, <2>3, <2>4 DEF OpenTxn
<1>7. CASE CommitTxn(t) \/ RollbackTxn(t)
  <2>1. \A u \in Threads : u # t => loan[u] = "none"
    BY <1>7 DEF CommitTxn, RollbackTxn, LoanInv
  <2>2. inTx' = FALSE
    BY <1>7 DEF CommitTxn, RollbackTxn, StmtCommit, StmtRollback
  <2> QED BY <1>7, <2>1, <2>2 DEF CommitTxn, RollbackTxn
<1>8. CASE EndStream(t) \/ Return(t)
  BY <1>8 DEF EndStream, Return, sessionVars, LoanInv
<1>9. CASE \E w \in Writes : Execute(t, w) \/ TxnWrite(t, w)
  BY <1>9 DEF Execute, TxnWrite, StmtWrite, threadVars, LoanInv
<1> QED BY <1>1, <1>2, <1>3, <1>4, <1>5, <1>6, <1>7, <1>8, <1>9 DEF Step

(***************************************************************************)
(* The writes: what is answered Ok and what is durable is the same set,    *)
(* and an open transaction only adds to what it sees.                      *)
(***************************************************************************)
LEMMA DurableStep ==
    ASSUME TypeOK, LoanInv, TxnInv, DurableInv, NEW t \in Threads, Step(t)
    PROVE  DurableInv'
<1> USE DEF DurableInv
<1>1. CASE UNCHANGED <<sessionVars, settled>>
  BY <1>1 DEF sessionVars
<1>2. CASE OpenTxn(t)
  <2>1. CASE StmtBegin
    <3>1. inTx' = TRUE
      BY <2>1 DEF StmtBegin
    <3> QED BY <1>2, <2>1, <3>1 DEF OpenTxn, StmtBegin
  <2> QED BY <1>1, <1>2, <2>1 DEF OpenTxn
<1>3. CASE CommitTxn(t)
  BY <1>3 DEF CommitTxn, StmtCommit
<1>4. CASE RollbackTxn(t)
  BY <1>4 DEF RollbackTxn, StmtRollback
<1>5. CASE \E w \in Writes : Execute(t, w)
  <2>1. PICK w \in Writes : Execute(t, w)
    BY <1>5
  <2>2. \A u \in Threads : loan[u] = "none"
    BY <2>1 DEF Execute, LoanInv
  <2>3. inTx = FALSE
    <3>1. ~(inTx = TRUE)
      BY <2>2 DEF TxnInv, InTxn
    <3> QED BY <3>1 DEF TypeOK, SessionTypeOK
  <2>4. view' = view \cup {w} /\ durable' = view' /\ settled' = settled \cup {w}
    BY <2>1, <2>3 DEF Execute, StmtWrite
  <2> QED BY <2>3, <2>4
<1>6. CASE \E w \in Writes : TxnWrite(t, w)
  <2>1. PICK w \in Writes : TxnWrite(t, w)
    BY <1>6
  <2>2. inTx = TRUE
    BY <2>1 DEF TxnWrite, TxnInv, InTxn
  <2>3. inTx' = TRUE /\ view' = view \cup {w} /\ durable' = durable /\ settled' = settled
    BY <2>1, <2>2 DEF TxnWrite, StmtWrite, threadVars
  <2> QED BY <2>3
<1> QED
  BY <1>1, <1>2, <1>3, <1>4, <1>5, <1>6
     DEF Step, Call, TryLock, Check, Spin, Expire, ExecuteFails, ExecutePanics, Lend,
         Close, EndStream, Return

(***************************************************************************)
(* The invariant, and what follows from it.                                *)
(***************************************************************************)
LEMMA StutterKeeps ==
    ASSUME IInv, UNCHANGED vars
    PROVE  IInv'
<1> USE DEF vars, IInv
<1>1. TypeOK'
  BY DEF TypeOK, SessionTypeOK
<1>2. GuardInv' /\ LoanInv'
  BY DEF GuardInv, LoanInv
<1>3. TxnInv' /\ DurableInv'
  BY DEF TxnInv, InTxn, DurableInv
<1> QED BY <1>1, <1>2, <1>3

LEMMA StepKeeps ==
    ASSUME IInv, [Next]_vars
    PROVE  IInv'
<1>1. CASE Next
  <2>1. PICK t \in Threads : Step(t)
    BY <1>1, NextIsStep
  <2> QED BY <2>1, ThreadsTyped, GuardStep, LoanStep, TxnStep, DurableStep DEF IInv
<1> QED BY <1>1, StutterKeeps

LEMMA Invariant == Spec => []IInv
<1>1. IInv /\ [Next]_vars => IInv'
  BY StepKeeps
<1> QED BY Initially, <1>1, PTL DEF Spec

\* Every variable keeps its type.
THEOREM TypeCorrect == Spec => []TypeOK
<1>1. IInv => TypeOK
  BY DEF IInv
<1> QED BY Invariant, <1>1, PTL

\* The connection of a RusqliteSharedConnection is reachable from one thread at
\* a time, through the guard or through the loan.
THEOREM OneUser == Spec => []SingleUser
<1>1. IInv => SingleUser
  <2> SUFFICES ASSUME IInv, NEW t \in Threads, NEW u \in Threads, Uses(t), Uses(u)
               PROVE  t = u
    BY DEF SingleUser
  <2>1. CASE pc[t] = "guarded" /\ pc[u] = "guarded"
    BY <2>1 DEF IInv, GuardInv
  <2>2. CASE loan[t] # "none" /\ loan[u] # "none"
    BY <2>2 DEF IInv, LoanInv
  <2> QED BY <2>1, <2>2 DEF Uses, IInv, LoanInv
<1> QED BY Invariant, <1>1, PTL

\* A write whose caller was answered Ok, by the statement or by the commit, is
\* durable, whatever the other threads have open.
THEOREM AnsweredIsDurable == Spec => []SettledIsDurable
<1>1. IInv => SettledIsDurable
  BY DEF IInv, DurableInv, SettledIsDurable
<1> QED BY Invariant, <1>1, PTL

\* And nothing else is durable: no write whose caller was not answered Ok comes
\* to stay with the statement or the commit of another thread.
THEOREM DurableIsAnswered == Spec => []DurableIsSettled
<1>1. IInv => DurableIsSettled
  BY DEF IInv, DurableInv, DurableIsSettled
<1> QED BY Invariant, <1>1, PTL

\* The slot says Loaned exactly while a thread holds the connection, and the
\* drop that returns it finds the mutex healthy.
THEOREM LoanKept == Spec => []LoanComesBack
<1>1. IInv => LoanComesBack
  BY DEF IInv, LoanInv, LoanComesBack
<1> QED BY Invariant, <1>1, PTL

\* close_by_ref is final: a loan that is returned later does not reopen it.
THEOREM StaysClosed == Spec => ClosedForGood
<1>1. IInv /\ [Next]_vars => [slot = "Disconnected" => slot' = "Disconnected"]_slot
  <2> SUFFICES ASSUME IInv, Next, slot = "Disconnected" PROVE slot' = slot
    BY DEF vars
  <2>1. PICK t \in Threads : Step(t)
    BY NextIsStep
  <2>2. pc[t] \notin {"guarded", "returning"}
    BY DEF IInv, LoanInv
  <2> QED
    BY <2>1, <2>2
       DEF Step, Call, TryLock, Check, Spin, Expire, ExecuteFails, ExecutePanics, Lend,
           Close, OpenTxn, CommitTxn, RollbackTxn, EndStream, Return, Execute, TxnWrite,
           threadVars
<1> QED BY Invariant, <1>1, PTL DEF Spec, ClosedForGood

(***************************************************************************)
(* The mock connection.                                                    *)
(***************************************************************************)
\* One step of it.
MockStep ==
    \/ \E c \in Callers : Answer(c)
    \/ \E c \in Callers, k \in Kinds : Ask(c, k)
    \/ \E h \in Handles : BeginMock(h)
    \/ \E i \in DOMAIN live, how \in {"commit", "rollback"} : EndMock(i, how)
    \/ Drain

\* As many handles live as the transaction is deep: an end finds one open.
DepthInv ==
    /\ broken = FALSE
    /\ open.stmts = <<>> => open = NoTxn /\ live = <<>>
    /\ open.stmts # <<>> => Len(live) = open.depth + 1

LEMMA MockStepIs == MockNext <=> MockStep
BY DEF MockNext, MockStep

LEMMA MockOpenIs ==
    ASSUME MockTypeOK, DepthInv
    PROVE  /\ open.stmts \in Seq(Marks) /\ open.depth \in Nat
           /\ open = [stmts |-> open.stmts, depth |-> open.depth]
           /\ open = NoTxn <=> open.stmts = <<>>
           /\ open = NoTxn <=> live = <<>>
BY DEF MockTypeOK, DepthInv, NoTxn

LEMMA MarkTyped ==
    ASSUME NEW op \in {"begin", "commit", "rollback", "stmt"}, NEW level \in Nat,
           NEW who \in Handles \cup Nat
    PROVE  /\ Mark(op, level, who) \in Marks
           /\ Mark(op, level, who).op = op /\ Mark(op, level, who).level = level
           /\ Mark(op, level, who).who = who
BY DEF Mark, Marks

LEMMA MockInitially == MockInit => MockTypeOK /\ DepthInv
<1> SUFFICES ASSUME MockInit PROVE MockTypeOK /\ DepthInv
  OBVIOUS
<1>1. open \in [stmts : Seq(Marks), depth : Nat]
  BY DEF MockInit, NoTxn
<1>2. asks \in [Callers -> Asked \cup {NotAsking}]
  BY DEF MockInit
<1>3. broken = FALSE /\ broken \in BOOLEAN
  BY DEF MockInit
<1>4. log \in Seq(Seq(Marks)) /\ told \in Seq(Seq(Marks)) /\ live \in Seq(Handles) /\ ran \in Seq(Ran)
  BY DEF MockInit
<1>5. counters \in [Kinds -> Nat] /\ spent \in [Kinds -> SUBSET Nat] /\ begun \in SUBSET Handles
  BY DEF MockInit
<1>6. open = NoTxn /\ live = <<>> /\ open.stmts = <<>>
  BY DEF MockInit, NoTxn
<1>7. DepthInv
  BY <1>3, <1>6 DEF DepthInv
<1> QED BY <1>1, <1>2, <1>3, <1>4, <1>5, <1>7 DEF MockTypeOK

LEMMA AskKeepsType ==
    ASSUME MockTypeOK, DepthInv, NEW c \in Callers, NEW k \in Kinds, Ask(c, k)
    PROVE  MockTypeOK' /\ DepthInv'
<1>1. [kind |-> k, index |-> counters[k], after |-> Len(ran)] \in Asked
  BY DEF MockTypeOK, Asked
<1>2. asks' \in [Callers -> Asked \cup {NotAsking}] /\ counters' \in [Kinds -> Nat]
  BY <1>1 DEF Ask, MockTypeOK
<1> QED BY <1>2 DEF Ask, MockTypeOK, DepthInv

\* What an answer does to the transaction and the log.
LEMMA LogsKeepsType ==
    ASSUME MockTypeOK, DepthInv, NEW m \in Marks, Logs(m), live' = live, broken' = broken
    PROVE  /\ open' \in [stmts : Seq(Marks), depth : Nat] /\ log' \in Seq(Seq(Marks))
           /\ DepthInv'
           /\ open = NoTxn => open' = NoTxn /\ log' = Append(log, <<m>>)
           /\ open # NoTxn => /\ log' = log /\ open' # NoTxn
                              /\ open' = [stmts |-> Append(open.stmts, m), depth |-> open.depth]
<1>1. CASE open = NoTxn
  <2>1. open' = NoTxn /\ log' = Append(log, <<m>>) /\ <<m>> \in Seq(Marks)
    BY <1>1 DEF Logs
  <2> QED BY <1>1, <2>1 DEF MockTypeOK, DepthInv
<1>2. CASE open # NoTxn
  <2>1. log' = log /\ open' = [open EXCEPT !.stmts = Append(@, m)]
    BY <1>2 DEF Logs
  <2>2. open' = [stmts |-> Append(open.stmts, m), depth |-> open.depth]
    BY <2>1, MockOpenIs
  <2>3. Append(open.stmts, m) \in Seq(Marks) /\ Append(open.stmts, m) # <<>>
    BY MockOpenIs
  <2>4. open'.stmts = Append(open.stmts, m) /\ open'.depth = open.depth
    BY <2>2
  <2>5. open' # NoTxn
    BY <2>3, <2>4 DEF NoTxn
  <2> QED BY <1>2, <2>1, <2>2, <2>3, <2>4, <2>5, MockOpenIs DEF MockTypeOK, DepthInv
<1> QED BY <1>1, <1>2

LEMMA AnswerIs ==
    ASSUME MockTypeOK, DepthInv, NEW c \in Callers, Answer(c)
    PROVE  /\ asks[c] \in Asked /\ asks' = [asks EXCEPT ![c] = NotAsking]
           /\ Logs(Mark("stmt", open.depth, Len(ran) + 1))
           /\ Mark("stmt", open.depth, Len(ran) + 1) \in Marks
           /\ ran' = Append(ran, [kind |-> asks[c].kind, index |-> asks[c].index,
                                  after |-> asks[c].after, inside |-> live # <<>>,
                                  got |-> Got(asks[c])])
           /\ [kind |-> asks[c].kind, index |-> asks[c].index, after |-> asks[c].after,
               inside |-> live # <<>>, got |-> Got(asks[c])] \in Ran
           /\ spent' = [spent EXCEPT ![asks[c].kind] =
                          IF asks[c].index < Queued[asks[c].kind] THEN @ \cup {asks[c].index} ELSE @]
           /\ UNCHANGED <<counters, broken, live, begun, told>>
<1>1. asks[c] \in Asked
  BY DEF MockTypeOK, Answer
<1>2. Mark("stmt", open.depth, Len(ran) + 1) \in Marks
  <2>1. Len(ran) + 1 \in Handles \cup Nat
    BY DEF MockTypeOK
  <2> QED BY <2>1, MarkTyped, MockOpenIs
<1>3. Got(asks[c]) \in {"result", "consumed", "empty"}
  BY DEF Got
<1>4. (live # <<>>) \in BOOLEAN
  OBVIOUS
<1>5. [kind |-> asks[c].kind, index |-> asks[c].index, after |-> asks[c].after,
       inside |-> live # <<>>, got |-> Got(asks[c])] \in Ran
  BY <1>1, <1>3, <1>4 DEF Asked, Ran
<1> QED BY <1>1, <1>2, <1>5 DEF Answer, DepthInv

LEMMA AnswerKeepsType ==
    ASSUME MockTypeOK, DepthInv, NEW c \in Callers, Answer(c)
    PROVE  MockTypeOK' /\ DepthInv'
<1> DEFINE r == [kind |-> asks[c].kind, index |-> asks[c].index, after |-> asks[c].after,
                 inside |-> live # <<>>, got |-> Got(asks[c])]
           m == Mark("stmt", open.depth, Len(ran) + 1)
<1>1. /\ asks[c] \in Asked /\ asks' = [asks EXCEPT ![c] = NotAsking]
      /\ Logs(m) /\ m \in Marks /\ ran' = Append(ran, r) /\ r \in Ran
      /\ spent' = [spent EXCEPT ![asks[c].kind] =
                     IF asks[c].index < Queued[asks[c].kind] THEN @ \cup {asks[c].index} ELSE @]
      /\ UNCHANGED <<counters, broken, live, begun, told>>
  BY AnswerIs
<1> HIDE DEF r, m
<1>2. open' \in [stmts : Seq(Marks), depth : Nat] /\ log' \in Seq(Seq(Marks)) /\ DepthInv'
  BY <1>1, LogsKeepsType
<1>3. ran' \in Seq(Ran)
  BY <1>1 DEF MockTypeOK
<1>4. spent' \in [Kinds -> SUBSET Nat]
  BY <1>1 DEF MockTypeOK, Asked
<1>5. asks' \in [Callers -> Asked \cup {NotAsking}]
  BY <1>1 DEF MockTypeOK
<1> QED BY <1>1, <1>2, <1>3, <1>4, <1>5 DEF MockTypeOK

\* A begin pushes one mark, at the depth there is then.
LEMMA BeginIs ==
    ASSUME MockTypeOK, DepthInv, NEW h \in Handles, BeginMock(h)
    PROVE  LET d == IF open = NoTxn THEN 0 ELSE open.depth + 1 IN
           /\ d \in Nat /\ Mark("begin", d, h) \in Marks /\ d = Len(live)
           /\ live' = Append(live, h)
           /\ open' = [stmts |-> Append(open.stmts, Mark("begin", d, h)), depth |-> d]
           /\ UNCHANGED <<counters, asks, log, spent, broken, ran, told>>
<1> DEFINE d == IF open = NoTxn THEN 0 ELSE open.depth + 1
<1>1. d \in Nat
  BY MockOpenIs
<1>2. Mark("begin", d, h) \in Marks
  BY <1>1, MarkTyped
<1>3. d = Len(live)
  BY MockOpenIs DEF DepthInv
<1>4. open' = [stmts |-> Append(open.stmts, Mark("begin", d, h)), depth |-> d]
  <2>1. CASE open = NoTxn
    <3>1. Append(open.stmts, Mark("begin", 0, h)) = <<Mark("begin", 0, h)>>
      BY <2>1 DEF NoTxn
    <3> QED BY <2>1, <3>1 DEF BeginMock
  <2>2. CASE open # NoTxn
    BY <2>2 DEF BeginMock
  <2> QED BY <2>1, <2>2
<1> QED BY <1>1, <1>2, <1>3, <1>4 DEF BeginMock

LEMMA BeginKeepsType ==
    ASSUME MockTypeOK, DepthInv, NEW h \in Handles, BeginMock(h)
    PROVE  MockTypeOK' /\ DepthInv'
<1> DEFINE d == IF open = NoTxn THEN 0 ELSE open.depth + 1
           stmts == Append(open.stmts, Mark("begin", d, h))
<1>1. /\ d \in Nat /\ Mark("begin", d, h) \in Marks /\ d = Len(live)
      /\ live' = Append(live, h) /\ open' = [stmts |-> stmts, depth |-> d]
      /\ UNCHANGED <<counters, asks, log, spent, broken, ran, told>>
  BY BeginIs
<1>2. stmts \in Seq(Marks) /\ stmts # <<>>
  BY <1>1, MockOpenIs
<1> HIDE DEF stmts, d
<1>3. open'.stmts = stmts /\ open'.depth = d /\ open' \in [stmts : Seq(Marks), depth : Nat]
  BY <1>1, <1>2
<1>4. live' \in Seq(Handles) /\ Len(live') = d + 1
  BY <1>1 DEF MockTypeOK
<1>5. begun' \in SUBSET Handles
  BY DEF BeginMock, MockTypeOK
<1> QED BY <1>1, <1>2, <1>3, <1>4, <1>5 DEF MockTypeOK, DepthInv

\* What the open transaction has with the mark of an end.
Ended(i, how) == Append(open.stmts, Mark(how, open.depth, live[i]))

\* An end finds a transaction; it pushes one mark and leaves a level.
LEMMA EndIs ==
    ASSUME MockTypeOK, DepthInv, NEW i \in DOMAIN live, NEW how \in {"commit", "rollback"},
           EndMock(i, how)
    PROVE  /\ open # NoTxn /\ Mark(how, open.depth, live[i]) \in Marks
           /\ Ended(i, how) \in Seq(Marks) /\ Ended(i, how) # <<>>
           /\ open.depth = 0 => open' = NoTxn /\ log' = Append(log, Ended(i, how))
           /\ open.depth # 0 => /\ open' = [stmts |-> Ended(i, how), depth |-> open.depth - 1]
                                /\ log' = log
           /\ broken' = broken /\ (Innermost => i = Len(live))
           /\ live' \in Seq(Handles) /\ Len(live') = Len(live) - 1
           /\ \A j \in DOMAIN live' : j < i => live'[j] = live[j]
           /\ UNCHANGED <<counters, asks, spent, begun, ran, told>>
<1> DEFINE m == Mark(how, open.depth, live[i])
           stmts == Append(open.stmts, m)
<1>1. live \in Seq(Handles) /\ live # <<>> /\ live[i] \in Handles /\ i \in 1 .. Len(live)
  BY DEF MockTypeOK
<1>2. open # NoTxn
  BY <1>1, MockOpenIs
<1>3. m \in Marks
  BY <1>1, MarkTyped, MockOpenIs
<1>4. stmts \in Seq(Marks) /\ stmts # <<>>
  BY <1>3, MockOpenIs
<1> HIDE DEF m
<1>5. Len(live) - 1 \in Nat
  BY <1>1
<1>6. live' = [j \in 1 .. Len(live) - 1 |-> IF j < i THEN live[j] ELSE live[j + 1]]
  BY DEF EndMock
<1>7. live' \in [1 .. Len(live) - 1 -> Handles]
  BY <1>1, <1>5, <1>6
<1>8. live' \in Seq(Handles) /\ Len(live') = Len(live) - 1 /\ DOMAIN live' = 1 .. Len(live) - 1
  BY <1>5, <1>7
<1>9. CloseMock(stmts, how) /\ broken' = broken /\ (Innermost => i = Len(live))
      /\ UNCHANGED <<counters, asks, spent, begun, ran, told>>
  BY <1>2 DEF EndMock, m
<1>10. \A j \in DOMAIN live' : j < i => live'[j] = live[j]
  BY <1>6, <1>8
<1> QED BY <1>2, <1>3, <1>4, <1>8, <1>9, <1>10 DEF CloseMock, m, Ended

LEMMA EndKeepsType ==
    ASSUME MockTypeOK, DepthInv, NEW i \in DOMAIN live, NEW how \in {"commit", "rollback"},
           EndMock(i, how)
    PROVE  MockTypeOK' /\ DepthInv'
<1> DEFINE stmts == Ended(i, how)
<1>1. /\ open # NoTxn /\ stmts \in Seq(Marks) /\ stmts # <<>>
      /\ open.depth = 0 => open' = NoTxn /\ log' = Append(log, stmts)
      /\ open.depth # 0 => open' = [stmts |-> stmts, depth |-> open.depth - 1] /\ log' = log
      /\ broken' = broken
      /\ live' \in Seq(Handles) /\ Len(live') = Len(live) - 1
      /\ UNCHANGED <<counters, asks, spent, begun, ran, told>>
  BY EndIs
<1> HIDE DEF stmts
<1>2. Len(live) = open.depth + 1 /\ open.depth \in Nat
  BY <1>1, MockOpenIs DEF DepthInv
<1>3. CASE open.depth = 0
  <2>1. open' = NoTxn /\ log' \in Seq(Seq(Marks))
    <3>1. log \in Seq(Seq(Marks))
      BY DEF MockTypeOK
    <3>2. Append(log, stmts) \in Seq(Seq(Marks))
      BY <1>1, <3>1
    <3> QED BY <1>1, <1>3, <3>2
  <2>2. live' = <<>>
    <3>1. Len(live') = 0
      BY <1>1, <1>2, <1>3
    <3> QED BY <1>1, <3>1
  <2> QED BY <1>1, <2>1, <2>2 DEF MockTypeOK, DepthInv, NoTxn
<1>4. CASE open.depth # 0
  <2>1. open' = [stmts |-> stmts, depth |-> open.depth - 1] /\ log' = log /\ open.depth - 1 \in Nat
    BY <1>1, <1>2, <1>4
  <2>2. open'.stmts = stmts /\ open'.depth = open.depth - 1
    BY <2>1
  <2> QED BY <1>1, <1>2, <2>1, <2>2 DEF MockTypeOK, DepthInv
<1> QED BY <1>3, <1>4

LEMMA MockTypesStep == MockTypeOK /\ DepthInv /\ [MockNext]_mockVars => MockTypeOK' /\ DepthInv'
<1> SUFFICES ASSUME MockTypeOK, DepthInv, [MockNext]_mockVars PROVE MockTypeOK' /\ DepthInv'
  OBVIOUS
<1>1. CASE UNCHANGED mockVars
  BY <1>1 DEF mockVars, MockTypeOK, DepthInv
<1>2. ASSUME NEW c \in Callers, Answer(c) PROVE MockTypeOK' /\ DepthInv'
  BY <1>2, AnswerKeepsType
<1>3. ASSUME NEW c \in Callers, NEW k \in Kinds, Ask(c, k) PROVE MockTypeOK' /\ DepthInv'
  BY <1>3, AskKeepsType
<1>4. ASSUME NEW h \in Handles, BeginMock(h) PROVE MockTypeOK' /\ DepthInv'
  BY <1>4, BeginKeepsType
<1>5. ASSUME NEW i \in DOMAIN live, NEW how \in {"commit", "rollback"}, EndMock(i, how)
      PROVE  MockTypeOK' /\ DepthInv'
  BY <1>5, EndKeepsType
<1>6. CASE Drain
  <2>1. told' \in Seq(Seq(Marks)) /\ log' \in Seq(Seq(Marks))
    BY <1>6 DEF Drain, MockTypeOK
  <2> QED BY <1>6, <2>1 DEF Drain, MockTypeOK, DepthInv
<1> QED BY <1>1, <1>2, <1>3, <1>4, <1>5, <1>6, MockStepIs DEF MockStep

\* The mock connection keeps its types: in particular the depth of its transaction
\* is not counted down below 0 (MockTypeOK).
THEOREM MockTypeCorrect == MockSpec => []MockTypeOK
<1>1. MockInit => MockTypeOK /\ DepthInv
  BY MockInitially
<1>2. MockTypeOK /\ DepthInv /\ [MockNext]_mockVars => MockTypeOK' /\ DepthInv'
  BY MockTypesStep
<1> QED BY <1>1, <1>2, PTL DEF MockSpec

\* An end always finds the transaction open, and nothing panics under the lock
\* (NeverPanics).
THEOREM MockNeverPanics == MockSpec => []NeverPanics
<1>1. MockInit => MockTypeOK /\ DepthInv
  BY MockInitially
<1>2. MockTypeOK /\ DepthInv /\ [MockNext]_mockVars => MockTypeOK' /\ DepthInv'
  BY MockTypesStep
<1>3. DepthInv => NeverPanics
  BY DEF DepthInv, NeverPanics
<1> QED BY <1>1, <1>2, <1>3, PTL DEF MockSpec

\* Each index below a counter is with one statement, that has run or will; only
\* those that have run spend a result.
Same(a, b) == a.kind = b.kind /\ a.index = b.index
Asking(c) == asks[c] # NotAsking

IndexInv ==
    /\ \A c \in Callers : Asking(c) => /\ asks[c].index < counters[asks[c].kind]
                                       /\ asks[c].after <= Len(ran)
    /\ \A n \in DOMAIN ran : /\ ran[n].index < counters[ran[n].kind]
                              /\ ran[n].got # "consumed" /\ ran[n].after < n
OneEachInv ==
    /\ \A c, d \in Callers : Asking(c) /\ Asking(d) /\ Same(asks[c], asks[d]) => c = d
    /\ \A c \in Callers, n \in DOMAIN ran : Asking(c) => ~Same(ran[n], asks[c])
    /\ \A m, n \in DOMAIN ran : Same(ran[m], ran[n]) => m = n
SpentInv ==
    /\ \A k \in Kinds, i \in Nat : i < counters[k] =>
          \/ \E c \in Callers : Asking(c) /\ asks[c].kind = k /\ asks[c].index = i
          \/ \E n \in DOMAIN ran : ran[n].kind = k /\ ran[n].index = i
    /\ \A k \in Kinds, i \in Nat :
          i \in spent[k] <=> i < Queued[k] /\ \E n \in DOMAIN ran : ran[n].kind = k /\ ran[n].index = i
TurnInv ==
    /\ \A c \in Callers, n \in DOMAIN ran :
          Asking(c) /\ ran[n].kind = asks[c].kind /\ n <= asks[c].after => ran[n].index < asks[c].index
    /\ AnsweredInTurn

TakenInv == IndexInv /\ OneEachInv /\ SpentInv /\ TurnInv

LEMMA CountedTyped ==
    ASSUME MockConstants, MockTypeOK
    PROVE  /\ \A k \in Kinds : counters[k] \in Nat /\ Queued[k] \in Nat
           /\ \A c \in Callers : Asking(c) => /\ asks[c].kind \in Kinds /\ asks[c].index \in Nat
                                              /\ asks[c].after \in Nat
           /\ Len(ran) \in Nat /\ DOMAIN ran = 1 .. Len(ran)
           /\ \A n \in DOMAIN ran : /\ ran[n].kind \in Kinds /\ ran[n].index \in Nat
                                    /\ ran[n].after \in Nat
<1>1. \A c \in Callers : Asking(c) => asks[c] \in Asked
  BY DEF MockTypeOK, Asking
<1>2. ran \in Seq(Ran)
  BY DEF MockTypeOK
<1>3. \A n \in DOMAIN ran : ran[n] \in Ran
  BY <1>2
<1>4. \A k \in Kinds : counters[k] \in Nat /\ Queued[k] \in Nat
  BY DEF MockConstants, MockTypeOK
<1>5. \A a \in Asked : a.kind \in Kinds /\ a.index \in Nat /\ a.after \in Nat
  BY DEF Asked
<1>6. \A x \in Ran : x.kind \in Kinds /\ x.index \in Nat /\ x.after \in Nat
  BY DEF Ran
<1>7. Len(ran) \in Nat /\ DOMAIN ran = 1 .. Len(ran)
  BY <1>2
<1> QED BY <1>1, <1>3, <1>4, <1>5, <1>6, <1>7

LEMMA AskTakes ==
    ASSUME MockConstants, MockTypeOK, TakenInv, NEW c \in Callers, NEW k \in Kinds, Ask(c, k)
    PROVE  TakenInv'
<1> DEFINE a == [kind |-> k, index |-> counters[k], after |-> Len(ran)]
<1>1. /\ ~Asking(c) /\ ran' = ran /\ spent' = spent /\ asks' = [asks EXCEPT ![c] = a]
      /\ counters' = [counters EXCEPT ![k] = @ + 1]
  BY DEF Ask, Asking
<1>2. /\ a.kind = k /\ a.index = counters[k] /\ a.after = Len(ran) /\ a # NotAsking
  BY DEF NotAsking, Kinds
<1> HIDE DEF a
<1>3. /\ asks'[c] = a /\ \A d \in Callers : d # c => asks'[d] = asks[d]
      /\ counters'[k] = counters[k] + 1 /\ \A j \in Kinds : j # k => counters'[j] = counters[j]
  BY <1>1 DEF MockTypeOK
<1>4. Asking(c)' /\ \A d \in Callers : d # c => (Asking(d)' <=> Asking(d))
  BY <1>2, <1>3 DEF Asking
<1>5. /\ \A j \in Kinds : counters[j] \in Nat
      /\ \A d \in Callers : Asking(d) => asks[d].kind \in Kinds /\ asks[d].index \in Nat
      /\ Len(ran) \in Nat /\ DOMAIN ran = 1 .. Len(ran)
      /\ \A n \in DOMAIN ran : ran[n].kind \in Kinds /\ ran[n].index \in Nat
  BY CountedTyped
<1>6. \A j \in Kinds : counters[j] <= counters'[j]
  BY <1>3, <1>5
<1>7. IndexInv'
  <2>1. ASSUME NEW d \in Callers, Asking(d)'
        PROVE  asks'[d].index < counters'[asks'[d].kind] /\ asks'[d].after <= Len(ran')
    <3>1. CASE d = c
      BY <1>1, <1>2, <1>3, <1>5, <3>1
    <3>2. CASE d # c
      <4>1. /\ asks'[d] = asks[d] /\ asks[d].index < counters[asks[d].kind]
            /\ asks[d].after <= Len(ran) /\ asks[d].kind \in Kinds /\ asks[d].index \in Nat
        BY <1>3, <1>4, <1>5, <2>1, <3>2 DEF TakenInv, IndexInv
      <4> QED BY <1>1, <1>3, <1>5, <4>1
    <3> QED BY <3>1, <3>2
  <2>2. ASSUME NEW n \in DOMAIN ran
        PROVE  ran[n].index < counters'[ran[n].kind] /\ ran[n].got # "consumed" /\ ran[n].after < n
    <3>1. /\ ran[n].index < counters[ran[n].kind] /\ ran[n].got # "consumed" /\ ran[n].after < n
          /\ ran[n].kind \in Kinds /\ ran[n].index \in Nat
      BY <1>5 DEF TakenInv, IndexInv
    <3> QED BY <1>3, <1>5, <3>1
  <2> QED BY <1>1, <2>1, <2>2 DEF IndexInv
<1>8. OneEachInv'
  <2>1. ASSUME NEW d \in Callers, Asking(d), d # c PROVE ~Same(asks[d], a)
    BY <1>2, <1>5, <2>1 DEF TakenInv, IndexInv, Same
  <2>2. ASSUME NEW n \in DOMAIN ran PROVE ~Same(ran[n], a)
    BY <1>2, <1>5 DEF TakenInv, IndexInv, Same
  <2>3. ASSUME NEW d \in Callers, NEW e \in Callers, Asking(d)', Asking(e)',
               Same(asks'[d], asks'[e])
        PROVE  d = e
    <3>1. CASE d # c /\ e # c
      BY <1>3, <1>4, <2>3, <3>1 DEF TakenInv, OneEachInv
    <3>2. CASE d # c /\ e = c
      BY <1>3, <1>4, <2>1, <2>3, <3>2
    <3>3. CASE d = c /\ e # c
      BY <1>3, <1>4, <2>1, <2>3, <3>3 DEF Same
    <3> QED BY <3>1, <3>2, <3>3
  <2>4. ASSUME NEW d \in Callers, NEW n \in DOMAIN ran, Asking(d)' PROVE ~Same(ran[n], asks'[d])
    <3>1. CASE d = c
      BY <1>3, <2>2, <3>1
    <3>2. CASE d # c
      BY <1>3, <1>4, <2>4, <3>2 DEF TakenInv, OneEachInv
    <3> QED BY <3>1, <3>2
  <2>5. \A m, n \in DOMAIN ran : Same(ran[m], ran[n]) => m = n
    BY DEF TakenInv, OneEachInv
  <2> QED BY <1>1, <2>3, <2>4, <2>5 DEF OneEachInv, Same
<1>9. SpentInv'
  <2>1. ASSUME NEW j \in Kinds, NEW i \in Nat, i < counters'[j]
        PROVE  \/ \E d \in Callers : Asking(d)' /\ asks'[d].kind = j /\ asks'[d].index = i
               \/ \E n \in DOMAIN ran : ran[n].kind = j /\ ran[n].index = i
    <3>1. CASE j = k /\ i = counters[k]
      BY <1>2, <1>3, <1>4, <3>1
    <3>2. CASE i < counters[j]
      <4>1. CASE \E d \in Callers : Asking(d) /\ asks[d].kind = j /\ asks[d].index = i
        <5>1. PICK d \in Callers : Asking(d) /\ asks[d].kind = j /\ asks[d].index = i
          BY <4>1
        <5>2. d # c
          BY <1>1, <5>1
        <5> QED BY <1>3, <1>4, <5>1, <5>2
      <4>2. CASE \E n \in DOMAIN ran : ran[n].kind = j /\ ran[n].index = i
        BY <4>2
      <4> QED BY <3>2, <4>1, <4>2 DEF TakenInv, SpentInv
    <3> QED BY <1>3, <1>5, <2>1, <3>1, <3>2
  <2> QED BY <1>1, <2>1 DEF TakenInv, SpentInv
<1>10. TurnInv'
  <2>1. AnsweredInTurn'
    BY <1>1 DEF TakenInv, TurnInv, AnsweredInTurn
  <2>2. ASSUME NEW d \in Callers, NEW n \in DOMAIN ran,
               Asking(d)', ran[n].kind = asks'[d].kind, n <= asks'[d].after
        PROVE  ran[n].index < asks'[d].index
    <3>1. CASE d = c
      BY <1>2, <1>3, <2>2, <3>1 DEF TakenInv, IndexInv
    <3>2. CASE d # c
      BY <1>3, <1>4, <2>2, <3>2 DEF TakenInv, TurnInv
    <3> QED BY <3>1, <3>2
  <2> QED BY <1>1, <2>1, <2>2 DEF TurnInv
<1> QED BY <1>7, <1>8, <1>9, <1>10 DEF TakenInv

LEMMA AnswerTakes ==
    ASSUME MockConstants, MockTypeOK, DepthInv, TakenInv, NEW c \in Callers, Answer(c)
    PROVE  TakenInv'
<1> DEFINE a == asks[c]
           r == [kind |-> a.kind, index |-> a.index, after |-> a.after,
                 inside |-> live # <<>>, got |-> Got(a)]
           N == Len(ran) + 1
<1>1. /\ a \in Asked /\ asks' = [asks EXCEPT ![c] = NotAsking]
      /\ ran' = Append(ran, r) /\ r \in Ran
      /\ spent' = [spent EXCEPT ![a.kind] =
                     IF a.index < Queued[a.kind] THEN @ \cup {a.index} ELSE @]
      /\ counters' = counters
  BY AnswerIs
<1>2. Asking(c)
  BY DEF Answer, Asking
<1>3. /\ r.kind = a.kind /\ r.index = a.index /\ r.after = a.after /\ r.got = Got(a)
  OBVIOUS
<1>4. /\ a.kind \in Kinds /\ a.index \in Nat /\ a.after \in Nat /\ a.index < counters[a.kind]
      /\ a.after <= Len(ran)
  BY <1>2, CountedTyped DEF TakenInv, IndexInv
<1>5. /\ Len(ran) \in Nat /\ DOMAIN ran = 1 .. Len(ran)
      /\ \A k \in Kinds : counters[k] \in Nat /\ Queued[k] \in Nat
      /\ \A n \in DOMAIN ran : ran[n].kind \in Kinds /\ ran[n].index \in Nat /\ ran[n].after \in Nat
  BY CountedTyped
<1> HIDE DEF r
<1>6. /\ DOMAIN ran' = 1 .. N /\ Len(ran') = N /\ ran'[N] = r /\ N \in Nat
      /\ \A n \in DOMAIN ran : n \in DOMAIN ran' /\ ran'[n] = ran[n]
      /\ \A n \in DOMAIN ran' : n \in DOMAIN ran \/ n = N
  <2>1. ran \in Seq(Ran) /\ ran' = Append(ran, r) /\ r \in Ran
    BY <1>1 DEF MockTypeOK
  <2> QED BY <2>1
<1>7. /\ ~Asking(c)' /\ \A d \in Callers : d # c => asks'[d] = asks[d] /\ (Asking(d)' <=> Asking(d))
  BY <1>1 DEF MockTypeOK, Asking
<1>8. ASSUME NEW n \in DOMAIN ran PROVE ~Same(ran[n], a)
  BY <1>2 DEF TakenInv, OneEachInv
<1>9. r.got # "consumed"
  <2>1. ASSUME a.index \in spent[a.kind] PROVE FALSE
    <3>1. PICK n \in DOMAIN ran : ran[n].kind = a.kind /\ ran[n].index = a.index
      BY <1>4, <2>1 DEF TakenInv, SpentInv
    <3> QED BY <1>8, <3>1 DEF Same
  <2> QED BY <1>3, <2>1 DEF Got
<1> HIDE DEF a
<1>10. IndexInv'
  <2>1. ASSUME NEW d \in Callers, Asking(d)'
        PROVE  asks'[d].index < counters'[asks'[d].kind] /\ asks'[d].after <= Len(ran')
    <3>1. d # c /\ asks'[d] = asks[d] /\ Asking(d)
      BY <1>7, <2>1
    <3>2. asks[d].after \in Nat
      BY <3>1, CountedTyped
    <3> QED BY <1>1, <1>5, <1>6, <3>1, <3>2 DEF TakenInv, IndexInv
  <2>2. ASSUME NEW n \in DOMAIN ran'
        PROVE  ran'[n].index < counters'[ran'[n].kind] /\ ran'[n].got # "consumed" /\ ran'[n].after < n
    <3>1. CASE n \in DOMAIN ran
      BY <1>1, <1>6, <3>1 DEF TakenInv, IndexInv
    <3>2. CASE n = N
      BY <1>1, <1>3, <1>4, <1>5, <1>6, <1>9, <3>2
    <3> QED BY <1>6, <3>1, <3>2
  <2> QED BY <2>1, <2>2 DEF IndexInv
<1>11. OneEachInv'
  <2>1. ASSUME NEW d \in Callers, NEW e \in Callers, Asking(d)', Asking(e)', Same(asks'[d], asks'[e])
        PROVE  d = e
    BY <1>7, <2>1 DEF TakenInv, OneEachInv
  <2>2. ASSUME NEW d \in Callers, NEW n \in DOMAIN ran', Asking(d)' PROVE ~Same(ran'[n], asks'[d])
    <3>1. d # c /\ asks'[d] = asks[d] /\ Asking(d)
      BY <1>7, <2>2
    <3>2. CASE n \in DOMAIN ran
      BY <1>6, <3>1, <3>2 DEF TakenInv, OneEachInv
    <3>3. CASE n = N
      <4>1. ~Same(a, asks[d])
        BY <1>2, <3>1 DEF TakenInv, OneEachInv, a
      <4> QED BY <1>3, <1>6, <3>1, <3>3, <4>1 DEF Same
    <3> QED BY <1>6, <3>2, <3>3
  <2>3. ASSUME NEW m \in DOMAIN ran', NEW n \in DOMAIN ran', Same(ran'[m], ran'[n]) PROVE m = n
    <3>1. CASE m \in DOMAIN ran /\ n \in DOMAIN ran
      BY <1>6, <2>3, <3>1 DEF TakenInv, OneEachInv
    <3>2. CASE m \in DOMAIN ran /\ n = N
      BY <1>3, <1>6, <1>8, <2>3, <3>2 DEF Same
    <3>3. CASE m = N /\ n \in DOMAIN ran
      BY <1>3, <1>6, <1>8, <2>3, <3>3 DEF Same
    <3> QED BY <1>6, <3>1, <3>2, <3>3
  <2> QED BY <2>1, <2>2, <2>3 DEF OneEachInv, Same
<1>12. SpentInv'
  <2>1. ASSUME NEW k \in Kinds, NEW i \in Nat
        PROVE  (\E n \in DOMAIN ran' : ran'[n].kind = k /\ ran'[n].index = i)
                 <=> \/ \E n \in DOMAIN ran : ran[n].kind = k /\ ran[n].index = i
                     \/ a.kind = k /\ a.index = i
    BY <1>3, <1>6
  <2>2. ASSUME NEW k \in Kinds, NEW i \in Nat, i < counters'[k]
        PROVE  \/ \E d \in Callers : Asking(d)' /\ asks'[d].kind = k /\ asks'[d].index = i
               \/ \E n \in DOMAIN ran' : ran'[n].kind = k /\ ran'[n].index = i
    <3>1. CASE \E d \in Callers : Asking(d) /\ asks[d].kind = k /\ asks[d].index = i
      <4>1. PICK d \in Callers : Asking(d) /\ asks[d].kind = k /\ asks[d].index = i
        BY <3>1
      <4>2. CASE d = c
        BY <2>1, <4>1, <4>2 DEF a
      <4>3. CASE d # c
        BY <1>7, <4>1, <4>3
      <4> QED BY <4>2, <4>3
    <3>2. CASE \E n \in DOMAIN ran : ran[n].kind = k /\ ran[n].index = i
      BY <2>1, <3>2
    <3> QED BY <1>1, <2>2, <3>1, <3>2 DEF TakenInv, SpentInv
  <2>3. ASSUME NEW k \in Kinds, NEW i \in Nat
        PROVE  i \in spent'[k] <=> i < Queued[k] /\ \E n \in DOMAIN ran' : ran'[n].kind = k /\ ran'[n].index = i
    <3>1. i \in spent'[k] <=> i \in spent[k] \/ (a.kind = k /\ a.index = i /\ i < Queued[k])
      BY <1>1, <1>4 DEF MockTypeOK
    <3>2. i \in spent[k] <=> i < Queued[k] /\ \E n \in DOMAIN ran : ran[n].kind = k /\ ran[n].index = i
      BY DEF TakenInv, SpentInv
    <3> QED BY <2>1, <3>1, <3>2
  <2> QED BY <2>2, <2>3 DEF SpentInv
<1>13. TurnInv'
  <2>1. ASSUME NEW d \in Callers, NEW n \in DOMAIN ran',
               Asking(d)', ran'[n].kind = asks'[d].kind, n <= asks'[d].after
        PROVE  ran'[n].index < asks'[d].index
    <3>1. d # c /\ asks'[d] = asks[d] /\ Asking(d) /\ asks[d].after <= Len(ran) /\ asks[d].after \in Nat
      BY <1>7, <2>1, CountedTyped DEF TakenInv, IndexInv
    <3>2. n \in DOMAIN ran
      BY <1>5, <1>6, <2>1, <3>1
    <3> QED BY <1>6, <2>1, <3>1, <3>2 DEF TakenInv, TurnInv
  <2>2. ASSUME NEW m \in DOMAIN ran', NEW n \in DOMAIN ran',
               ran'[m].kind = ran'[n].kind, m <= ran'[n].after
        PROVE  ran'[m].index < ran'[n].index
    <3>1. CASE n = N
      <4>1. m \in DOMAIN ran /\ ran'[m] = ran[m]
        BY <1>3, <1>4, <1>5, <1>6, <2>2, <3>1
      <4> QED BY <1>2, <1>3, <1>6, <2>2, <3>1, <4>1 DEF TakenInv, TurnInv, a
    <3>2. CASE m \in DOMAIN ran /\ n \in DOMAIN ran
      BY <1>6, <2>2, <3>2 DEF TakenInv, TurnInv, AnsweredInTurn
    <3>3. CASE m = N /\ n \in DOMAIN ran
      <4>1. ran[n].after <= Len(ran)
        BY <1>5, <3>3 DEF TakenInv, IndexInv
      <4> QED BY <1>5, <1>6, <2>2, <3>3, <4>1
    <3> QED BY <1>6, <3>1, <3>2, <3>3
  <2> QED BY <2>1, <2>2 DEF TurnInv, AnsweredInTurn
<1> QED BY <1>10, <1>11, <1>12, <1>13 DEF TakenInv

\* Nothing else asks or answers.
LEMMA OthersTakeNothing ==
    ASSUME TakenInv, UNCHANGED <<counters, asks, spent, ran>>
    PROVE  TakenInv'
<1>1. IndexInv'
  BY DEF TakenInv, IndexInv, Asking
<1>2. OneEachInv'
  BY DEF TakenInv, OneEachInv, Asking, Same
<1>3. SpentInv'
  BY DEF TakenInv, SpentInv, Asking
<1>4. TurnInv'
  BY DEF TakenInv, TurnInv, AnsweredInTurn, Asking
<1> QED BY <1>1, <1>2, <1>3, <1>4 DEF TakenInv

LEMMA TakenInitially == MockInit => TakenInv
<1> SUFFICES ASSUME MockInit PROVE TakenInv
  OBVIOUS
<1>1. /\ \A c \in Callers : ~Asking(c)
      /\ ran = <<>> /\ DOMAIN ran = {}
      /\ \A k \in Kinds : counters[k] = 0 /\ spent[k] = {}
  BY DEF MockInit, Asking
<1>2. SpentInv
  BY <1>1 DEF SpentInv
<1> QED BY <1>1, <1>2 DEF TakenInv, IndexInv, OneEachInv, TurnInv, AnsweredInTurn

LEMMA TakenStep == MockConstants /\ MockTypeOK /\ DepthInv /\ TakenInv /\ [MockNext]_mockVars => TakenInv'
<1> SUFFICES ASSUME MockConstants, MockTypeOK, DepthInv, TakenInv, [MockNext]_mockVars PROVE TakenInv'
  OBVIOUS
<1>1. CASE UNCHANGED mockVars
  BY <1>1, OthersTakeNothing DEF mockVars
<1>2. ASSUME NEW c \in Callers, Answer(c) PROVE TakenInv'
  BY <1>2, AnswerTakes
<1>3. ASSUME NEW c \in Callers, NEW k \in Kinds, Ask(c, k) PROVE TakenInv'
  BY <1>3, AskTakes
<1>4. ASSUME NEW h \in Handles, BeginMock(h) PROVE TakenInv'
  BY <1>4, OthersTakeNothing DEF BeginMock
<1>5. ASSUME NEW i \in DOMAIN live, NEW how \in {"commit", "rollback"}, EndMock(i, how)
      PROVE  TakenInv'
  BY <1>5, OthersTakeNothing DEF EndMock
<1>6. CASE Drain
  BY <1>6, OthersTakeNothing DEF Drain
<1> QED BY <1>1, <1>2, <1>3, <1>4, <1>5, <1>6, MockStepIs DEF MockStep

LEMMA TakenIsOnce == MockTypeOK /\ TakenInv => AnsweredOnce
<1> SUFFICES ASSUME MockTypeOK, TakenInv PROVE AnsweredOnce
  OBVIOUS
<1>1. \A n \in DOMAIN ran : ran[n].got # "consumed"
  BY DEF TakenInv, IndexInv
<1>2. \A m, n \in DOMAIN ran :
          ran[m].kind = ran[n].kind /\ ran[m].index = ran[n].index => m = n
  BY DEF TakenInv, OneEachInv, Same
<1>3. ASSUME \A c \in Callers : asks[c] = NotAsking, NEW k \in Kinds
      PROVE  spent[k] = {i \in 0 .. counters[k] - 1 : i < Queued[k]}
  <2>1. counters[k] \in Nat /\ spent[k] \in SUBSET Nat
    BY DEF MockTypeOK
  <2>2. ASSUME NEW i \in Nat PROVE i \in spent[k] <=> i < Queued[k] /\ i < counters[k]
    <3>1. i \in spent[k] <=> i < Queued[k] /\ \E n \in DOMAIN ran : ran[n].kind = k /\ ran[n].index = i
      BY DEF TakenInv, SpentInv
    <3>2. ASSUME NEW n \in DOMAIN ran, ran[n].kind = k, ran[n].index = i PROVE i < counters[k]
      BY <3>2 DEF TakenInv, IndexInv
    <3>3. i < counters[k] => \E n \in DOMAIN ran : ran[n].kind = k /\ ran[n].index = i
      BY <1>3 DEF TakenInv, SpentInv, Asking
    <3> QED BY <3>1, <3>2, <3>3
  <2>3. ASSUME NEW i \in 0 .. counters[k] - 1 PROVE i \in Nat /\ i < counters[k]
    BY <2>1
  <2>4. ASSUME NEW i \in Nat, i < counters[k] PROVE i \in 0 .. counters[k] - 1
    BY <2>1, <2>4
  <2> QED BY <2>1, <2>2, <2>3, <2>4
<1> QED BY <1>1, <1>2, <1>3 DEF AnsweredOnce

\* Whatever the calls of several callers, each gets the result of its own index,
\* and no result is given twice or skipped (AnsweredOnce).
THEOREM MockAnswersOnce ==
    ASSUME MockConstants PROVE MockSpec => []AnsweredOnce
<1>1. MockInit => MockTypeOK /\ DepthInv /\ TakenInv
  BY MockInitially, TakenInitially
<1>2. MockTypeOK /\ DepthInv /\ TakenInv /\ [MockNext]_mockVars
        => MockTypeOK' /\ DepthInv' /\ TakenInv'
  BY MockTypesStep, TakenStep
<1>3. MockTypeOK /\ TakenInv => AnsweredOnce
  BY TakenIsOnce
<1> QED BY <1>1, <1>2, <1>3, PTL DEF MockSpec

\* A call that starts when another has returned gets a later result (AnsweredInTurn).
THEOREM MockAnswersInTurn ==
    ASSUME MockConstants PROVE MockSpec => []AnsweredInTurn
<1>1. MockInit => MockTypeOK /\ DepthInv /\ TakenInv
  BY MockInitially, TakenInitially
<1>2. MockTypeOK /\ DepthInv /\ TakenInv /\ [MockNext]_mockVars
        => MockTypeOK' /\ DepthInv' /\ TakenInv'
  BY MockTypesStep, TakenStep
<1>3. TakenInv => AnsweredInTurn
  BY DEF TakenInv, TurnInv
<1> QED BY <1>1, <1>2, <1>3, PTL DEF MockSpec

\* The entries of the log, drained ones first, and after them the open one.
Base == told \o log
Place == Len(Base) + 1
Line(e) == IF e = Place THEN open.stmts ELSE Base[e]

\* A mark is added to the open transaction, which may end with it; one that is
\* added when none is open is a transaction of its own or opens one.
Grows(m) ==
    /\ told' = told
    /\ \/ log' = log /\ open'.stmts = Append(open.stmts, m)
       \/ log' = Append(log, Append(open.stmts, m)) /\ open'.stmts = <<>>

LEMMA BaseTyped ==
    ASSUME MockTypeOK
    PROVE  /\ Base \in Seq(Seq(Marks)) /\ Len(Base) \in Nat /\ DOMAIN Base = 1 .. Len(Base)
           /\ Line(Place) = open.stmts /\ Place \in Nat
           /\ \A e \in 1 .. Place : /\ Line(e) \in Seq(Marks) /\ Len(Line(e)) \in Nat
                                    /\ DOMAIN Line(e) = 1 .. Len(Line(e))
           /\ \A e \in 1 .. Place : e # Place => e \in DOMAIN Base /\ Line(e) = Base[e]
           /\ \A e \in DOMAIN Base : e \in 1 .. Place /\ e # Place /\ e < Place /\ Line(e) = Base[e]
<1>1. Base \in Seq(Seq(Marks))
  BY DEF MockTypeOK, Base
<1>2. Len(Base) \in Nat /\ DOMAIN Base = 1 .. Len(Base) /\ \A e \in DOMAIN Base : Base[e] \in Seq(Marks)
  BY <1>1
<1> HIDE DEF Base
<1>3. Place = Len(Base) + 1 /\ Place \in Nat
  BY <1>2 DEF Place
<1>4. open.stmts \in Seq(Marks)
  BY DEF MockTypeOK
<1>5. \A e \in 1 .. Place : e # Place => e \in DOMAIN Base
  BY <1>2, <1>3
<1>6. \A e \in DOMAIN Base : e \in 1 .. Place /\ e # Place /\ e < Place
  BY <1>2, <1>3
<1>7. \A e \in 1 .. Place : Line(e) \in Seq(Marks)
  BY <1>2, <1>4, <1>5 DEF Line
<1>8. \A s \in Seq(Marks) : Len(s) \in Nat /\ DOMAIN s = 1 .. Len(s)
  OBVIOUS
<1> QED BY <1>1, <1>2, <1>3, <1>4, <1>5, <1>6, <1>7, <1>8 DEF Line

LEMMA EverythingIs ==
    ASSUME MockTypeOK, DepthInv
    PROVE  /\ \A e : e \in DOMAIN Everything <=> e \in 1 .. Place /\ (e = Place => open # NoTxn)
           /\ \A e \in DOMAIN Everything : Everything[e] = Line(e)
<1>1. CASE open = NoTxn
  <2>1. Everything = Base
    BY <1>1, BaseTyped DEF Everything, Base
  <2>2. \A e : e \in DOMAIN Base <=> e \in 1 .. Place /\ e # Place
    BY BaseTyped
  <2> QED BY <1>1, <2>1, <2>2, BaseTyped
<1>2. CASE open # NoTxn
  <2>1. Everything = Base \o <<open.stmts>>
    BY <1>2 DEF Everything, Base
  <2>2. Base \in Seq(Seq(Marks)) /\ open.stmts \in Seq(Marks)
    BY BaseTyped, MockOpenIs
  <2>3. DOMAIN Everything = 1 .. Place
    BY <2>1, <2>2, BaseTyped DEF Place
  <2>4. \A e \in DOMAIN Base : Everything[e] = Base[e]
    BY <2>1, <2>2
  <2>5. Everything[Place] = open.stmts
    BY <2>1, <2>2 DEF Place
  <2> QED BY <1>2, <2>3, <2>4, <2>5, BaseTyped
<1> QED BY <1>1, <1>2

LEMMA LinesGrow ==
    ASSUME MockTypeOK, MockTypeOK', NEW m \in Marks, Grows(m)
    PROVE  /\ Place' \in {Place, Place + 1}
           /\ \A e \in 1 .. Place : e # Place => e \in 1 .. Place' /\ Line(e)' = Line(e)
           /\ \A e : e = Place => e \in 1 .. Place' /\ Line(e)' = Append(open.stmts, m)
           /\ \A e : e = Place' /\ e # Place => Line(e)' = <<>>
           /\ \A e \in 1 .. Place' : e \in 1 .. Place \/ (Place' # Place /\ e = Place')
<1>0. Place = Len(Base) + 1 /\ Len(Base) \in Nat /\ Place \in Nat
  BY BaseTyped DEF Place
<1>1. CASE log' = log /\ open'.stmts = Append(open.stmts, m)
  <2>1. Base' = Base /\ Place' = Place
    BY <1>1 DEF Grows, Base, Place
  <2> QED BY <1>0, <1>1, <2>1 DEF Line
<1>2. CASE log' = Append(log, Append(open.stmts, m)) /\ open'.stmts = <<>>
  <2> DEFINE s == Append(open.stmts, m)
  <2>1. open.stmts \in Seq(Marks) /\ s \in Seq(Marks)
    BY DEF MockTypeOK
  <2> HIDE DEF s
  <2>2. told \in Seq(Seq(Marks)) /\ log \in Seq(Seq(Marks)) /\ told' = told /\ log' = Append(log, s)
    BY <1>2 DEF MockTypeOK, Grows, s
  <2>3. Base' = Append(Base, s)
    BY <2>1, <2>2 DEF Base
  <2>4. Base \in Seq(Seq(Marks))
    BY BaseTyped
  <2>5. Len(Base') = Len(Base) + 1 /\ Base'[Place] = s /\ \A e \in DOMAIN Base : Base'[e] = Base[e]
    BY <1>0, <2>1, <2>3, <2>4
  <2>6. Place' = Place + 1
    BY <2>5, <1>0 DEF Place
  <2>7. \A e \in 1 .. Place : e # Place => e \in 1 .. Place' /\ Line(e)' = Line(e)
    BY <1>0, <2>5, <2>6, BaseTyped DEF Line
  <2>8. \A e : e = Place => Line(e)' = s
    BY <1>0, <2>5, <2>6 DEF Line
  <2>9. \A e : e = Place' => Line(e)' = <<>>
    BY <1>2 DEF Line
  <2> QED BY <1>0, <2>6, <2>7, <2>8, <2>9 DEF s
<1> QED BY <1>1, <1>2 DEF Grows

\* What each action adds.
LEMMA AnswerGrows ==
    ASSUME MockTypeOK, DepthInv, NEW c \in Callers, Answer(c)
    PROVE  /\ Grows(Mark("stmt", open.depth, Len(ran) + 1))
           /\ Mark("stmt", open.depth, Len(ran) + 1) \in Marks
           /\ open'.depth = open.depth /\ live' = live
           /\ open'.stmts = <<>> <=> open.stmts = <<>>
<1> DEFINE m == Mark("stmt", open.depth, Len(ran) + 1)
<1>1. Logs(m) /\ m \in Marks /\ UNCHANGED <<broken, live, told>>
  BY AnswerIs
<1> HIDE DEF m
<1>2. /\ open = NoTxn => open' = NoTxn /\ log' = Append(log, <<m>>)
      /\ open # NoTxn => /\ log' = log /\ open' # NoTxn
                         /\ open' = [stmts |-> Append(open.stmts, m), depth |-> open.depth]
  BY <1>1, LogsKeepsType
<1>3. CASE open = NoTxn
  <2>1. open.stmts = <<>> /\ open'.stmts = <<>> /\ <<m>> = Append(open.stmts, m)
    BY <1>2, <1>3 DEF NoTxn
  <2> QED BY <1>1, <1>2, <1>3, <2>1 DEF Grows, m
<1>4. CASE open # NoTxn
  <2>1. open'.stmts = Append(open.stmts, m) /\ open'.depth = open.depth
    BY <1>2, <1>4
  <2>2. open.stmts # <<>> /\ Append(open.stmts, m) # <<>>
    BY <1>1, <1>4, MockOpenIs
  <2> QED BY <1>1, <1>2, <1>4, <2>1, <2>2 DEF Grows, m
<1> QED BY <1>3, <1>4

LEMMA EndGrows ==
    ASSUME MockTypeOK, DepthInv, NEW i \in DOMAIN live, NEW how \in {"commit", "rollback"},
           EndMock(i, how)
    PROVE  Grows(Mark(how, open.depth, live[i]))
<1>1. CASE open.depth = 0
  BY <1>1, EndIs DEF Grows, NoTxn, Ended
<1>2. CASE open.depth # 0
  BY <1>2, EndIs DEF Grows, Ended
<1> QED BY <1>1, <1>2

\* The open transaction begins with a begin; the statements of the lines count
\* up, and each that ran is in one, alone exactly if it ran alone.
Says(e, i) == i \in DOMAIN Line(e) /\ Line(e)[i].op = "stmt"
Shown(n) == \E e \in 1 .. Place : \E i \in DOMAIN Line(e) :
               Says(e, i) /\ Line(e)[i].who = n /\ (Len(Line(e)) > 1 <=> ran[n].inside)

HeadInv == open.stmts # <<>> => open.stmts[1].op = "begin"
UpInv ==
    /\ \A e \in 1 .. Place : \A i \in DOMAIN Line(e) :
          Says(e, i) => Line(e)[i].who \in 1 .. Len(ran)
    /\ \A e, f \in 1 .. Place : \A i \in DOMAIN Line(e), j \in DOMAIN Line(f) :
          Says(e, i) /\ Says(f, j) /\ (e < f \/ (e = f /\ i < j)) =>
             Line(e)[i].who < Line(f)[j].who
ShownInv == \A n \in DOMAIN ran : Shown(n)

SaidInv == HeadInv /\ UpInv /\ ShownInv

LEMMA SaidIsComplete == MockTypeOK /\ DepthInv /\ SaidInv => LogComplete
<1> SUFFICES ASSUME MockTypeOK, DepthInv, SaidInv PROVE LogComplete
  OBVIOUS
<1> DEFINE all == Everything
<1>1. /\ \A e \in DOMAIN all : e \in 1 .. Place /\ all[e] = Line(e)
      /\ \A e \in 1 .. Place : \A i \in DOMAIN Line(e) : e \in DOMAIN all
  <2>1. ASSUME NEW e \in 1 .. Place, NEW i \in DOMAIN Line(e) PROVE e \in DOMAIN all
    <3>1. Line(e) # <<>>
      BY <2>1
    <3>2. e = Place => open # NoTxn
      BY <3>1, MockOpenIs, BaseTyped
    <3> QED BY <3>2, EverythingIs
  <2> QED BY <2>1, EverythingIs
<1> HIDE DEF all
<1>2. ASSUME NEW n \in DOMAIN ran
      PROVE  \E e \in DOMAIN all : \E i \in DOMAIN all[e] :
                Said(all, e, i) /\ all[e][i].who = n /\ (Len(all[e]) > 1 <=> ran[n].inside)
  <2>1. PICK e \in 1 .. Place : \E i \in DOMAIN Line(e) :
               Says(e, i) /\ Line(e)[i].who = n /\ (Len(Line(e)) > 1 <=> ran[n].inside)
    BY DEF SaidInv, ShownInv, Shown
  <2>2. PICK i \in DOMAIN Line(e) :
               Says(e, i) /\ Line(e)[i].who = n /\ (Len(Line(e)) > 1 <=> ran[n].inside)
    BY <2>1
  <2>3. e \in DOMAIN all /\ all[e] = Line(e)
    BY <1>1
  <2> QED BY <2>2, <2>3 DEF Says, Said
<1>3. ASSUME NEW e \in DOMAIN all, NEW f \in DOMAIN all,
             NEW i \in DOMAIN all[e], NEW j \in DOMAIN all[f],
             Said(all, e, i), Said(all, f, j), e < f \/ (e = f /\ i < j)
      PROVE  all[e][i].who < all[f][j].who
  <2>1. all[e] = Line(e) /\ all[f] = Line(f) /\ e \in 1 .. Place /\ f \in 1 .. Place
    BY <1>1
  <2>2. Says(e, i) /\ Says(f, j)
    BY <1>3, <2>1 DEF Says, Said
  <2> QED BY <1>3, <2>1, <2>2 DEF SaidInv, UpInv
<1> QED BY <1>2, <1>3 DEF LogComplete, all

LEMMA SaidInitially == MockInit => SaidInv
<1> SUFFICES ASSUME MockInit PROVE SaidInv
  OBVIOUS
<1>1. open.stmts = <<>> /\ Base = <<>> /\ ran = <<>>
  BY DEF MockInit, NoTxn, Base
<1>2. Place = 1
  BY <1>1 DEF Place
<1>3. \A e \in 1 .. Place : Line(e) = <<>>
  BY <1>1, <1>2 DEF Line
<1> QED BY <1>1, <1>3 DEF SaidInv, HeadInv, UpInv, ShownInv, Says

\* Marks are added at the end: what a line said, it says.
LEMMA GrownLine ==
    ASSUME MockTypeOK, MockTypeOK', NEW m \in Marks, Grows(m)
    PROVE  \A e \in 1 .. Place' : \A i \in DOMAIN Line(e)' :
             \/ e \in 1 .. Place /\ i \in DOMAIN Line(e) /\ Line(e)'[i] = Line(e)[i]
             \/ e = Place /\ i = Len(open.stmts) + 1 /\ Line(e)'[i] = m
<1> SUFFICES ASSUME NEW e \in 1 .. Place', NEW i \in DOMAIN Line(e)'
             PROVE \/ e \in 1 .. Place /\ i \in DOMAIN Line(e) /\ Line(e)'[i] = Line(e)[i]
                   \/ e = Place /\ i = Len(open.stmts) + 1 /\ Line(e)'[i] = m
  OBVIOUS
<1>1. CASE e \in 1 .. Place /\ e # Place
  BY <1>1, LinesGrow
<1>2. CASE e = Place
  <2>1. Line(e)' = Append(open.stmts, m) /\ Line(e) = open.stmts /\ e \in 1 .. Place
    BY <1>2, LinesGrow, BaseTyped
  <2>2. open.stmts \in Seq(Marks)
    BY DEF MockTypeOK
  <2> QED BY <1>2, <2>1, <2>2
<1>3. CASE e = Place' /\ e # Place
  BY <1>3, LinesGrow
<1> QED BY <1>1, <1>2, <1>3, LinesGrow

\* Converse: nothing that was said is lost.
LEMMA KeptLine ==
    ASSUME MockTypeOK, MockTypeOK', NEW m \in Marks, Grows(m)
    PROVE  /\ \A e \in 1 .. Place : e \in 1 .. Place' /\
                 \A i \in DOMAIN Line(e) : i \in DOMAIN Line(e)' /\ Line(e)'[i] = Line(e)[i]
           /\ \A e : e = Place => /\ Len(open.stmts) + 1 \in DOMAIN Line(e)'
                                  /\ Line(e)'[Len(open.stmts) + 1] = m
                                  /\ Len(Line(e)') = Len(open.stmts) + 1
<1>1. open.stmts \in Seq(Marks) /\ Line(Place) = open.stmts
  BY BaseTyped DEF MockTypeOK
<1>2. ASSUME NEW e, e = Place
      PROVE  /\ e \in 1 .. Place' /\ Line(e)' = Append(open.stmts, m) /\ Line(e) = open.stmts
  BY <1>1, <1>2, LinesGrow
<1>3. ASSUME NEW e \in 1 .. Place, NEW i \in DOMAIN Line(e)
      PROVE  i \in DOMAIN Line(e)' /\ Line(e)'[i] = Line(e)[i]
  <2>1. CASE e = Place
    BY <1>1, <1>2, <1>3, <2>1
  <2>2. CASE e # Place
    BY <2>2, LinesGrow
  <2> QED BY <2>1, <2>2
<1> QED BY <1>1, <1>2, <1>3, LinesGrow

LEMMA HeadKept ==
    ASSUME MockTypeOK, MockTypeOK', DepthInv, HeadInv, NEW m \in Marks, Grows(m),
           open.stmts = <<>> => m.op = "begin" \/ open'.stmts = <<>>
    PROVE  HeadInv'
<1>1. open.stmts \in Seq(Marks)
  BY DEF MockTypeOK
<1>2. CASE open'.stmts = <<>>
  BY <1>2 DEF HeadInv
<1>3. CASE open'.stmts = Append(open.stmts, m)
  <2>1. CASE open.stmts = <<>>
    BY <1>3, <2>1 DEF HeadInv
  <2>2. CASE open.stmts # <<>>
    BY <1>1, <1>3, <2>2 DEF HeadInv
  <2> QED BY <2>1, <2>2
<1> QED BY <1>2, <1>3 DEF Grows

LEMMA StillShown ==
    ASSUME MockTypeOK, MockTypeOK', DepthInv, SaidInv, NEW m \in Marks, Grows(m),
           NEW n \in DOMAIN ran, ran'[n] = ran[n]
    PROVE  Shown(n)'
<1>1. PICK e \in 1 .. Place : \E i \in DOMAIN Line(e) :
             Says(e, i) /\ Line(e)[i].who = n /\ (Len(Line(e)) > 1 <=> ran[n].inside)
  BY DEF SaidInv, ShownInv, Shown
<1>2. PICK i \in DOMAIN Line(e) :
             Says(e, i) /\ Line(e)[i].who = n /\ (Len(Line(e)) > 1 <=> ran[n].inside)
  BY <1>1
<1>3. e \in 1 .. Place' /\ i \in DOMAIN Line(e)' /\ Line(e)'[i] = Line(e)[i]
  BY KeptLine
<1>4. Len(Line(e)') > 1 <=> Len(Line(e)) > 1
  <2>1. CASE e # Place
    BY <2>1, LinesGrow
  <2>2. CASE e = Place
    <3>1. Line(e) = open.stmts /\ Len(Line(e)') = Len(open.stmts) + 1
      BY <2>2, BaseTyped, KeptLine
    <3>2. open.stmts \in Seq(Marks) /\ open.stmts # <<>>
      BY <3>1 DEF MockTypeOK
    <3>3. open.stmts[1].op = "begin" /\ i # 1 /\ i \in 1 .. Len(open.stmts)
      BY <1>2, <3>1, <3>2 DEF SaidInv, HeadInv, Says
    <3> QED BY <3>1, <3>2, <3>3
  <2> QED BY <2>1, <2>2
<1>5. Says(e, i)'
  BY <1>2, <1>3 DEF Says
<1>6. Line(e)'[i].who = n /\ (Len(Line(e)') > 1 <=> ran'[n].inside)
  BY <1>2, <1>3, <1>4
<1> QED BY <1>3, <1>5, <1>6 DEF Shown

LEMMA OthersSayNothing ==
    ASSUME MockTypeOK, MockTypeOK', DepthInv, SaidInv, NEW m \in Marks, Grows(m),
           m.op # "stmt", ran' = ran, open.stmts = <<>> => m.op = "begin"
    PROVE  SaidInv'
<1>1. HeadInv'
  BY HeadKept DEF SaidInv
<1>2. ASSUME NEW e \in 1 .. Place', NEW i \in DOMAIN Line(e)', Says(e, i)'
      PROVE  /\ e \in 1 .. Place /\ i \in DOMAIN Line(e) /\ Line(e)'[i] = Line(e)[i]
             /\ Says(e, i)
  <2>1. i \in DOMAIN Line(e)' /\ Line(e)'[i].op = "stmt"
    BY <1>2 DEF Says
  <2>2. e \in 1 .. Place /\ i \in DOMAIN Line(e) /\ Line(e)'[i] = Line(e)[i]
    BY <2>1, GrownLine
  <2> QED BY <2>1, <2>2 DEF Says
<1>3. UpInv'
  <2>1. ASSUME NEW e \in 1 .. Place', NEW i \in DOMAIN Line(e)', Says(e, i)'
        PROVE  Line(e)'[i].who \in 1 .. Len(ran)'
    BY <1>2, <2>1 DEF SaidInv, UpInv
  <2>2. ASSUME NEW e \in 1 .. Place', NEW f \in 1 .. Place',
               NEW i \in DOMAIN Line(e)', NEW j \in DOMAIN Line(f)',
               Says(e, i)', Says(f, j)', e < f \/ (e = f /\ i < j)
        PROVE  Line(e)'[i].who < Line(f)'[j].who
    <3>1. /\ e \in 1 .. Place /\ i \in DOMAIN Line(e) /\ Line(e)'[i] = Line(e)[i] /\ Says(e, i)
          /\ f \in 1 .. Place /\ j \in DOMAIN Line(f) /\ Line(f)'[j] = Line(f)[j] /\ Says(f, j)
      BY <1>2, <2>2
    <3> QED BY <2>2, <3>1 DEF SaidInv, UpInv
  <2> QED BY <2>1, <2>2 DEF UpInv
<1>4. ASSUME NEW n \in DOMAIN ran PROVE Shown(n)'
  BY StillShown
<1> QED BY <1>1, <1>3, <1>4 DEF SaidInv, ShownInv

LEMMA AnswerSays ==
    ASSUME MockTypeOK, MockTypeOK', DepthInv, SaidInv, NEW c \in Callers, Answer(c)
    PROVE  SaidInv'
<1> DEFINE N == Len(ran) + 1
           m == Mark("stmt", open.depth, N)
<1>1. /\ Grows(m) /\ m \in Marks /\ m.op = "stmt" /\ m.who = N
      /\ open'.stmts = <<>> <=> open.stmts = <<>>
  BY AnswerGrows DEF Mark
<1>2. /\ Len(ran) \in Nat /\ DOMAIN ran = 1 .. Len(ran) /\ DOMAIN ran' = 1 .. N /\ Len(ran') = N
      /\ \A n \in DOMAIN ran : ran'[n] = ran[n]
      /\ ran'[N].inside <=> open # NoTxn
  <2> DEFINE r == [kind |-> asks[c].kind, index |-> asks[c].index, after |-> asks[c].after,
                   inside |-> live # <<>>, got |-> Got(asks[c])]
  <2>1. ran' = Append(ran, r) /\ r \in Ran /\ ran \in Seq(Ran) /\ (r.inside <=> live # <<>>)
    BY AnswerIs DEF MockTypeOK
  <2> HIDE DEF r
  <2>2. /\ Len(ran) \in Nat /\ DOMAIN ran = 1 .. Len(ran) /\ DOMAIN ran' = 1 .. N /\ Len(ran') = N
        /\ \A n \in DOMAIN ran : ran'[n] = ran[n]
        /\ ran'[N] = r
    BY <2>1
  <2> QED BY <2>1, <2>2, MockOpenIs
<1> HIDE DEF m
<1>3. HeadInv'
  BY <1>1, HeadKept DEF SaidInv
<1>4. ASSUME NEW e \in 1 .. Place', NEW i \in DOMAIN Line(e)', Says(e, i)'
      PROVE  \/ /\ e \in 1 .. Place /\ i \in DOMAIN Line(e) /\ Line(e)'[i] = Line(e)[i]
                /\ Says(e, i) /\ Line(e)'[i].who \in 1 .. Len(ran)
             \/ e = Place /\ i = Len(open.stmts) + 1 /\ Line(e)'[i].who = N
  <2>1. CASE e \in 1 .. Place /\ i \in DOMAIN Line(e) /\ Line(e)'[i] = Line(e)[i]
    <3>1. Says(e, i)
      BY <1>4, <2>1 DEF Says
    <3> QED BY <2>1, <3>1 DEF SaidInv, UpInv
  <2>2. CASE e = Place /\ i = Len(open.stmts) + 1 /\ Line(e)'[i] = m
    BY <1>1, <2>2
  <2> QED BY <1>1, <2>1, <2>2, GrownLine
<1>5. UpInv'
  <2>1. ASSUME NEW e \in 1 .. Place', NEW i \in DOMAIN Line(e)', Says(e, i)'
        PROVE  Line(e)'[i].who \in 1 .. Len(ran)'
    BY <1>2, <1>4, <2>1
  <2>2. ASSUME NEW e \in 1 .. Place', NEW f \in 1 .. Place',
               NEW i \in DOMAIN Line(e)', NEW j \in DOMAIN Line(f)',
               Says(e, i)', Says(f, j)', e < f \/ (e = f /\ i < j)
        PROVE  Line(e)'[i].who < Line(f)'[j].who
    <3>1. CASE e = Place /\ i = Len(open.stmts) + 1
      <4>1. Place \in Nat /\ Line(Place) = open.stmts /\ open.stmts \in Seq(Marks)
        BY BaseTyped DEF MockTypeOK
      <4>2. ~(f \in 1 .. Place /\ j \in DOMAIN Line(f))
        BY <2>2, <3>1, <4>1
      <4>3. f = Place /\ j = Len(open.stmts) + 1
        BY <1>4, <2>2, <4>2
      <4> QED BY <2>2, <3>1, <4>1, <4>3
    <3>2. CASE /\ e \in 1 .. Place /\ i \in DOMAIN Line(e) /\ Line(e)'[i] = Line(e)[i]
               /\ Says(e, i) /\ Line(e)'[i].who \in 1 .. Len(ran)
      <4>1. CASE f \in 1 .. Place /\ j \in DOMAIN Line(f) /\ Line(f)'[j] = Line(f)[j] /\ Says(f, j)
        BY <2>2, <3>2, <4>1 DEF SaidInv, UpInv
      <4>2. CASE Line(f)'[j].who = N
        BY <1>2, <3>2, <4>2
      <4> QED BY <1>4, <2>2, <4>1, <4>2
    <3> QED BY <1>4, <2>2, <3>1, <3>2
  <2> QED BY <2>1, <2>2 DEF UpInv
<1>6. ASSUME NEW n \in DOMAIN ran' PROVE Shown(n)'
  <2>1. CASE n \in DOMAIN ran
    BY <1>1, <1>2, <2>1, StillShown
  <2>2. CASE n = N
    <3>1. PICK e, i : e = Place /\ i = Len(open.stmts) + 1
      OBVIOUS
    <3>2. e \in 1 .. Place' /\ Line(e) = open.stmts
      BY <1>1, <3>1, LinesGrow, BaseTyped
    <3>3. i \in DOMAIN Line(e)' /\ Line(e)'[i] = m /\ Len(Line(e)') = Len(open.stmts) + 1
      BY <1>1, <3>1, KeptLine
    <3>4. open.stmts \in Seq(Marks) /\ (open = NoTxn <=> open.stmts = <<>>)
      BY MockOpenIs
    <3>5. Says(e, i)'
      BY <1>1, <3>3 DEF Says
    <3>6. Len(Line(e)') > 1 <=> ran'[n].inside
      BY <1>2, <2>2, <3>3, <3>4
    <3> QED BY <1>1, <2>2, <3>2, <3>3, <3>5, <3>6 DEF Shown
  <2> QED BY <1>2, <2>1, <2>2
<1> QED BY <1>3, <1>5, <1>6 DEF SaidInv, ShownInv

LEMMA SaidSame ==
    ASSUME SaidInv, Base' = Base, open' = open, ran' = ran
    PROVE  SaidInv'
<1>1. Place' = Place /\ \A e : Line(e)' = Line(e)
  BY DEF Place, Line
<1>2. \A e, i : Says(e, i)' <=> Says(e, i)
  BY <1>1 DEF Says
<1>3. HeadInv'
  BY DEF SaidInv, HeadInv
<1>4. UpInv'
  BY <1>1, <1>2 DEF SaidInv, UpInv
<1>5. ASSUME NEW n \in DOMAIN ran' PROVE Shown(n)'
  BY <1>1, <1>2 DEF SaidInv, ShownInv, Shown
<1> QED BY <1>3, <1>4, <1>5 DEF SaidInv, ShownInv

LEMMA DrainKeepsBase == MockTypeOK /\ Drain => Base' = Base
<1> SUFFICES ASSUME MockTypeOK, Drain PROVE Base' = Base
  OBVIOUS
<1>1. told \in Seq(Seq(Marks)) /\ log \in Seq(Seq(Marks)) /\ told' = told \o log /\ log' = <<>>
  BY DEF MockTypeOK, Drain
<1>2. told \o log \in Seq(Seq(Marks))
  BY <1>1
<1> QED BY <1>1, <1>2 DEF Base

LEMMA SaidStep == MockTypeOK /\ DepthInv /\ SaidInv /\ [MockNext]_mockVars => SaidInv'
<1> SUFFICES ASSUME MockTypeOK, DepthInv, SaidInv, [MockNext]_mockVars PROVE SaidInv'
  OBVIOUS
<1>0. MockTypeOK'
  BY MockTypesStep
<1>1. CASE UNCHANGED mockVars
  BY <1>1, SaidSame DEF mockVars, Base
<1>2. ASSUME NEW c \in Callers, Answer(c) PROVE SaidInv'
  BY <1>0, <1>2, AnswerSays
<1>3. ASSUME NEW c \in Callers, NEW k \in Kinds, Ask(c, k) PROVE SaidInv'
  BY <1>3, SaidSame DEF Ask, Base
<1>4. ASSUME NEW h \in Handles, BeginMock(h) PROVE SaidInv'
  <2> DEFINE m == Mark("begin", IF open = NoTxn THEN 0 ELSE open.depth + 1, h)
  <2>1. m \in Marks /\ Grows(m) /\ ran' = ran /\ m.op = "begin"
    BY <1>4, BeginIs DEF Grows, Mark
  <2> HIDE DEF m
  <2> QED BY <1>0, <2>1, OthersSayNothing
<1>5. ASSUME NEW i \in DOMAIN live, NEW how \in {"commit", "rollback"}, EndMock(i, how)
      PROVE  SaidInv'
  <2> DEFINE m == Mark(how, open.depth, live[i])
  <2>1. m \in Marks /\ Grows(m) /\ ran' = ran /\ m.op = how /\ how # "stmt"
    BY <1>5, EndIs, EndGrows DEF Mark
  <2>2. open.stmts # <<>>
    BY <1>5, EndIs, MockOpenIs
  <2> HIDE DEF m
  <2> QED BY <1>0, <2>1, <2>2, OthersSayNothing
<1>6. CASE Drain
  BY <1>6, SaidSame, DrainKeepsBase DEF Drain
<1> QED BY <1>1, <1>2, <1>3, <1>4, <1>5, <1>6, MockStepIs DEF MockStep

\* Every statement that ran is in the log, in the order of the answers and with
\* the transaction that was open (LogComplete).
THEOREM MockLogComplete == MockSpec => []LogComplete
<1>1. MockInit => MockTypeOK /\ DepthInv /\ SaidInv
  BY MockInitially, SaidInitially
<1>2. MockTypeOK /\ DepthInv /\ SaidInv /\ [MockNext]_mockVars
        => MockTypeOK' /\ DepthInv' /\ SaidInv'
  BY MockTypesStep, SaidStep
<1>3. MockTypeOK /\ DepthInv /\ SaidInv => LogComplete
  BY SaidIsComplete
<1> QED BY <1>1, <1>2, <1>3, PTL DEF MockSpec

\* The last begin at level l of the open transaction, whose handle is there.
Opens(i, l) ==
    /\ i \in DOMAIN open.stmts
    /\ open.stmts[i].op = "begin" /\ open.stmts[i].level = l /\ (l = 0 => i = 1)
    /\ Innermost => open.stmts[i].who = live[l + 1]
    /\ \A k \in i + 1 .. Len(open.stmts) : open.stmts[k].op # "stmt" => open.stmts[k].level > l

\* Each level has one; the lines nest; those in the log are closed.
Whole(s) == \/ Len(s) = 1 /\ s[1].op = "stmt"
            \/ Ends(s, Len(s)) /\ s[1].level = 0 /\ Closed(s, 1, Len(s))
OpensInv == open.stmts # <<>> => \A l \in 0 .. open.depth : \E i \in DOMAIN open.stmts : Opens(i, l)
LinesInv ==
    /\ \A e \in 1 .. Place : Nests(Line(e))
    /\ \A e \in DOMAIN Base : Whole(Base[e])

NestInv == OpensInv /\ LinesInv

LEMMA ClosedBefore ==
    ASSUME NEW s, NEW t, NEW i \in Nat, NEW j \in Nat, i < j, Closed(s, i, j),
           \A k \in i .. j : t[k] = s[k]
    PROVE  Closed(t, i, j)
<1>1. t[i] = s[i] /\ t[j] = s[j] /\ \A k \in i + 1 .. j - 1 : t[k] = s[k]
  OBVIOUS
<1> QED BY <1>1 DEF Closed

\* A mark that ends nothing, or what it closes, keeps a nest.
LEMMA AppendNests ==
    ASSUME NEW s \in Seq(Marks), NEW m \in Marks, Nests(s),
           \/ m.op \in {"stmt", "begin"}
           \/ \E i \in 1 .. Len(s) : Closed(Append(s, m), i, Len(s) + 1)
    PROVE  Nests(Append(s, m))
<1> DEFINE t == Append(s, m)
<1>1. /\ Len(s) \in Nat /\ DOMAIN s = 1 .. Len(s) /\ DOMAIN t = 1 .. Len(s) + 1
      /\ t[Len(s) + 1] = m /\ \A k \in DOMAIN s : t[k] = s[k]
  OBVIOUS
<1> HIDE DEF t
<1>2. ASSUME NEW j \in DOMAIN t, Ends(t, j) PROVE \E i \in 1 .. j - 1 : Closed(t, i, j)
  <2>1. CASE j \in DOMAIN s
    <3>1. Ends(s, j)
      BY <1>1, <1>2, <2>1 DEF Ends
    <3>2. PICK i \in 1 .. j - 1 : Closed(s, i, j)
      BY <2>1, <3>1 DEF Nests
    <3>3. i \in Nat /\ j \in Nat /\ i < j /\ \A k \in i .. j : t[k] = s[k]
      BY <1>1, <2>1, <3>2
    <3>4. Closed(t, i, j)
      BY <3>2, <3>3, ClosedBefore
    <3> QED BY <3>2, <3>4
  <2>2. CASE j = Len(s) + 1
    <3>1. m.op \notin {"stmt", "begin"}
      BY <1>1, <1>2, <2>2 DEF Ends
    <3>2. PICK i \in 1 .. Len(s) : Closed(t, i, Len(s) + 1)
      BY <3>1 DEF t
    <3>3. i \in 1 .. j - 1
      BY <1>1, <2>2, <3>2
    <3> QED BY <2>2, <3>2, <3>3
  <2> QED BY <1>1, <2>1, <2>2
<1> QED BY <1>2 DEF Nests, t

\* A statement alone in the log.
LEMMA AloneNests ==
    ASSUME NEW m \in Marks, m.op = "stmt"
    PROVE  Whole(Append(<<>>, m)) /\ Nests(Append(<<>>, m))
<1>1. Nests(<<>>)
  BY DEF Nests
<1>2. <<>> \in Seq(Marks)
  OBVIOUS
<1>3. Len(Append(<<>>, m)) = 1 /\ Append(<<>>, m)[1] = m
  OBVIOUS
<1>4. Nests(Append(<<>>, m))
  BY <1>1, <1>2, AppendNests
<1> QED BY <1>3, <1>4 DEF Whole

LEMMA NestInitially == MockInit => NestInv
<1> SUFFICES ASSUME MockInit PROVE NestInv
  OBVIOUS
<1>1. open.stmts = <<>> /\ Base = <<>>
  BY DEF MockInit, NoTxn, Base
<1>2. Place = 1 /\ DOMAIN Base = {}
  BY <1>1 DEF Place
<1>3. \A e \in 1 .. Place : Line(e) = <<>>
  BY <1>1, <1>2 DEF Line
<1>4. Nests(<<>>)
  BY DEF Nests
<1> QED BY <1>1, <1>2, <1>3, <1>4 DEF NestInv, OpensInv, LinesInv

LEMMA NestIsLog == MockTypeOK /\ DepthInv /\ NestInv => LogNests
<1> SUFFICES ASSUME MockTypeOK, DepthInv, NestInv PROVE LogNests
  OBVIOUS
<1>1. \A e \in DOMAIN Everything : Nests(Everything[e])
  BY EverythingIs DEF NestInv, LinesInv
<1>2. ASSUME NEW e \in DOMAIN log PROVE Whole(log[e])
  <2>1. told \in Seq(Seq(Marks)) /\ log \in Seq(Seq(Marks))
    BY DEF MockTypeOK
  <2>2. Len(told) + e \in DOMAIN Base /\ Base[Len(told) + e] = log[e]
    BY <2>1 DEF Base
  <2> QED BY <2>2 DEF NestInv, LinesInv
<1> QED BY <1>1, <1>2 DEF LogNests, Whole

\* What a step does to the lines, given what becomes of the open one.
LEMMA LinesNest ==
    ASSUME MockTypeOK, MockTypeOK', LinesInv, NEW m \in Marks, Grows(m),
           Nests(Append(open.stmts, m)),
           log' # log => Whole(Append(open.stmts, m))
    PROVE  LinesInv'
<1>1. ASSUME NEW e \in 1 .. Place' PROVE Nests(Line(e)')
  <2>1. CASE e \in 1 .. Place /\ e # Place
    BY <2>1, LinesGrow DEF LinesInv
  <2>2. CASE e = Place
    BY <2>2, LinesGrow
  <2>3. CASE e = Place' /\ e # Place
    <3>1. Line(e)' = <<>>
      BY <2>3, LinesGrow
    <3> QED BY <3>1 DEF Nests
  <2> QED BY <2>1, <2>2, <2>3, LinesGrow
<1>2. ASSUME NEW e \in DOMAIN Base' PROVE Whole(Base'[e])
  <2>0. Base' \in Seq(Seq(Marks))
    BY DEF MockTypeOK, Base
  <2>1. e \in 1 .. Place' /\ e # Place' /\ Line(e)' = Base'[e]
    <3>1. Len(Base') \in Nat /\ e \in 1 .. Len(Base') /\ Place' = Len(Base') + 1
      BY <2>0, <1>2 DEF Place
    <3> QED BY <3>1 DEF Line
  <2>2. CASE e # Place
    <3>1. e \in 1 .. Place /\ Line(e)' = Line(e)
      BY <2>1, <2>2, LinesGrow
    <3>2. e \in DOMAIN Base /\ Line(e) = Base[e]
      BY <2>2, <3>1, BaseTyped
    <3> QED BY <2>1, <3>1, <3>2 DEF LinesInv
  <2>3. CASE e = Place
    <3>1. log' # log
      <4>1. ASSUME log' = log PROVE FALSE
        <5>1. Place' = Place
          BY <4>1 DEF Grows, Place, Base
        <5> QED BY <2>1, <2>3, <5>1
      <4> QED BY <4>1
    <3> QED BY <2>1, <2>3, <3>1, LinesGrow
  <2> QED BY <2>2, <2>3
<1> QED BY <1>1, <1>2 DEF LinesInv, Nests, Whole, Closed, Ends

\* What a mark does to the openers of the levels it is deeper than.
LEMMA StillOpens ==
    ASSUME MockTypeOK, NEW m \in Marks, NEW l \in Nat, NEW i, Opens(i, l),
           open'.stmts = Append(open.stmts, m), m.op = "stmt" \/ m.level > l,
           Innermost => live'[l + 1] = live[l + 1]
    PROVE  Opens(i, l)'
<1>1. open.stmts \in Seq(Marks)
  BY DEF MockTypeOK
<1>2. /\ Len(open.stmts) \in Nat /\ DOMAIN open.stmts = 1 .. Len(open.stmts)
      /\ DOMAIN open'.stmts = 1 .. Len(open.stmts) + 1 /\ Len(open'.stmts) = Len(open.stmts) + 1
      /\ open'.stmts[Len(open.stmts) + 1] = m
      /\ \A k \in DOMAIN open.stmts : open'.stmts[k] = open.stmts[k]
  BY <1>1
<1>3. i \in DOMAIN open.stmts /\ i \in Nat
  BY <1>2 DEF Opens
<1>4. ASSUME NEW k \in i + 1 .. Len(open'.stmts), open'.stmts[k].op # "stmt"
      PROVE  open'.stmts[k].level > l
  <2>1. CASE k = Len(open.stmts) + 1
    BY <1>2, <1>4, <2>1
  <2>2. CASE k # Len(open.stmts) + 1
    <3>1. k \in i + 1 .. Len(open.stmts) /\ k \in DOMAIN open.stmts
      BY <1>2, <1>3, <1>4, <2>2
    <3> QED BY <1>2, <1>4, <3>1 DEF Opens
  <2> QED BY <2>1, <2>2
<1> QED BY <1>2, <1>3, <1>4 DEF Opens

LEMMA AnswerNests ==
    ASSUME MockTypeOK, MockTypeOK', DepthInv, NestInv, NEW c \in Callers, Answer(c)
    PROVE  NestInv'
<1> DEFINE m == Mark("stmt", open.depth, Len(ran) + 1)
<1>1. /\ Grows(m) /\ m \in Marks /\ m.op = "stmt" /\ open'.depth = open.depth /\ live' = live
      /\ open'.stmts = <<>> <=> open.stmts = <<>>
  BY AnswerGrows DEF Mark
<1>2. Logs(m)
  BY AnswerIs
<1> HIDE DEF m
<1>3. open.stmts \in Seq(Marks) /\ (open = NoTxn <=> open.stmts = <<>>) /\ open.depth \in Nat
  BY MockOpenIs
<1>4. Nests(Append(open.stmts, m))
  <2>1. Place \in 1 .. Place /\ Line(Place) = open.stmts
    BY BaseTyped DEF Place
  <2>2. Nests(open.stmts)
    BY <2>1 DEF NestInv, LinesInv
  <2> QED BY <1>1, <1>3, <2>2, AppendNests
<1>5. log' # log => Whole(Append(open.stmts, m))
  <2>1. log' # log => open = NoTxn
    BY <1>2 DEF Logs
  <2> QED BY <1>1, <1>3, <2>1, AloneNests
<1>6. LinesInv'
  BY <1>1, <1>4, <1>5, LinesNest DEF NestInv
<1>7. OpensInv'
  <2>1. SUFFICES ASSUME open'.stmts # <<>>, NEW l \in 0 .. open.depth
                 PROVE  \E i \in DOMAIN open'.stmts : Opens(i, l)'
    BY <1>1 DEF OpensInv
  <2>2. PICK i \in DOMAIN open.stmts : Opens(i, l)
    BY <1>1, <2>1 DEF NestInv, OpensInv
  <2>3. open'.stmts = Append(open.stmts, m)
    BY <1>1, <2>1 DEF Grows
  <2>4. l \in Nat /\ live'[l + 1] = live[l + 1]
    BY <1>1, <1>3
  <2>5. Opens(i, l)'
    BY <1>1, <2>2, <2>3, <2>4, StillOpens
  <2> QED BY <2>5 DEF Opens
<1> QED BY <1>6, <1>7 DEF NestInv

LEMMA BeginNests ==
    ASSUME MockTypeOK, MockTypeOK', DepthInv, NestInv, NEW h \in Handles, BeginMock(h)
    PROVE  NestInv'
<1> DEFINE d == IF open = NoTxn THEN 0 ELSE open.depth + 1
           m == Mark("begin", d, h)
           N == Len(open.stmts) + 1
<1>1. /\ d \in Nat /\ m \in Marks /\ d = Len(live) /\ live' = Append(live, h)
      /\ open'.stmts = Append(open.stmts, m) /\ open'.depth = d /\ log' = log /\ told' = told
      /\ m.op = "begin" /\ m.level = d /\ m.who = h
  BY BeginIs DEF Mark
<1>2. open.stmts \in Seq(Marks) /\ (open = NoTxn <=> open.stmts = <<>>) /\ open.depth \in Nat
  BY MockOpenIs
<1>3. open # NoTxn => d = open.depth + 1
  OBVIOUS
<1>4. open = NoTxn => d = 0
  OBVIOUS
<1> HIDE DEF d, m
<1>5. /\ DOMAIN open.stmts = 1 .. Len(open.stmts) /\ N \in Nat
      /\ DOMAIN open'.stmts = 1 .. N /\ Len(open'.stmts) = N /\ open'.stmts[N] = m
  BY <1>1, <1>2
<1>6. live \in Seq(Handles) /\ live'[d + 1] = h /\ \A j \in 1 .. d : live'[j] = live[j]
  BY <1>1 DEF MockTypeOK
<1>7. Nests(Append(open.stmts, m))
  <2>1. Place \in 1 .. Place /\ Line(Place) = open.stmts
    BY BaseTyped DEF Place
  <2>2. Nests(open.stmts)
    BY <2>1 DEF NestInv, LinesInv
  <2> QED BY <1>1, <1>2, <2>2, AppendNests
<1>8. LinesInv'
  BY <1>1, <1>7, LinesNest DEF NestInv, Grows
<1>9. ASSUME NEW l \in 0 .. d PROVE \E i \in DOMAIN open'.stmts : Opens(i, l)'
  <2>1. CASE l = d
    <3>1. d = 0 => N = 1
      BY <1>1, <1>2, <1>3
    <3>2. PICK i : i = N
      OBVIOUS
    <3>3. Opens(i, l)'
      BY <1>1, <1>5, <1>6, <2>1, <3>1, <3>2 DEF Opens
    <3> QED BY <1>5, <3>2, <3>3
  <2>2. CASE l # d
    <3>1. l \in 0 .. open.depth /\ open.stmts # <<>> /\ l \in Nat /\ l < d
      BY <1>1, <1>2, <1>3, <1>4, <1>9, <2>2
    <3>2. PICK i \in DOMAIN open.stmts : Opens(i, l)
      BY <3>1 DEF NestInv, OpensInv
    <3>3. m.level > l /\ live'[l + 1] = live[l + 1]
      BY <1>1, <1>6, <3>1
    <3>4. Opens(i, l)'
      BY <1>1, <3>1, <3>2, <3>3, StillOpens
    <3> QED BY <3>4 DEF Opens
  <2> QED BY <2>1, <2>2
<1> QED BY <1>1, <1>8, <1>9 DEF NestInv, OpensInv

LEMMA EndNests ==
    ASSUME MockTypeOK, MockTypeOK', DepthInv, NestInv,
           NEW e \in DOMAIN live, NEW how \in {"commit", "rollback"}, EndMock(e, how)
    PROVE  NestInv'
<1> DEFINE d == open.depth
           m == Mark(how, open.depth, live[e])
           N == Len(open.stmts) + 1
           t == Append(open.stmts, m)
<1>1. /\ open # NoTxn /\ m \in Marks /\ Grows(m) /\ m.op = how /\ m.level = d /\ m.who = live[e]
      /\ d = 0 => open' = NoTxn
      /\ d # 0 => open'.stmts = t /\ open'.depth = d - 1 /\ log' = log
      /\ Innermost => e = Len(live)
      /\ \A j \in DOMAIN live' : j < e => live'[j] = live[j]
      /\ live' \in Seq(Handles) /\ Len(live') = Len(live) - 1
  <2>1. /\ open # NoTxn /\ m \in Marks /\ Ended(e, how) = t
        /\ d = 0 => open' = NoTxn
        /\ d # 0 => open' = [stmts |-> Ended(e, how), depth |-> d - 1] /\ log' = log
        /\ Innermost => e = Len(live)
        /\ \A j \in DOMAIN live' : j < e => live'[j] = live[j]
        /\ live' \in Seq(Handles) /\ Len(live') = Len(live) - 1
    BY EndIs DEF Ended
  <2>2. Grows(m)
    BY EndGrows
  <2>3. m.op = how /\ m.level = d /\ m.who = live[e]
    BY DEF Mark
  <2> HIDE DEF m, t, d
  <2>4. d # 0 => open'.stmts = t /\ open'.depth = d - 1 /\ log' = log
    BY <2>1
  <2> QED BY <2>1, <2>2, <2>3, <2>4
<1>2. /\ open.stmts \in Seq(Marks) /\ open.stmts # <<>> /\ d \in Nat /\ Len(live) = d + 1
      /\ live \in Seq(Handles)
  BY <1>1, MockOpenIs DEF MockTypeOK, DepthInv
<1> HIDE DEF m
<1>3. /\ DOMAIN open.stmts = 1 .. Len(open.stmts) /\ N \in Nat /\ Len(t) = N /\ t[N] = m
      /\ \A k \in DOMAIN open.stmts : t[k] = open.stmts[k]
  <2>1. open.stmts \in Seq(Marks) /\ m \in Marks
    BY <1>1, <1>2
  <2> QED BY <2>1
<1> HIDE DEF t
<1>4. PICK i \in DOMAIN open.stmts : Opens(i, d)
  BY <1>2 DEF NestInv, OpensInv
<1>5. Closed(t, i, N)
  <2>1. i \in 1 .. Len(open.stmts) /\ t[i] = open.stmts[i] /\ t[i].op = "begin" /\ t[i].level = d
    BY <1>3, <1>4 DEF Opens
  <2>2. Innermost => t[i].who = t[N].who
    BY <1>1, <1>2, <1>3, <1>4, <2>1 DEF Opens
  <2>3. ASSUME NEW k \in i + 1 .. N - 1, t[k].op # "stmt" PROVE t[k].level > d
    <3>1. k \in i + 1 .. Len(open.stmts) /\ k \in DOMAIN open.stmts
      BY <1>3, <2>1, <2>3
    <3> QED BY <1>3, <1>4, <2>3, <3>1 DEF Opens
  <2> QED BY <1>1, <1>3, <2>1, <2>2, <2>3 DEF Closed
<1>6. Nests(t)
  <2>1. Place \in 1 .. Place /\ Line(Place) = open.stmts
    BY BaseTyped DEF Place
  <2>2. Nests(open.stmts)
    BY <2>1 DEF NestInv, LinesInv
  <2> QED BY <1>1, <1>2, <1>3, <1>5, <2>2, AppendNests DEF t
<1>7. log' # log => Whole(t)
  <2>1. ASSUME d = 0 PROVE Whole(t)
    <3>1. i = 1 /\ t[1].level = 0
      BY <1>3, <1>4, <2>1 DEF Opens
    <3>2. Ends(t, Len(t))
      BY <1>1, <1>3 DEF Ends
    <3> QED BY <1>3, <1>5, <3>1, <3>2 DEF Whole
  <2> QED BY <1>1, <2>1
<1>8. LinesInv'
  BY <1>1, <1>6, <1>7, LinesNest DEF NestInv, t
<1>9. OpensInv'
  <2>1. CASE d = 0
    BY <1>1, <2>1 DEF OpensInv, NoTxn
  <2>2. CASE d # 0
    <3>1. ASSUME NEW l \in 0 .. d - 1 PROVE \E j \in DOMAIN open'.stmts : Opens(j, l)'
      <4>1. l \in 0 .. d /\ l \in Nat /\ l < d
        BY <1>2, <3>1
      <4>2. PICK j \in DOMAIN open.stmts : Opens(j, l)
        BY <1>2, <4>1 DEF NestInv, OpensInv
      <4>3. m.level > l
        BY <1>1, <1>2, <4>1
      <4>4. Innermost => live'[l + 1] = live[l + 1]
        <5>1. Len(live') = d /\ DOMAIN live' = 1 .. d
          <6>1. Len(live') = d
            BY <1>1, <1>2
          <6> QED BY <1>1, <6>1
        <5>2. l + 1 \in 1 .. d /\ l + 1 < Len(live)
          BY <1>2, <4>1
        <5> QED BY <1>1, <5>1, <5>2
      <4>5. Opens(j, l)'
        <5>1. m \in Marks /\ open'.stmts = Append(open.stmts, m)
          BY <1>1, <2>2 DEF t
        <5> QED BY <4>1, <4>2, <4>3, <4>4, <5>1, StillOpens
      <4> QED BY <4>5 DEF Opens
    <3> QED BY <1>1, <2>2, <3>1 DEF OpensInv
  <2> QED BY <2>1, <2>2
<1> QED BY <1>8, <1>9 DEF NestInv

LEMMA NestSame ==
    ASSUME NestInv, Base' = Base, open' = open, live' = live
    PROVE  NestInv'
<1>1. Place' = Place /\ \A e : Line(e)' = Line(e)
  BY DEF Place, Line
<1>2. \A i, l : Opens(i, l)' <=> Opens(i, l)
  BY DEF Opens
<1> QED BY <1>1, <1>2 DEF NestInv, OpensInv, LinesInv

LEMMA NestStep == MockTypeOK /\ DepthInv /\ NestInv /\ [MockNext]_mockVars => NestInv'
<1> SUFFICES ASSUME MockTypeOK, DepthInv, NestInv, [MockNext]_mockVars PROVE NestInv'
  OBVIOUS
<1>0. MockTypeOK'
  BY MockTypesStep
<1>1. CASE UNCHANGED mockVars
  BY <1>1, NestSame DEF mockVars, Base
<1>2. ASSUME NEW c \in Callers, Answer(c) PROVE NestInv'
  BY <1>0, <1>2, AnswerNests
<1>3. ASSUME NEW c \in Callers, NEW k \in Kinds, Ask(c, k) PROVE NestInv'
  BY <1>3, NestSame DEF Ask, Base
<1>4. ASSUME NEW h \in Handles, BeginMock(h) PROVE NestInv'
  BY <1>0, <1>4, BeginNests
<1>5. ASSUME NEW i \in DOMAIN live, NEW how \in {"commit", "rollback"}, EndMock(i, how)
      PROVE  NestInv'
  BY <1>0, <1>5, EndNests
<1>6. CASE Drain
  BY <1>6, NestSame, DrainKeepsBase DEF Drain
<1> QED BY <1>1, <1>2, <1>3, <1>4, <1>5, <1>6, MockStepIs DEF MockStep

\* Each end in the log closes the begin of its level (LogNests).
THEOREM MockLogNests == MockSpec => []LogNests
<1>1. MockInit => MockTypeOK /\ DepthInv /\ NestInv
  BY MockInitially, NestInitially
<1>2. MockTypeOK /\ DepthInv /\ NestInv /\ [MockNext]_mockVars
        => MockTypeOK' /\ DepthInv' /\ NestInv'
  BY MockTypesStep, NestStep
<1>3. MockTypeOK /\ DepthInv /\ NestInv => LogNests
  BY NestIsLog
<1> QED BY <1>1, <1>2, <1>3, PTL DEF MockSpec
=============================================================================
