--------------------------- MODULE RusqliteShared ---------------------------
(***************************************************************************)
(* RusqliteSharedConnection (src/src/driver/rusqlite.rs): one SQLite       *)
(* connection in a slot behind a mutex, shared by threads.  A statement    *)
(* runs under the mutex guard; a transaction or a stream moves the         *)
(* connection out of the slot (State::Loaned) and puts it back on drop.    *)
(* acquire spins: try_lock, look at the slot, give up after the deadline.  *)
(* The transaction on a loan is one level deep here; module Transaction    *)
(* has the levels, the refused statements and the drops.                   *)
(***************************************************************************)
EXTENDS SqlSession

CONSTANTS Threads,
          NoThread,
          MaxCalls   \* bound: calls on the shared connection per thread

ASSUME ThreadAssumption == NoThread \notin Threads /\ MaxCalls \in Nat

VARIABLES slot,      \* State: "Idle", "Loaned" or "Disconnected"
          guard,     \* the thread that holds the mutex
          poisoned,  \* a thread panicked while holding it
          pc,        \* where each thread is
          call,      \* what it is calling
          late,      \* its acquire deadline has passed
          loan,      \* what it holds a loaned connection for
          calls,     \* how many calls it has made
          settled    \* writes whose caller was answered Ok: directly, or by commit

threadVars == <<slot, guard, poisoned, pc, call, late, loan, calls, settled>>
vars == <<inTx, sp, view, durable, slot, guard, poisoned, pc, call, late, loan,
          calls, settled>>

Calls == {"execute", "begin", "stream", "close"}
Acquiring == {"trying", "checking", "spinning"}

TypeOK ==
    /\ SessionTypeOK
    /\ slot \in {"Idle", "Loaned", "Disconnected"}
    /\ guard \in Threads \cup {NoThread}
    /\ poisoned \in BOOLEAN
    /\ pc \in [Threads -> Acquiring \cup {"ready", "guarded", "opening", "returning", "dead"}]
    /\ call \in [Threads -> Calls]
    /\ late \in [Threads -> BOOLEAN]
    /\ loan \in [Threads -> {"none", "txn", "stream"}]
    /\ calls \in [Threads -> Nat]
    /\ settled \in SUBSET Writes

Init ==
    /\ SessionInit
    /\ slot = "Idle"
    /\ guard = NoThread
    /\ poisoned = FALSE
    /\ pc = [t \in Threads |-> "ready"]
    /\ call = [t \in Threads |-> "execute"]
    /\ late = [t \in Threads |-> FALSE]
    /\ loan = [t \in Threads |-> "none"]
    /\ calls = [t \in Threads |-> 0]
    /\ settled = {}

Goto(t, l) == pc' = [pc EXCEPT ![t] = l]

(***************************************************************************)
(* acquire                                                                 *)
(***************************************************************************)
\* Nothing stops a thread from calling the shared connection while it holds a
\* loan of it: it then spins until its deadline.
Call(t, c) ==
    /\ pc[t] = "ready"
    /\ calls[t] < MaxCalls
    /\ calls' = [calls EXCEPT ![t] = @ + 1]
    /\ call' = [call EXCEPT ![t] = c]
    /\ late' = [late EXCEPT ![t] = FALSE]
    /\ Goto(t, "trying")
    /\ UNCHANGED <<sessionVars, slot, guard, poisoned, loan, settled>>

TryLock(t) ==
    /\ pc[t] = "trying"
    /\ \/ /\ guard # NoThread
          /\ Goto(t, "spinning")
          /\ UNCHANGED guard
       \/ /\ guard = NoThread /\ poisoned
          /\ Goto(t, "ready")         \* ConnectionClosed
          /\ UNCHANGED guard
       \/ /\ guard = NoThread /\ ~poisoned
          /\ Goto(t, "checking")
          /\ guard' = t
    /\ UNCHANGED <<sessionVars, slot, poisoned, call, late, loan, calls, settled>>

\* Slip: a loaned slot is handed out like an idle one.
CheckIgnoresLoan(t) ==
    /\ pc[t] = "checking"
    /\ IF slot = "Disconnected"
       THEN Goto(t, "ready") /\ guard' = NoThread
       ELSE Goto(t, "guarded") /\ UNCHANGED guard
    /\ UNCHANGED <<sessionVars, slot, poisoned, call, late, loan, calls, settled>>

\* Slip: close takes the mutex without waiting for the loan.
CheckLetsCloseIn(t) ==
    IF call[t] = "close" THEN CheckIgnoresLoan(t)
    ELSE /\ pc[t] = "checking"
         /\ IF slot = "Idle"
            THEN Goto(t, "guarded") /\ UNCHANGED guard
            ELSE /\ Goto(t, IF slot = "Loaned" THEN "spinning" ELSE "ready")
                 /\ guard' = NoThread
         /\ UNCHANGED <<sessionVars, slot, poisoned, call, late, loan, calls, settled>>

Check(t) ==
    /\ pc[t] = "checking"
    /\ \/ /\ slot = "Idle"
          /\ Goto(t, "guarded")
          /\ UNCHANGED guard
       \/ /\ slot = "Loaned"
          /\ Goto(t, "spinning")
          /\ guard' = NoThread
       \/ /\ slot = "Disconnected"
          /\ Goto(t, "ready")         \* ConnectionClosed
          /\ guard' = NoThread
    /\ UNCHANGED <<sessionVars, slot, poisoned, call, late, loan, calls, settled>>

\* Slip: the loop looks at the deadline only when the mutex is free.
SpinForever(t) ==
    /\ pc[t] = "spinning"
    /\ Goto(t, "trying")
    /\ UNCHANGED <<sessionVars, slot, guard, poisoned, call, late, loan, calls, settled>>

\* The deadline is looked at only after an attempt has failed.
Spin(t) ==
    /\ pc[t] = "spinning"
    /\ Goto(t, IF late[t] THEN "ready" ELSE "trying")
    /\ UNCHANGED <<sessionVars, slot, guard, poisoned, call, late, loan, calls, settled>>

Expire(t) ==
    /\ pc[t] \in Acquiring
    /\ ~late[t]
    /\ late' = [late EXCEPT ![t] = TRUE]
    /\ UNCHANGED <<sessionVars, slot, guard, poisoned, pc, call, loan, calls, settled>>

(***************************************************************************)
(* What a thread does with the guard: execute, loan, close_by_ref.         *)
(***************************************************************************)
Unlock == guard' = NoThread

Execute(t, w) ==
    /\ pc[t] = "guarded" /\ call[t] = "execute"
    /\ w \notin view \cup settled
    /\ StmtWrite(w)
    /\ settled' = settled \cup {w}
    /\ Unlock /\ Goto(t, "ready")
    /\ UNCHANGED <<slot, poisoned, call, late, loan, calls>>

ExecuteFails(t) ==
    /\ pc[t] = "guarded" /\ call[t] = "execute"
    /\ Unlock /\ Goto(t, "ready")
    /\ UNCHANGED <<sessionVars, slot, poisoned, call, late, loan, calls, settled>>

\* A callback or a row conversion panics under the guard.
ExecutePanics(t) ==
    /\ pc[t] = "guarded" /\ call[t] = "execute"
    /\ poisoned' = TRUE
    /\ Unlock
    /\ Goto(t, IF loan[t] = "none" THEN "dead" ELSE "returning")
    /\ UNCHANGED <<sessionVars, slot, call, late, loan, calls, settled>>

\* Slip: State::loan leaves the slot idle.
LendLeavesIdle(t) ==
    /\ pc[t] = "guarded" /\ call[t] \in {"begin", "stream"}
    /\ Unlock
    /\ loan' = [loan EXCEPT ![t] = IF call[t] = "begin" THEN "txn" ELSE "stream"]
    /\ Goto(t, IF call[t] = "begin" THEN "opening" ELSE "ready")
    /\ UNCHANGED <<sessionVars, slot, poisoned, call, late, calls, settled>>

\* Slip: the slot keeps what the connection was lent for.
LendNamesUse(t) ==
    /\ pc[t] = "guarded" /\ call[t] \in {"begin", "stream"}
    /\ slot' = call[t]
    /\ Unlock
    /\ loan' = [loan EXCEPT ![t] = IF call[t] = "begin" THEN "txn" ELSE "stream"]
    /\ Goto(t, IF call[t] = "begin" THEN "opening" ELSE "ready")
    /\ UNCHANGED <<sessionVars, poisoned, call, late, calls, settled>>

Lend(t) ==
    /\ pc[t] = "guarded" /\ call[t] \in {"begin", "stream"}
    /\ slot' = "Loaned"
    /\ Unlock
    /\ loan' = [loan EXCEPT ![t] = IF call[t] = "begin" THEN "txn" ELSE "stream"]
    /\ Goto(t, IF call[t] = "begin" THEN "opening" ELSE "ready")
    /\ UNCHANGED <<sessionVars, poisoned, call, late, calls, settled>>

Close(t) ==
    /\ pc[t] = "guarded" /\ call[t] = "close"
    /\ slot' = "Disconnected"
    /\ Unlock /\ Goto(t, "ready")
    /\ UNCHANGED <<sessionVars, poisoned, call, late, loan, calls, settled>>

(***************************************************************************)
(* What a thread does with a loan.  A refused BEGIN drops the loan.        *)
(***************************************************************************)
\* Slip: the answer to BEGIN is not looked at.
OpenTxnUnchecked(t) ==
    /\ pc[t] = "opening"
    /\ StmtBegin \/ UNCHANGED sessionVars
    /\ Goto(t, "ready")
    /\ UNCHANGED <<slot, guard, poisoned, call, late, loan, calls, settled>>

OpenTxn(t) ==
    /\ pc[t] = "opening"
    /\ \/ StmtBegin /\ Goto(t, "ready")
       \/ UNCHANGED sessionVars /\ Goto(t, "returning")
    /\ UNCHANGED <<slot, guard, poisoned, call, late, loan, calls, settled>>

TxnWrite(t, w) ==
    /\ pc[t] = "ready" /\ loan[t] = "txn"
    /\ w \notin view \cup settled
    /\ StmtWrite(w)
    /\ UNCHANGED threadVars

CommitTxn(t) ==
    /\ pc[t] = "ready" /\ loan[t] = "txn"
    /\ StmtCommit
    /\ settled' = settled \cup view
    /\ Goto(t, "returning")
    /\ UNCHANGED <<slot, guard, poisoned, call, late, loan, calls>>

RollbackTxn(t) ==
    /\ pc[t] = "ready" /\ loan[t] = "txn"
    /\ StmtRollback
    /\ Goto(t, "returning")
    /\ UNCHANGED <<slot, guard, poisoned, call, late, loan, calls, settled>>

EndStream(t) ==
    /\ pc[t] = "ready" /\ loan[t] = "stream"
    /\ Goto(t, "returning")
    /\ UNCHANGED <<sessionVars, slot, guard, poisoned, call, late, loan, calls, settled>>

\* Slip: the drop acquires an idle slot before it returns the loan.
ReturnAcquires(t) ==
    /\ pc[t] = "returning"
    /\ guard = NoThread /\ slot = "Idle"
    /\ loan' = [loan EXCEPT ![t] = "none"]
    /\ Goto(t, "ready")
    /\ UNCHANGED <<sessionVars, slot, guard, poisoned, call, late, calls, settled>>

\* Drop for RusqliteInnerConnection: lock().unwrap(), then return_.
Return(t) ==
    /\ pc[t] = "returning"
    /\ guard = NoThread
    /\ loan' = [loan EXCEPT ![t] = "none"]
    /\ IF poisoned
       THEN Goto(t, "dead") /\ UNCHANGED slot
       ELSE Goto(t, "ready") /\ slot' = "Idle"
    /\ UNCHANGED <<sessionVars, guard, poisoned, call, late, calls, settled>>

Next ==
    \E t \in Threads :
       \/ \E c \in Calls : Call(t, c)
       \/ TryLock(t) \/ Check(t) \/ Spin(t) \/ Expire(t)
       \/ ExecuteFails(t) \/ ExecutePanics(t) \/ Lend(t) \/ Close(t)
       \/ OpenTxn(t) \/ CommitTxn(t) \/ RollbackTxn(t) \/ EndStream(t) \/ Return(t)
       \/ \E w \in Writes : Execute(t, w) \/ TxnWrite(t, w)

Spec == Init /\ [][Next]_vars

\* The operating system runs every thread, and time passes.
Fairness ==
    \A t \in Threads :
       /\ WF_vars(TryLock(t)) /\ WF_vars(Check(t)) /\ WF_vars(Spin(t))
       /\ WF_vars(Expire(t))
       /\ WF_vars(pc[t] = "guarded" /\ (ExecuteFails(t) \/ Lend(t) \/ Close(t)))
       /\ WF_vars(OpenTxn(t)) /\ WF_vars(Return(t))

FairSpec == Spec /\ Fairness

(***************************************************************************)
(* Properties                                                              *)
(***************************************************************************)
\* The raw connection is reachable from one thread at a time: through the guard
\* over an idle slot, or through the loan (the type's documentation).
Uses(t) == pc[t] = "guarded" \/ loan[t] # "none"
SingleUser == \A t, u \in Threads : Uses(t) /\ Uses(u) => t = u

\* A statement answered Ok on the shared connection, and a committed
\* transaction, are durable from then on: no other thread's rollback undoes
\* them (execute acquires, begin loans).
SettledIsDurable == settled \subseteq durable

\* And nothing else is: an open or rolled back transaction leaks nothing into
\* what another thread's statement commits.
DurableIsSettled == durable \subseteq settled

\* The loan is never lost: the slot says Loaned exactly while some thread holds
\* the connection, and the unwrap in Drop never meets a poisoned mutex.
LoanComesBack ==
    /\ slot = "Loaned" <=> \E t \in Threads : loan[t] # "none"
    /\ \A t \in Threads : loan[t] # "none" => ~poisoned

\* A closed connection stays closed: no loan returned later brings it back
\* (close_by_ref acquires, so it waits for the loan).
ClosedForGood == [][slot = "Disconnected" => slot' = "Disconnected"]_slot

\* acquire comes back with the connection, a timeout or ConnectionClosed, even
\* to a thread that holds the loan it waits for.
AcquireEnds == \A t \in Threads : (pc[t] \in Acquiring) ~> (pc[t] \notin Acquiring)

\* A dropped transaction or stream gives the connection back, although others
\* keep taking the mutex to look at the slot.
LoanIsReturned == \A t \in Threads : (pc[t] = "returning") ~> (loan[t] = "none")
=============================================================================
