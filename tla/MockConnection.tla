--------------------------- MODULE MockConnection ---------------------------
(***************************************************************************)
(* MockDatabaseConnection (src/src/driver/mock.rs) over a MockDatabase     *)
(* (src/src/database/mock.rs): statements are answered from queued         *)
(* results and kept in a log of transactions.  Clones of one connection    *)
(* are used by several callers.  The index of the result is taken from a   *)
(* counter before the mutex is locked; everything else happens under it.   *)
(* The names differ from those of RusqliteShared, beside which the         *)
(* theorems are proved.                                                    *)
(***************************************************************************)
EXTENDS Naturals, Sequences

CONSTANTS Callers,
          Handles,    \* DatabaseTransactions, each begun at most once
          Queued,     \* how many results of each kind were appended
          Innermost,  \* clients end their newest transaction first
          MaxAsks     \* bound: statements of all callers

Kinds == {"execute", "query"}

\* What the constants are.
MockConstants ==
    Queued \in [Kinds -> Nat] /\ Innermost \in BOOLEAN /\ MaxAsks \in Nat

VARIABLES counters,  \* execute_counter, query_counter
          asks,      \* per caller: the statement it has counted and not run yet
          open,      \* the OpenTransaction, or NoTxn
          log,       \* transaction_log
          spent,     \* results that were replaced by "consumed already"
          broken,    \* the mutex is poisoned
          live,      \* the handles that are not ended, in the order they began
          begun,     \* the handles that have begun
          ran,       \* the statements that have run, and their answers
          told       \* what was drained from the log

mockVars == <<counters, asks, open, log, spent, broken, live, begun, ran, told>>

\* What the log keeps of a statement: at which depth it was pushed, and whose it is.
Mark(op, level, who) == [op |-> op, level |-> level, who |-> who]
Marks == [op : {"begin", "commit", "rollback", "stmt"}, level : Nat, who : Handles \cup Nat]

NoTxn == [stmts |-> <<>>, depth |-> 0]
NotAsking == [kind |-> "none", index |-> 0, after |-> 0]

Asked == [kind : Kinds, index : Nat, after : Nat]
Ran == [kind : Kinds, index : Nat, after : Nat, inside : BOOLEAN,
        got : {"result", "consumed", "empty"}]

MockTypeOK ==
    /\ counters \in [Kinds -> Nat]
    /\ asks \in [Callers -> Asked \cup {NotAsking}]
    /\ open \in [stmts : Seq(Marks), depth : Nat]
    /\ log \in Seq(Seq(Marks)) /\ told \in Seq(Seq(Marks))
    /\ spent \in [Kinds -> SUBSET Nat]
    /\ broken \in BOOLEAN
    /\ live \in Seq(Handles) /\ begun \in SUBSET Handles
    /\ ran \in Seq(Ran)

MockInit ==
    /\ counters = [k \in Kinds |-> 0] /\ asks = [c \in Callers |-> NotAsking]
    /\ open = NoTxn /\ log = <<>> /\ told = <<>>
    /\ spent = [k \in Kinds |-> {}] /\ broken = FALSE
    /\ live = <<>> /\ begun = {} /\ ran = <<>>

\* execute, query_one, query_all and fetch, up to the lock: fetch_add.
Ask(c, k) ==
    /\ asks[c] = NotAsking /\ counters["execute"] + counters["query"] < MaxAsks
    /\ counters' = [counters EXCEPT ![k] = @ + 1]
    /\ asks' = [asks EXCEPT ![c] = [kind |-> k, index |-> counters[k], after |-> Len(ran)]]
    /\ UNCHANGED <<open, log, spent, broken, live, begun, ran, told>>

\* A statement goes into the open transaction, whoever opened it.
Logs(m) ==
    IF open = NoTxn
    THEN log' = Append(log, <<m>>) /\ UNCHANGED open
    ELSE open' = [open EXCEPT !.stmts = Append(@, m)] /\ UNCHANGED log

Got(a) == CASE a.index >= Queued[a.kind]  -> "empty"
            [] a.index \in spent[a.kind]  -> "consumed"
            [] OTHER                      -> "result"

\* The rest of it, under the lock; with the mutex poisoned only an error.
Answer(c) ==
    LET a == asks[c] IN
    /\ a # NotAsking
    /\ asks' = [asks EXCEPT ![c] = NotAsking]
    /\ IF broken THEN UNCHANGED <<open, log, spent, ran>>
       ELSE /\ Logs(Mark("stmt", open.depth, Len(ran) + 1))
            /\ ran' = Append(ran, [kind |-> a.kind, index |-> a.index, after |-> a.after,
                                   inside |-> live # <<>>, got |-> Got(a)])
            /\ spent' = [spent EXCEPT ![a.kind] =
                           IF a.index < Queued[a.kind] THEN @ \cup {a.index} ELSE @]
    /\ UNCHANGED <<counters, broken, live, begun, told>>

\* begin of the connection and of a transaction alike: BEGIN, or a savepoint in
\* whatever transaction is open.
BeginMock(h) ==
    /\ ~broken /\ h \notin begun
    /\ begun' = begun \cup {h} /\ live' = Append(live, h)
    /\ open' = IF open = NoTxn THEN [stmts |-> <<Mark("begin", 0, h)>>, depth |-> 0]
               ELSE [stmts |-> Append(open.stmts, Mark("begin", open.depth + 1, h)),
                     depth |-> open.depth + 1]
    /\ UNCHANGED <<counters, asks, log, spent, broken, ran, told>>

\* COMMIT and ROLLBACK at depth 0 end the transaction; else a savepoint.
CloseMock(stmts, how) ==
    IF open.depth = 0 THEN open' = NoTxn /\ log' = Append(log, stmts)
    ELSE open' = [stmts |-> stmts, depth |-> open.depth - 1] /\ UNCHANGED log

\* commit, or rollback, or the drop of a handle that did neither: of the i-th.
EndMock(i, how) ==
    /\ ~broken
    /\ Innermost => i = Len(live)
    /\ live' = [j \in 1 .. Len(live) - 1 |-> IF j < i THEN live[j] ELSE live[j + 1]]
    /\ IF open = NoTxn
       THEN broken' = TRUE /\ UNCHANGED <<open, log>>  \* panics under the lock
       ELSE /\ CloseMock(Append(open.stmts, Mark(how, open.depth, live[i])), how)
            /\ UNCHANGED broken
    /\ UNCHANGED <<counters, asks, spent, begun, ran, told>>

\* into_transaction_log of one clone; the others go on.
Drain ==
    /\ ~broken
    /\ told' = told \o log /\ log' = <<>>
    /\ UNCHANGED <<counters, asks, open, spent, broken, live, begun, ran>>

MockNext ==
    \/ \E c \in Callers : Answer(c) \/ \E k \in Kinds : Ask(c, k)
    \/ \E h \in Handles : BeginMock(h)
    \/ \E i \in DOMAIN live, how \in {"commit", "rollback"} : EndMock(i, how)
    \/ Drain

MockSpec == MockInit /\ [][MockNext]_mockVars

(***************************************************************************)
(* Properties                                                              *)
(***************************************************************************)
\* Whatever transactions several callers begin and in whatever order they end
\* them, commit and rollback find an open transaction: they never panic under
\* the lock (MockDatabase::commit, rollback).
NeverPanics == ~broken

\* All that was logged, drained or not, and the transaction that is open.
Everything == told \o log \o (IF open = NoTxn THEN <<>> ELSE <<open.stmts>>)

\* Every statement that ran is in the log, once, with others if a transaction
\* was open and alone if none was, and they are there in the order in which they
\* ran, even if the log is drained in the middle of a transaction.
Said(all, e, i) == e \in DOMAIN all /\ i \in DOMAIN all[e] /\ all[e][i].op = "stmt"

LogComplete ==
    LET all == Everything IN
    /\ \A n \in DOMAIN ran : \E e \in DOMAIN all : \E i \in DOMAIN all[e] :
          Said(all, e, i) /\ all[e][i].who = n /\ (Len(all[e]) > 1 <=> ran[n].inside)
    /\ \A e, f \in DOMAIN all : \A i \in DOMAIN all[e], j \in DOMAIN all[f] :
          Said(all, e, i) /\ Said(all, f, j) /\ (e < f \/ (e = f /\ i < j)) =>
             all[e][i].who < all[f][j].who

\* A transaction in the log begins with BEGIN and ends with COMMIT or ROLLBACK;
\* each end closes the last begin of its level, with everything between them
\* deeper; and if clients end their newest transaction first, it is that of the
\* same handle, so that the log shows which transaction was committed.
Ends(s, j) == s[j].op \in {"commit", "rollback"}
Closed(s, i, j) ==
    /\ s[i].op = "begin" /\ s[i].level = s[j].level
    /\ Innermost => s[i].who = s[j].who
    /\ \A k \in i + 1 .. j - 1 : s[k].op # "stmt" => s[k].level > s[j].level

Nests(s) == \A j \in DOMAIN s : Ends(s, j) => \E i \in 1 .. j - 1 : Closed(s, i, j)

LogNests ==
    /\ \A e \in DOMAIN Everything : Nests(Everything[e])
    /\ \A e \in DOMAIN log :
          LET s == log[e] IN
          \/ Len(s) = 1 /\ s[1].op = "stmt"
          \/ Ends(s, Len(s)) /\ s[1].level = 0 /\ Closed(s, 1, Len(s))

\* No result is given twice, nor skipped: nobody is told that one was consumed
\* already, and when no call is under way exactly the first results of each
\* kind, as many as there were calls, are gone.
AnsweredOnce ==
    /\ \A n \in DOMAIN ran : ran[n].got # "consumed"
    /\ \A m, n \in DOMAIN ran :
          ran[m].kind = ran[n].kind /\ ran[m].index = ran[n].index => m = n
    /\ (\A c \in Callers : asks[c] = NotAsking) =>
          \A k \in Kinds : spent[k] = {i \in 0 .. counters[k] - 1 : i < Queued[k]}

\* Calls that do not overlap are answered in the order in which they are in the
\* log.  (Calls that do overlap may not be: the counter is outside the lock.)
AnsweredInTurn ==
    \A m, n \in DOMAIN ran :
       ran[m].kind = ran[n].kind /\ m <= ran[n].after => ran[m].index < ran[n].index
=============================================================================
