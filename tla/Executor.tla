------------------------------ MODULE Executor ------------------------------
(***************************************************************************)
(* Inserts, updates and deletes of single models (src/src/executor/        *)
(* insert.rs, update.rs, delete.rs, query/insert.rs, query/update.rs and   *)
(* the methods of ActiveModelTrait): the statement and, where the database *)
(* has no RETURNING, the second statement that reads the row back, while   *)
(* other clients write between the two.                                    *)
(*                                                                         *)
(* One table with a key and two plain columns, in one of the Ways:         *)
(*   way.db       "returning" (PostgreSQL, or MariaDB and SQLite with the  *)
(*                features for it), "mysql" or "sqlite", which have none   *)
(*   way.natural  the primary key is the key itself; otherwise the server  *)
(*                gives ids out, and the key is unique                     *)
(* All clients of SQLite share one connection, and so its                  *)
(* last_insert_rowid.  What the server does and answers is external.       *)
(***************************************************************************)
EXTENDS Naturals, Sequences, FiniteSets

CONSTANTS Clients, Keys, Vals, Ways,
          Columns,    \* the plain columns
          MaxCalls    \* bound: calls of all clients

ASSUME ExecutorAssumption ==
    /\ IsFiniteSet(Keys) /\ Keys = 1 .. Cardinality(Keys)
    /\ Ways \subseteq [db : {"returning", "mysql", "sqlite"}, natural : BOOLEAN]
    /\ 0 \in Vals /\ "a" \in Columns
    /\ MaxCalls \in Nat

VARIABLES way,
          db,       \* the rows by id: key and columns
          next,     \* the next id
          rowid,    \* SQLite's last_insert_rowid
          meant,    \* history: what each column of each row was last Set to
          have,     \* the model each client got last, if it has one
          call,     \* the call each client makes, and the one answered last
          calls

vars == <<way, db, next, rowid, meant, have, call, calls>>

Returning == way.db = "returning"   \* support_returning

Failures == {"error", "not inserted", "not updated", "not found", "not supported", "unread"}

NoCall == [at |-> "done", answer |-> "none", want |-> "count", policy |-> "fail", len |-> 0,
           did |-> {}, last |-> 0, moved |-> FALSE, stirred |-> {}, id |-> 0, models |-> {}]

\* A model that was read, and what a call Set of a row; "did" is all of that, and
\* "last" the id of the last row an insert wrote.
Model == [id : Nat \ {0}, cols : [Columns -> Vals]]
Deed  == [id : Nat \ {0}, cols : UNION {[S -> Vals] : S \in SUBSET Columns}]

Call == [at : {"read", "done"}, answer : Failures \cup {"ok", "none"},
         want : {"id", "model", "count"}, policy : {"fail", "nothing", "update"}, len : Nat,
         did : SUBSET Deed, last : Nat, moved : BOOLEAN, stirred : SUBSET Nat, id : Nat,
         models : SUBSET Model]

\* The ids given out are below the next one, or are the keys.
RowsOK ==
    /\ db \in [DOMAIN db -> [key : Keys, cols : [Columns -> Vals]]]
    /\ DOMAIN db \subseteq Nat \ {0}
    /\ next \in Nat \ {0}
    /\ \A id \in DOMAIN db : IF way.natural THEN db[id].key = id ELSE id < next
    /\ \A i, j \in DOMAIN db : db[i].key = db[j].key => i = j

TypeOK ==
    /\ way \in Ways
    /\ RowsOK
    /\ rowid \in Nat
    /\ have \in [Clients -> SUBSET Model]
    /\ \A c \in Clients : Cardinality(have[c]) <= 1
    /\ call \in [Clients -> Call]
    /\ calls \in 0 .. MaxCalls

ModelOf(rows, id) == [id |-> id, cols |-> rows[id].cols]

\* Each client has read the same row, or none.
Init ==
    /\ way \in Ways
    /\ db \in {[k \in S |-> [key |-> k, cols |-> [x \in Columns |-> 0]]] :
                 S \in {{k \in Keys : k <= n} : n \in Keys \cup {0}}}
    /\ next = 1 + Cardinality(Keys)
    /\ rowid = 0
    /\ meant = [id \in DOMAIN db |-> db[id].cols]
    /\ \E models \in {{}} \cup {{ModelOf(db, id)} : id \in DOMAIN db} :
          have = [c \in Clients |-> models]
    /\ call = [c \in Clients |-> NoCall]
    /\ calls = 0

(***************************************************************************)
(* INSERT of a sequence of rows [key, a], each with a key of its own.      *)
(***************************************************************************)
IdOf(k)     == CHOOSE id \in DOMAIN db : db[id].key = k
Fresh(rows) == {i \in DOMAIN rows : \A id \in DOMAIN db : db[id].key # rows[i].key}

RowId(rows, i) ==
    IF i \notin Fresh(rows) THEN IdOf(rows[i].key)
    ELSE IF way.natural THEN rows[i].key ELSE next + i - 1

\* The rows the statement writes: all but those that conflict and are to be
\* left alone.  A row that conflicts and is updated gets the new a.
Hit(rows, policy) == IF policy = "update" THEN DOMAIN rows ELSE Fresh(rows)

Wrote(rows, policy) ==
    {[id |-> RowId(rows, i),
      cols |-> IF i \in Fresh(rows)
               THEN [x \in Columns |-> IF x = "a" THEN rows[i].a ELSE 0]
               ELSE [x \in {"a"} |-> rows[i].a]] : i \in Hit(rows, policy)}

Over(cols, new) == [x \in DOMAIN cols \cup DOMAIN new |->
                       IF x \in DOMAIN new THEN new[x] ELSE cols[x]]

KeyAt(rows, id) == rows[CHOOSE i \in DOMAIN rows : RowId(rows, i) = id].key

Inserted(rows, policy) ==
    LET wrote == Wrote(rows, policy) IN
    [id \in DOMAIN db \cup {w.id : w \in wrote} |->
        LET new == {w \in wrote : w.id = id} IN
        IF new = {} THEN db[id]
        ELSE IF id \in DOMAIN db
             THEN [db[id] EXCEPT !.cols = Over(@, (CHOOSE w \in new : TRUE).cols)]
             ELSE [key |-> KeyAt(rows, id), cols |-> (CHOOSE w \in new : TRUE).cols]]

NextId(rows) == next + Len(rows)

Changed(rows, policy) ==
    {i \in Hit(rows, policy) : i \in Fresh(rows) \/ db[RowId(rows, i)].cols["a"] # rows[i].a}

\* rows_affected: MySQL counts 2 for a row that is changed, and 0 or, as the
\* connection asks for it, 1 for one that is set to what it was, which is also
\* how it leaves a row alone.
Counts(rows, policy) ==
    LET fresh == Cardinality(Fresh(rows))
        changed == Cardinality(Changed(rows, policy)) IN
    IF way.db = "mysql"
    THEN {2 * changed - fresh, 2 * changed - fresh + Len(rows) - changed}
    ELSE {Cardinality(Hit(rows, policy))}

Last(S)  == CHOOSE i \in S : \A j \in S : j <= i
First(S) == CHOOSE i \in S : \A j \in S : i <= j

\* last_insert_id: of MySQL the first id given out, or the id of the row that
\* was changed; of SQLite the last row inserted, now or before.
LastInsertId(rows, policy) ==
    IF way.db = "sqlite" THEN IF Fresh(rows) # {} THEN next + Last(Fresh(rows)) - 1 ELSE rowid
    ELSE IF way.natural \/ Changed(rows, policy) = {} THEN 0
    ELSE IF Fresh(rows) # {} THEN RowId(rows, First(Fresh(rows)))
    ELSE RowId(rows, Last(Changed(rows, policy)))

(***************************************************************************)
(* Calls.                                                                  *)
(***************************************************************************)
Ready(c) == call[c].at = "done" /\ calls < MaxCalls /\ calls' = calls + 1 /\ UNCHANGED way

\* c goes on with r; those who are about to read see the rows ids change, and
\* the calls that were answered before are forgotten.
Proceed(c, r, ids) ==
    call' = [d \in Clients |->
               IF d = c THEN r
               ELSE IF call[d].at = "read" THEN [call[d] EXCEPT !.stirred = @ \cup ids]
               ELSE NoCall]

Answer(r, answer) == [r EXCEPT !.at = "done", !.answer = answer]
GiveId(r, id)     == [r EXCEPT !.at = "done", !.answer = "ok", !.id = id]
Give(r, models)   == [r EXCEPT !.at = "done", !.answer = "ok", !.models = models]
GoRead(r, id)     == [r EXCEPT !.at = "read", !.id = id]

Keeps(c, r) == have' = [have EXCEPT ![c] = IF r.at = "done" /\ Cardinality(r.models) = 1
                                           THEN r.models ELSE @]

(***************************************************************************)
(* exec_insert, exec_insert_with_returning and _many.  RecordNotInserted   *)
(* is no id.                                                               *)
(***************************************************************************)
\* Slip: an insert of several rows is taken for none.
UnaffectedButOne(n) == n # 1
Unaffected(n) == n = 0

\* Slip: the 0 MySQL reports for an upsert that changed nothing is taken for an id.
ExecIdUnchecked(rows, policy, n) ==
    IF Unaffected(n) THEN {}
    ELSE IF way.natural THEN {rows[Len(rows)].key} ELSE {LastInsertId(rows, policy)}

ExecId(rows, policy, n) ==
    IF Unaffected(n) THEN {}
    ELSE IF way.natural THEN {rows[Len(rows)].key}
    ELSE IF way.db = "mysql" /\ LastInsertId(rows, policy) = 0 THEN {}
    ELSE {LastInsertId(rows, policy)}

ReadsBack(rows, policy, r, n) ==
    LET ids == ExecId(rows, policy, n) IN
    IF ids = {} THEN Answer(r, "not inserted")
    ELSE LET id == CHOOSE i \in ids : TRUE IN
         IF r.want = "id" THEN GiveId(r, id) ELSE GoRead(r, id)

\* Slip: the first row the statement returns is taken for the last.
ReturnsFirst(rows, policy, r) ==
    LET hit == Hit(rows, policy) IN
    IF r.want = "id"
    THEN IF hit = {} THEN Answer(r, "not inserted") ELSE GiveId(r, RowId(rows, First(hit)))
    ELSE IF Len(rows) = 1 /\ hit = {} THEN Answer(r, "not found")
    ELSE Give(r, {ModelOf(Inserted(rows, policy), RowId(rows, i)) : i \in hit})

\* The rows the statement returns are those it wrote.
Returns(rows, policy, r) ==
    LET hit == Hit(rows, policy) IN
    IF r.want = "id"
    THEN IF hit = {} THEN Answer(r, "not inserted") ELSE GiveId(r, RowId(rows, Last(hit)))
    ELSE IF Len(rows) = 1 /\ hit = {} THEN Answer(r, "not found")
    ELSE Give(r, {ModelOf(Inserted(rows, policy), RowId(rows, i)) : i \in hit})

NewCall(want, policy, len) == [NoCall EXCEPT !.want = want, !.policy = policy, !.len = len]

InsertCall(rows, policy, want) ==
    LET hit == Hit(rows, policy) IN
    [NewCall(want, policy, Len(rows)) EXCEPT
        !.did = Wrote(rows, policy), !.last = IF hit = {} THEN 0 ELSE RowId(rows, Last(hit)),
        !.moved = Inserted(rows, policy) # db]

Insert(c, rows, policy, want) ==
    LET r == InsertCall(rows, policy, want)
        many == want = "model" /\ Len(rows) > 1 IN
    /\ Ready(c)
    /\ \/ /\ many /\ ~Returning
          /\ Proceed(c, Answer(NewCall(want, policy, Len(rows)), "not supported"), {})
          /\ UNCHANGED <<db, next, rowid, meant, have>>
       \/ /\ ~(many /\ ~Returning)
          /\ policy = "fail" /\ Fresh(rows) # DOMAIN rows
          /\ Proceed(c, Answer(NewCall(want, policy, Len(rows)), "error"), {})
          /\ UNCHANGED <<db, next, rowid, meant, have>>
       \/ /\ ~(many /\ ~Returning)
          /\ policy = "fail" => Fresh(rows) = DOMAIN rows
          /\ db' = Inserted(rows, policy)
          /\ next' = NextId(rows)
          /\ rowid' = IF way.db = "sqlite" THEN LastInsertId(rows, policy) ELSE rowid
          /\ meant' = [id \in DOMAIN db' |->
                         LET old == IF id \in DOMAIN meant THEN meant[id] ELSE [x \in Columns |-> 0]
                             new == {w \in r.did : w.id = id} IN
                         IF new = {} THEN old ELSE Over(old, (CHOOSE w \in new : TRUE).cols)]
          /\ \E n \in Counts(rows, policy) :
                LET s == IF Returning THEN Returns(rows, policy, r)
                                      ELSE ReadsBack(rows, policy, r, n) IN
                Proceed(c, s, {w.id : w \in r.did}) /\ Keeps(c, s)

(***************************************************************************)
(* Update::one and exec_update_and_return_updated, of an active model with *)
(* the columns in "set" Set and those in "old" Unchanged.                  *)
(***************************************************************************)
\* Slip: what is unchanged is written too.
ValuesOfAll(m) == Over(m.old, m.set)
Values(m) == m.set

Update(c, m, want) ==
    LET id == m.id
        there == id \in DOMAIN db
        new == [db EXCEPT ![id].cols = Over(@, Values(m))]
        r == [NewCall(want, "fail", 0) EXCEPT
                 !.did = {[id |-> id, cols |-> m.set]},
                 !.stirred = {id} \ DOMAIN db]
        s == [r EXCEPT !.moved = new # db] IN
    /\ Ready(c)
    /\ UNCHANGED <<next, rowid>>
    /\ \/ /\ DOMAIN Values(m) = {}
          /\ Proceed(c, IF want = "model" THEN GoRead(r, id) ELSE Answer(r, "ok"), {})
          /\ UNCHANGED <<db, meant, have>>
       \/ /\ DOMAIN Values(m) # {} /\ ~there
          /\ Proceed(c, Answer(r, "not updated"), {})
          /\ UNCHANGED <<db, meant, have>>
       \/ /\ DOMAIN Values(m) # {} /\ there
          /\ db' = new
          /\ meant' = [meant EXCEPT ![id] = Over(@, m.set)]
          /\ LET t == IF want = "count" THEN Answer(s, "ok")
                      ELSE IF Returning THEN Give(s, {ModelOf(new, id)})
                      ELSE GoRead(s, id) IN
             Proceed(c, t, {id}) /\ Keeps(c, t)

\* ActiveModelTrait::save: a model whose primary key is set is updated.
\* Slip: so is one whose key the server is to give out.
IsUpdateAlways(m) == TRUE
IsUpdate(m) == m.id # 0

Save(c, m) ==
    IF IsUpdate(m) THEN Update(c, m, "model")
                   ELSE Insert(c, <<[key |-> m.key, a |-> m.set["a"]]>>, "fail", "model")

\* No row is no error.
Delete(c, id) ==
    /\ Ready(c)
    /\ db' = [i \in DOMAIN db \ {id} |-> db[i]]
    /\ meant' = [i \in DOMAIN meant \ {id} |-> meant[i]]
    /\ have' = [have EXCEPT ![c] = {}]
    /\ Proceed(c, Answer(NewCall("count", "fail", 0), "ok"), {id})
    /\ UNCHANGED <<next, rowid>>

(***************************************************************************)
(* find_by_id with the id of the insert, find_updated_model_by_id.         *)
(***************************************************************************)
Read(c) ==
    LET id == call[c].id
        s == IF id \in DOMAIN db THEN Give(call[c], {ModelOf(db, id)})
                                 ELSE Answer(call[c], "not found") IN
    /\ call[c].at = "read"
    /\ Proceed(c, s, {}) /\ Keeps(c, s)
    /\ UNCHANGED <<way, db, next, rowid, meant, calls>>

ReadFails(c) ==
    /\ call[c].at = "read"
    /\ Proceed(c, Answer(call[c], "unread"), {})
    /\ UNCHANGED <<way, db, next, rowid, meant, have, calls>>

\* What a client asks for: new rows, and changes of the model it has.
NewModel(k, v) == [id |-> IF way.natural THEN k ELSE 0, key |-> k,
                   set |-> [x \in {"a"} |-> v], old |-> << >>]
Edited(m, S, v) == [id |-> m.id, set |-> [x \in S |-> v],
                    old |-> [x \in Columns \ S |-> m.cols[x]]]

Next ==
    \E c \in Clients :
       \/ \E k \in Keys, v \in Vals, want \in {"id", "model"}, policy \in {"fail", "nothing", "update"} :
             \/ Insert(c, <<[key |-> k, a |-> v]>>, policy, want)
             \/ \E j \in {j \in Keys : j > k} :
                   Insert(c, <<[key |-> k, a |-> v], [key |-> j, a |-> v]>>, policy, want)
       \/ \E k \in Keys, v \in Vals : Save(c, NewModel(k, v))
       \/ \E m \in have[c], v \in Vals :
             \/ \E S \in {{}} \cup {{x} : x \in Columns} :
                   Save(c, Edited(m, S, v)) \/ Update(c, Edited(m, S, v), "count")
             \/ Delete(c, m.id)
       \/ Read(c) \/ ReadFails(c)

Spec == Init /\ [][Next]_vars

(***************************************************************************)
(* Safety.                                                                 *)
(***************************************************************************)
\* What the code cannot tell from the answer of the server.  An upsert on
\* SQLite leaves last_insert_rowid at an earlier row.  MySQL may count a row
\* that DO NOTHING leaves alone, and where the key is the client's own no id
\* shows it; nor does one tell which of several rows were left alone.  The row
\* that RETURNING does not return, since it conflicts, is "not found".
Tells(r) ==
    /\ ~(r.policy = "update" /\ way.db = "sqlite" /\ ~way.natural)
    /\ ~(r.policy = "nothing" /\ way.natural /\ (way.db = "mysql" \/ (~Returning /\ r.len > 1)))
    /\ ~(r.policy = "nothing" /\ Returning /\ r.want = "model")

\* Nor which id is the last: of an insert of several rows MySQL reports the first
\* it gave out, and that is the answer, though InsertManyResult documents "the
\* primary key of the last row inserted" (insert.rs, 39).
TellsLast(r) == ~(way.db = "mysql" /\ ~way.natural /\ r.len > 1)

\* The model a call answers with is the row the call wrote, with the values it
\* wrote unless another client has written it in between; the id is that of the
\* last row the call wrote, or of one of them where TellsLast does not hold: by
\* whichever of RETURNING, last_insert_id and the own key it was found
\* (exec_insert, exec_insert_with_returning, find_updated_model_by_id).
AnswersAreOwn ==
    \A c \in Clients : LET r == call[c] IN
        r.at = "done" /\ r.answer = "ok" /\ Tells(r) =>
            /\ r.want = "model" => {m.id : m \in r.models} = {d.id : d \in r.did}
            /\ \A m \in r.models, d \in r.did :
                  m.id = d.id /\ d.id \notin r.stirred =>
                     \A x \in DOMAIN d.cols : m.cols[x] = d.cols[x]
            /\ r.want = "id" => /\ \E d \in r.did : d.id = r.id
                                /\ TellsLast(r) => r.id = r.last

\* A call that is refused has written nothing and may be made again
\* (RecordNotInserted, RecordNotUpdated, BackendNotSupported).
RefusedWroteNothing ==
    \A c \in Clients :
        call[c].answer \in {"error", "not inserted", "not updated", "not supported"}
            => ~call[c].moved

\* "Failed to find inserted item" and "Failed to find updated item" say that
\* another client has taken the row away: the call itself has written it.
NotFoundMeansTaken ==
    \A c \in Clients :
        call[c].answer = "not found" /\ Tells(call[c])
            => \E d \in call[c].did : d.id \in call[c].stirred

\* A column keeps what it was last Set to by anyone: a model that was read
\* earlier does not bring back the columns it only has unchanged (Update::one).
NothingSetIsLost == DOMAIN meant = DOMAIN db /\ \A id \in DOMAIN db : db[id].cols = meant[id]
(***************************************************************************)
(* The inductive form of AnswersAreOwn and NotFoundMeansTaken: a call that *)
(* is about to read will read the one row it wrote, which no other call    *)
(* has changed unless it is in stirred.                                    *)
(***************************************************************************)
Stands(d, rows) ==
    d.id \in DOMAIN rows /\ \A x \in DOMAIN d.cols : rows[d.id].cols[x] = d.cols[x]

ReadInv ==
    \A c \in Clients : LET r == call[c] IN
        r.at = "read" =>
            /\ r.want = "model" /\ r.answer = "none"
            /\ Tells(r) => /\ \E d \in r.did : r.did = {d} /\ d.id = r.id
                           /\ \A d \in r.did : d.id \notin r.stirred => Stands(d, db)
=============================================================================
