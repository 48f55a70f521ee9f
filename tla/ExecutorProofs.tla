--------------------------- MODULE ExecutorProofs ---------------------------
(***************************************************************************)
(* Proofs about Executor.  An INSERT gives each row of the statement an id *)
(* of its own, the one of the row it conflicts with or a new one; what     *)
(* last_insert_id tells is then one of those the statement wrote, and of   *)
(* those the last, but for the cases Tells and TellsLast leave out.        *)
(***************************************************************************)
EXTENDS Executor, FiniteSetTheorems, TLAPS

(***************************************************************************)
(* The rows of a statement.                                                *)
(***************************************************************************)
Batch(rows) ==
    /\ Len(rows) \in {1, 2} /\ DOMAIN rows = 1 .. Len(rows)
    /\ \A i \in DOMAIN rows : rows[i].key \in Keys /\ rows[i].a \in Vals
    /\ \A i, j \in DOMAIN rows : rows[i].key = rows[j].key => i = j

Policies == {"fail", "nothing", "update"}

LEMMA KeysAreNat == Keys \subseteq Nat \ {0} /\ Cardinality(Keys) \in Nat
<1>1. Cardinality(Keys) \in Nat
  BY ExecutorAssumption, FS_CardinalityType
<1>2. 1 .. Cardinality(Keys) \subseteq Nat \ {0}
  BY <1>1
<1> QED BY <1>1, <1>2, ExecutorAssumption

LEMMA OneRow ==
    ASSUME NEW k \in Keys, NEW v \in Vals
    PROVE  Batch(<<[key |-> k, a |-> v]>>) /\ Len(<<[key |-> k, a |-> v]>>) = 1
BY DEF Batch

LEMMA TwoRows ==
    ASSUME NEW k \in Keys, NEW j \in Keys, j > k, NEW v \in Vals
    PROVE  Batch(<<[key |-> k, a |-> v], [key |-> j, a |-> v]>>)
<1> DEFINE rows == <<[key |-> k, a |-> v], [key |-> j, a |-> v]>>
<1>1. Len(rows) = 2 /\ DOMAIN rows = 1 .. 2
  OBVIOUS
<1>2. \A i \in 1 .. 2 : i = 1 \/ i = 2
  OBVIOUS
<1>3. rows[1].key = k /\ rows[2].key = j /\ rows[1].a = v /\ rows[2].a = v
  OBVIOUS
<1>4. k # j
  BY KeysAreNat
<1> QED BY <1>1, <1>2, <1>3, <1>4 DEF Batch

\* A row that conflicts has the id of the row it conflicts with.
LEMMA ConflictHasItsId ==
    ASSUME RowsOK, NEW rows, NEW i \in DOMAIN rows \ Fresh(rows)
    PROVE  /\ RowId(rows, i) \in DOMAIN db
           /\ db[RowId(rows, i)].key = rows[i].key
<1>1. \E id \in DOMAIN db : db[id].key = rows[i].key
  BY DEF Fresh
<1>2. IdOf(rows[i].key) \in DOMAIN db /\ db[IdOf(rows[i].key)].key = rows[i].key
  BY <1>1 DEF IdOf
<1> QED BY <1>2 DEF RowId

\* A row that does not gets a new one.
LEMMA FreshHasNewId ==
    ASSUME RowsOK, NEW rows, Batch(rows), NEW i \in Fresh(rows)
    PROVE  /\ i \in DOMAIN rows
           /\ RowId(rows, i) \in Nat \ {0}
           /\ RowId(rows, i) \notin DOMAIN db
           /\ RowId(rows, i) = IF way.natural THEN rows[i].key ELSE next + i - 1
<1>1. i \in DOMAIN rows /\ i \in Nat \ {0} /\ \A id \in DOMAIN db : db[id].key # rows[i].key
  BY DEF Fresh, Batch
<1>2. RowId(rows, i) = IF way.natural THEN rows[i].key ELSE next + i - 1
  BY DEF RowId
<1>3. CASE way.natural
  BY <1>1, <1>2, <1>3, KeysAreNat DEF RowsOK, Batch
<1>4. CASE ~way.natural
  <2>1. next + i - 1 >= next /\ next + i - 1 \in Nat \ {0}
    BY <1>1 DEF RowsOK
  <2> QED BY <1>1, <1>2, <1>4, <2>1 DEF RowsOK
<1> QED BY <1>1, <1>2, <1>3, <1>4

LEMMA RowIdFacts ==
    ASSUME RowsOK, NEW rows, Batch(rows), NEW i \in DOMAIN rows
    PROVE  /\ RowId(rows, i) \in Nat \ {0}
           /\ i \in Fresh(rows) <=> RowId(rows, i) \notin DOMAIN db
           /\ way.natural => RowId(rows, i) = rows[i].key
<1>1. CASE i \in Fresh(rows)
  BY <1>1, FreshHasNewId
<1>2. CASE i \notin Fresh(rows)
  BY <1>2, ConflictHasItsId DEF RowsOK
<1> QED BY <1>1, <1>2

\* No two rows of a statement get the same id.
LEMMA RowIdsDiffer ==
    ASSUME RowsOK, NEW rows, Batch(rows), NEW i \in DOMAIN rows, NEW j \in DOMAIN rows,
           RowId(rows, i) = RowId(rows, j)
    PROVE  i = j
<1>1. i \in Fresh(rows) <=> j \in Fresh(rows)
  BY RowIdFacts
<1>2. CASE i \in Fresh(rows)
  <2>1. RowId(rows, i) = (IF way.natural THEN rows[i].key ELSE next + i - 1)
    BY <1>2, FreshHasNewId
  <2>2. RowId(rows, j) = (IF way.natural THEN rows[j].key ELSE next + j - 1)
    BY <1>1, <1>2, FreshHasNewId
  <2>3. i \in Nat /\ j \in Nat /\ next \in Nat
    BY DEF Batch, RowsOK
  <2>4. CASE way.natural
    BY <2>1, <2>2, <2>4 DEF Batch
  <2>5. CASE ~way.natural
    <3>1. next + i - 1 = next + j - 1
      BY <2>1, <2>2, <2>5
    <3> QED BY <2>3, <3>1
  <2> QED BY <2>4, <2>5
<1>3. CASE i \notin Fresh(rows)
  <2>1. rows[i].key = rows[j].key
    BY <1>1, <1>3, ConflictHasItsId
  <2> QED BY <2>1 DEF Batch
<1> QED BY <1>2, <1>3

(***************************************************************************)
(* What an INSERT writes.                                                  *)
(***************************************************************************)
DeedOf(rows, i) ==
    [id |-> RowId(rows, i),
     cols |-> IF i \in Fresh(rows)
              THEN [x \in Columns |-> IF x = "a" THEN rows[i].a ELSE 0]
              ELSE [x \in {"a"} |-> rows[i].a]]

LEMMA WroteIs ==
    ASSUME NEW rows, NEW policy
    PROVE  Wrote(rows, policy) = {DeedOf(rows, i) : i \in Hit(rows, policy)}
BY DEF Wrote, DeedOf

LEMMA HitIs ==
    ASSUME NEW rows, NEW policy
    PROVE  /\ Fresh(rows) \subseteq Hit(rows, policy)
           /\ Hit(rows, policy) \subseteq DOMAIN rows
           /\ policy = "update" => Hit(rows, policy) = DOMAIN rows
           /\ policy # "update" => Hit(rows, policy) = Fresh(rows)
BY DEF Hit, Fresh

LEMMA DeedFacts ==
    ASSUME RowsOK, NEW rows, Batch(rows), NEW i \in DOMAIN rows
    PROVE  /\ DeedOf(rows, i) \in Deed
           /\ DeedOf(rows, i).id = RowId(rows, i)
           /\ i \in Fresh(rows) => DeedOf(rows, i).cols \in [Columns -> Vals]
           /\ i \notin Fresh(rows) => DeedOf(rows, i).cols = [x \in {"a"} |-> rows[i].a]
<1>1. rows[i].a \in Vals
  BY DEF Batch
<1>2. i \in Fresh(rows) =>
        /\ DeedOf(rows, i).cols \in [Columns -> Vals]
        /\ Columns \in SUBSET Columns
  BY <1>1, ExecutorAssumption DEF DeedOf
<1>3. i \notin Fresh(rows) =>
        /\ DeedOf(rows, i).cols = [x \in {"a"} |-> rows[i].a]
        /\ DeedOf(rows, i).cols \in [{"a"} -> Vals]
        /\ {"a"} \in SUBSET Columns
  BY <1>1, ExecutorAssumption DEF DeedOf
<1>4. DeedOf(rows, i).cols \in UNION {[S -> Vals] : S \in SUBSET Columns}
  BY <1>2, <1>3
<1>5. DeedOf(rows, i) = [id |-> RowId(rows, i), cols |-> DeedOf(rows, i).cols]
  BY DEF DeedOf
<1> QED BY <1>2, <1>3, <1>4, <1>5, RowIdFacts DEF Deed

\* What was written to the row of an id is one deed.
LEMMA OneDeed ==
    ASSUME RowsOK, NEW rows, Batch(rows), NEW policy, NEW i \in Hit(rows, policy)
    PROVE  {w \in Wrote(rows, policy) : w.id = RowId(rows, i)} = {DeedOf(rows, i)}
<1>1. \A j \in Hit(rows, policy) : DeedOf(rows, j).id = RowId(rows, i) => j = i
  <2> TAKE j \in Hit(rows, policy)
  <2>1. i \in DOMAIN rows /\ j \in DOMAIN rows /\ DeedOf(rows, j).id = RowId(rows, j)
    BY HitIs, DeedFacts
  <2> QED BY <2>1, RowIdsDiffer
<1>2. DeedOf(rows, i).id = RowId(rows, i)
  BY HitIs, DeedFacts
<1> QED BY <1>1, <1>2, WroteIs

LEMMA WroteFacts ==
    ASSUME RowsOK, NEW rows, Batch(rows), NEW policy
    PROVE  /\ Wrote(rows, policy) \subseteq Deed
           /\ {w.id : w \in Wrote(rows, policy)} = {RowId(rows, i) : i \in Hit(rows, policy)}
<1>1. \A i \in Hit(rows, policy) : DeedOf(rows, i) \in Deed /\ DeedOf(rows, i).id = RowId(rows, i)
  BY HitIs, DeedFacts
<1> QED BY <1>1, WroteIs

LEMMA OverNew ==
    ASSUME NEW cols, NEW new, NEW x \in DOMAIN new
    PROVE  Over(cols, new)[x] = new[x]
BY DEF Over

LEMMA OverType ==
    ASSUME NEW cols \in [Columns -> Vals], NEW S \in SUBSET Columns, NEW new \in [S -> Vals]
    PROVE  Over(cols, new) \in [Columns -> Vals]
<1>1. DOMAIN cols \cup DOMAIN new = Columns
  OBVIOUS
<1>2. \A x \in Columns : (IF x \in DOMAIN new THEN new[x] ELSE cols[x]) \in Vals
  OBVIOUS
<1> QED BY <1>1, <1>2 DEF Over

\* Inserted, one row at a time.
LEMMA InsertedAt ==
    ASSUME RowsOK, NEW rows, Batch(rows), NEW policy, NEW i \in Hit(rows, policy)
    PROVE  LET now == Inserted(rows, policy)[RowId(rows, i)]
               old == db[RowId(rows, i)] IN
           /\ RowId(rows, i) \in DOMAIN Inserted(rows, policy)
           /\ now \in [key : Keys, cols : [Columns -> Vals]]
           /\ i \in Fresh(rows) => now.key = rows[i].key /\ now.cols = DeedOf(rows, i).cols
           /\ i \notin Fresh(rows) =>
                 now.key = old.key /\ now.cols = Over(old.cols, DeedOf(rows, i).cols)
<1> DEFINE wrote == Wrote(rows, policy)
           ids   == {w.id : w \in wrote}
           now   == Inserted(rows, policy)[RowId(rows, i)]
           old   == db[RowId(rows, i)]
           did   == DeedOf(rows, i)
           new   == {w \in wrote : w.id = RowId(rows, i)}
<1>1. new = {DeedOf(rows, i)}
  BY OneDeed
<1>2. new # {} /\ (CHOOSE w \in new : TRUE) = DeedOf(rows, i)
  BY <1>1
<1>3. RowId(rows, i) \in ids /\ i \in DOMAIN rows
  BY WroteFacts, HitIs
<1>4. i \in Fresh(rows) <=> RowId(rows, i) \notin DOMAIN db
  BY <1>3, RowIdFacts
<1>5. KeyAt(rows, RowId(rows, i)) = rows[i].key
  <2>1. \A j \in DOMAIN rows : RowId(rows, j) = RowId(rows, i) => j = i
    BY <1>3, RowIdsDiffer
  <2>2. (CHOOSE j \in DOMAIN rows : RowId(rows, j) = RowId(rows, i)) = i
    BY <1>3, <2>1
  <2> QED BY <2>2 DEF KeyAt
<1>6. now = IF RowId(rows, i) \in DOMAIN db
            THEN [old EXCEPT !.cols = Over(@, (CHOOSE w \in new : TRUE).cols)]
            ELSE [key |-> KeyAt(rows, RowId(rows, i)), cols |-> (CHOOSE w \in new : TRUE).cols]
  BY <1>2, <1>3 DEF Inserted
<1>7. RowId(rows, i) \in DOMAIN Inserted(rows, policy)
  BY <1>3 DEF Inserted
<1>8. ASSUME i \in Fresh(rows)
      PROVE  /\ now \in [key : Keys, cols : [Columns -> Vals]]
             /\ now.key = rows[i].key /\ now.cols = did.cols
  <2>1. now = [key |-> rows[i].key, cols |-> did.cols]
    BY <1>2, <1>4, <1>5, <1>6, <1>8
  <2>2. did.cols \in [Columns -> Vals] /\ rows[i].key \in Keys
    BY <1>3, <1>8, DeedFacts DEF Batch
  <2> QED BY <2>1, <2>2
<1>9. ASSUME i \notin Fresh(rows)
      PROVE  /\ now \in [key : Keys, cols : [Columns -> Vals]]
             /\ now.key = old.key /\ now.cols = Over(old.cols, did.cols)
  <2>1. now = [old EXCEPT !.cols = Over(@, did.cols)]
    BY <1>2, <1>4, <1>6, <1>9
  <2>2. old \in [key : Keys, cols : [Columns -> Vals]]
    BY <1>4, <1>9 DEF RowsOK
  <2>3. did.cols \in [{"a"} -> Vals] /\ {"a"} \in SUBSET Columns
    BY <1>3, <1>9, DeedFacts, ExecutorAssumption DEF Batch
  <2>4. Over(old.cols, did.cols) \in [Columns -> Vals]
    BY <2>2, <2>3, OverType
  <2> QED BY <2>1, <2>2, <2>4
<1> QED BY <1>7, <1>8, <1>9

LEMMA InsertedElse ==
    ASSUME RowsOK, NEW rows, Batch(rows), NEW policy, NEW id \in DOMAIN db,
           \A i \in Hit(rows, policy) : id # RowId(rows, i)
    PROVE  Inserted(rows, policy)[id] = db[id]
<1>1. {w \in Wrote(rows, policy) : w.id = id} = {}
  BY WroteFacts
<1> QED BY <1>1 DEF Inserted

LEMMA InsertedHolds ==
    ASSUME RowsOK, NEW rows, Batch(rows), NEW policy
    PROVE  /\ \A id \in DOMAIN db : id \in DOMAIN Inserted(rows, policy)
           /\ \A i \in Hit(rows, policy) : RowId(rows, i) \in DOMAIN Inserted(rows, policy)
           /\ \A id \in DOMAIN Inserted(rows, policy) :
                 id \in DOMAIN db \/ \E i \in Hit(rows, policy) : id = RowId(rows, i)
           /\ Inserted(rows, policy) =
                 [id \in DOMAIN Inserted(rows, policy) |-> Inserted(rows, policy)[id]]
<1>1. DOMAIN Inserted(rows, policy) = DOMAIN db \cup {RowId(rows, i) : i \in Hit(rows, policy)}
  BY WroteFacts DEF Inserted
<1>2. Inserted(rows, policy) = [id \in DOMAIN Inserted(rows, policy) |-> Inserted(rows, policy)[id]]
  BY DEF Inserted
<1> QED BY <1>1, <1>2

\* One row after an INSERT: as it was, new, or with new columns.
LEMMA InsertedRow ==
    ASSUME RowsOK, NEW rows, Batch(rows), NEW policy,
           NEW id \in DOMAIN Inserted(rows, policy)
    PROVE  /\ id \in Nat \ {0}
           /\ Inserted(rows, policy)[id] \in [key : Keys, cols : [Columns -> Vals]]
           /\ id \in DOMAIN db => Inserted(rows, policy)[id].key = db[id].key
           /\ id \notin DOMAIN db =>
                 \E i \in Fresh(rows) : /\ id = RowId(rows, i)
                                        /\ Inserted(rows, policy)[id].key = rows[i].key
<1>1. CASE id \in DOMAIN db /\ \A i \in Hit(rows, policy) : id # RowId(rows, i)
  <2>1. Inserted(rows, policy)[id] = db[id]
    BY <1>1, InsertedElse
  <2> QED BY <1>1, <2>1 DEF RowsOK
<1>2. ASSUME NEW i \in Hit(rows, policy), id = RowId(rows, i) PROVE
           /\ id \in Nat \ {0}
           /\ Inserted(rows, policy)[id] \in [key : Keys, cols : [Columns -> Vals]]
           /\ id \in DOMAIN db => Inserted(rows, policy)[id].key = db[id].key
           /\ id \notin DOMAIN db =>
                 i \in Fresh(rows) /\ Inserted(rows, policy)[id].key = rows[i].key
  <2>1. i \in DOMAIN rows /\ rows[i].key \in Keys
    BY HitIs DEF Batch
  <2>2. id \in Nat \ {0} /\ (i \in Fresh(rows) <=> id \notin DOMAIN db)
    BY <1>2, <2>1, RowIdFacts
  <2> QED BY <1>2, <2>2, InsertedAt
<1>3. id \in DOMAIN db \/ \E i \in Hit(rows, policy) : id = RowId(rows, i)
  BY InsertedHolds
<1> QED BY <1>1, <1>2, <1>3

LEMMA InsertKeepsRows ==
    ASSUME RowsOK, NEW rows, Batch(rows), NEW policy,
           db' = Inserted(rows, policy), next' = NextId(rows), way' = way
    PROVE  RowsOK'
<1>1. \A id \in DOMAIN db' : /\ id \in Nat \ {0}
                             /\ db'[id] \in [key : Keys, cols : [Columns -> Vals]]
  BY InsertedRow
<1>2. db' \in [DOMAIN db' -> [key : Keys, cols : [Columns -> Vals]]]
  <2>1. db' = [id \in DOMAIN db' |-> db'[id]]
    BY InsertedHolds
  <2> QED BY <1>1, <2>1
<1>3. next' \in Nat \ {0} /\ next' > next
  <2>1. next \in Nat \ {0} /\ Len(rows) \in {1, 2}
    BY DEF RowsOK, Batch
  <2> QED BY <2>1 DEF NextId
<1>4. ASSUME NEW id \in DOMAIN db' PROVE IF way'.natural THEN db'[id].key = id ELSE id < next'
  <2>1. CASE id \in DOMAIN db
    <3>1. db'[id].key = db[id].key
      BY <2>1, InsertedRow
    <3>2. id \in Nat /\ next \in Nat
      BY <2>1 DEF RowsOK
    <3>3. IF way.natural THEN db[id].key = id ELSE id < next
      BY <2>1 DEF RowsOK
    <3> QED BY <1>3, <3>1, <3>2, <3>3
  <2>2. CASE id \notin DOMAIN db
    <3>1. PICK i \in Fresh(rows) : id = RowId(rows, i) /\ db'[id].key = rows[i].key
      BY <2>2, InsertedRow
    <3>2. id = IF way.natural THEN rows[i].key ELSE next + i - 1
      BY <3>1, FreshHasNewId
    <3>3. i \in Nat /\ i <= Len(rows) /\ Len(rows) \in Nat /\ next \in Nat
      BY HitIs DEF Batch, Fresh, RowsOK
    <3>4. next + i - 1 < next'
      BY <3>3 DEF NextId
    <3> QED BY <3>1, <3>2, <3>4
  <2> QED BY <2>1, <2>2
<1>5. ASSUME NEW i \in DOMAIN db', NEW j \in DOMAIN db', db'[i].key = db'[j].key PROVE i = j
  <2>1. CASE i \in DOMAIN db /\ j \in DOMAIN db
    BY <1>5, <2>1, InsertedRow DEF RowsOK
  <2>2. ASSUME NEW g \in DOMAIN db, NEW h \in DOMAIN db' \ DOMAIN db PROVE db'[g].key # db'[h].key
    <3>1. g \in DOMAIN db' /\ db'[g].key = db[g].key
      BY InsertedHolds, InsertedRow
    <3>2. PICK k \in Fresh(rows) : db'[h].key = rows[k].key
      BY InsertedRow
    <3> QED BY <3>1, <3>2 DEF Fresh
  <2>3. CASE i \notin DOMAIN db /\ j \notin DOMAIN db
    <3>1. PICK g \in Fresh(rows) : i = RowId(rows, g) /\ db'[i].key = rows[g].key
      BY <2>3, InsertedRow
    <3>2. PICK h \in Fresh(rows) : j = RowId(rows, h) /\ db'[j].key = rows[h].key
      BY <2>3, InsertedRow
    <3>3. g = h
      BY <1>5, <3>1, <3>2 DEF Batch, Fresh
    <3> QED BY <3>1, <3>2, <3>3
  <2> QED BY <1>5, <2>1, <2>2, <2>3
<1> QED BY <1>1, <1>2, <1>3, <1>4, <1>5 DEF RowsOK

\* After the statement the rows hold what it wrote.
LEMMA InsertedStands ==
    ASSUME RowsOK, NEW rows, Batch(rows), NEW policy
    PROVE  \A d \in Wrote(rows, policy) : Stands(d, Inserted(rows, policy))
<1> SUFFICES ASSUME NEW i \in Hit(rows, policy)
             PROVE  Stands(DeedOf(rows, i), Inserted(rows, policy))
  BY WroteIs
<1>1. i \in DOMAIN rows /\ DeedOf(rows, i).id = RowId(rows, i)
  BY HitIs, DeedFacts
<1>2. RowId(rows, i) \in DOMAIN Inserted(rows, policy)
  BY InsertedHolds
<1>3. CASE i \in Fresh(rows)
  <2>1. Inserted(rows, policy)[RowId(rows, i)].cols = DeedOf(rows, i).cols
    BY <1>3, InsertedAt
  <2> QED BY <1>1, <1>2, <2>1 DEF Stands
<1>4. CASE i \notin Fresh(rows)
  <2>1. Inserted(rows, policy)[RowId(rows, i)].cols =
          Over(db[RowId(rows, i)].cols, DeedOf(rows, i).cols)
    BY <1>4, InsertedAt
  <2>2. \A x \in DOMAIN DeedOf(rows, i).cols :
           Inserted(rows, policy)[RowId(rows, i)].cols[x] = DeedOf(rows, i).cols[x]
    <3>1. \A x \in DOMAIN DeedOf(rows, i).cols :
             Over(db[RowId(rows, i)].cols, DeedOf(rows, i).cols)[x] = DeedOf(rows, i).cols[x]
      BY OverNew
    <3> QED BY <2>1, <3>1
  <2> QED BY <1>1, <1>2, <2>2 DEF Stands
<1> QED BY <1>3, <1>4

\* A statement that changes no row leaves the table as it was.
LEMMA NothingChanges ==
    ASSUME RowsOK, NEW rows, Batch(rows), NEW policy, Changed(rows, policy) = {}
    PROVE  Inserted(rows, policy) = db /\ Fresh(rows) = {}
<1>1. Fresh(rows) = {}
  BY HitIs DEF Changed
<1>2. ASSUME NEW i \in Hit(rows, policy)
      PROVE  RowId(rows, i) \in DOMAIN db /\ Inserted(rows, policy)[RowId(rows, i)] = db[RowId(rows, i)]
  <2> DEFINE old == db[RowId(rows, i)]
  <2>1. i \in DOMAIN rows
    BY HitIs
  <2>2. RowId(rows, i) \in DOMAIN db
    BY <1>1, <2>1, RowIdFacts
  <2>3. old \in [key : Keys, cols : [Columns -> Vals]]
    BY <2>2 DEF RowsOK
  <2>4. DeedOf(rows, i).cols = [x \in {"a"} |-> rows[i].a]
    BY <1>1, <2>1, DeedFacts
  <2>5. old.cols["a"] = rows[i].a
    BY <1>1 DEF Changed
  <2>6. Over(old.cols, DeedOf(rows, i).cols) = old.cols
    BY <2>3, <2>4, <2>5, ExecutorAssumption DEF Over
  <2> DEFINE now == Inserted(rows, policy)[RowId(rows, i)]
  <2>7. /\ now.key = old.key /\ now.cols = old.cols
        /\ now \in [key : Keys, cols : [Columns -> Vals]]
    BY <1>1, <2>6, InsertedAt
  <2> HIDE DEF old, now
  <2>8. now = old
    BY <2>3, <2>7
  <2> QED BY <2>2, <2>8 DEF old, now
<1>3. DOMAIN Inserted(rows, policy) = DOMAIN db
  <2>1. DOMAIN Inserted(rows, policy) \subseteq DOMAIN db
    BY <1>2, InsertedHolds
  <2> QED BY <2>1, InsertedHolds
<1>4. \A id \in DOMAIN db : Inserted(rows, policy)[id] = db[id]
  BY <1>2, InsertedElse
<1>5. Inserted(rows, policy) = [id \in DOMAIN Inserted(rows, policy) |-> Inserted(rows, policy)[id]]
  BY InsertedHolds
<1>6. db = [id \in DOMAIN db |-> db[id]]
  BY DEF RowsOK
<1> QED BY <1>1, <1>3, <1>4, <1>5, <1>6

(***************************************************************************)
(* What the server reports, and the id taken from it.                      *)
(***************************************************************************)
LEMMA LastIsOne ==
    ASSUME NEW rows, Batch(rows), NEW S \in SUBSET DOMAIN rows, S # {}
    PROVE  Last(S) \in S /\ First(S) \in S
<1>1. S \subseteq {1, 2}
  <2>1. \A i \in 1 .. 2 : i \in {1, 2}
    OBVIOUS
  <2> QED BY <2>1 DEF Batch
<1>2. \E i \in S : \A j \in S : j <= i
  BY <1>1
<1>3. \E i \in S : \A j \in S : i <= j
  BY <1>1
<1> QED BY <1>2, <1>3 DEF Last, First

LEMMA ChangedIs ==
    ASSUME NEW rows, NEW policy
    PROVE  Fresh(rows) \subseteq Changed(rows, policy) /\ Changed(rows, policy) \subseteq Hit(rows, policy)
BY HitIs DEF Changed

LEMMA ZeroMeansNothing ==
    ASSUME NEW rows, Batch(rows), NEW policy, NEW n \in Counts(rows, policy), Unaffected(n)
    PROVE  Changed(rows, policy) = {}
<1> DEFINE f == Cardinality(Fresh(rows))
           k == Cardinality(Changed(rows, policy))
           h == Cardinality(Hit(rows, policy))
<1>1. IsFiniteSet(DOMAIN rows) /\ Len(rows) \in {1, 2}
  <2>1. Len(rows) \in {1, 2} /\ DOMAIN rows = 1 .. Len(rows)
    BY DEF Batch
  <2>2. 1 \in Int /\ Len(rows) \in Int
    BY <2>1
  <2> QED BY <2>1, <2>2, FS_Interval
<1>2. IsFiniteSet(Hit(rows, policy)) /\ IsFiniteSet(Changed(rows, policy))
  BY <1>1, HitIs, ChangedIs, FS_Subset
<1>3. f <= k
  BY <1>2, ChangedIs, FS_Subset
<1>4. f \in Nat /\ k \in Nat
  BY <1>2, ChangedIs, FS_Subset, FS_CardinalityType
<1>5. CASE way.db = "mysql"
  <2>1. 0 \in {2 * k - f, 2 * k - f + Len(rows) - k}
    BY <1>5 DEF Counts, Unaffected
  <2> HIDE DEF f, k
  <2>2. k = 0
    BY <1>1, <1>3, <1>4, <2>1
  <2> QED BY <1>2, <2>2, FS_EmptySet DEF k
<1>6. CASE way.db # "mysql"
  <2>1. h = 0
    BY <1>6 DEF Counts, Unaffected
  <2>2. Hit(rows, policy) = {}
    BY <1>2, <2>1, FS_EmptySet
  <2> QED BY <2>2, ChangedIs
<1> QED BY <1>5, <1>6

LEMMA SomeCounted ==
    ASSUME NEW rows, NEW policy, NEW n \in Counts(rows, policy), ~Unaffected(n), way.db # "mysql"
    PROVE  Hit(rows, policy) # {}
BY FS_EmptySet DEF Counts, Unaffected

\* No id is taken only if nothing was written.
LEMMA NoIdMeansNothing ==
    ASSUME RowsOK, NEW rows, Batch(rows), NEW policy, NEW n \in Counts(rows, policy),
           ExecId(rows, policy, n) = {}
    PROVE  Inserted(rows, policy) = db
<1>1. CASE Unaffected(n)
  BY <1>1, ZeroMeansNothing, NothingChanges
<1>2. CASE ~Unaffected(n)
  <2>1. ~way.natural /\ way.db = "mysql" /\ LastInsertId(rows, policy) = 0
    BY <1>2 DEF ExecId
  <2>2. \A i \in DOMAIN rows : RowId(rows, i) # 0
    BY RowIdFacts
  <2>3. Changed(rows, policy) \subseteq DOMAIN rows /\ Fresh(rows) \subseteq DOMAIN rows
    BY ChangedIs, HitIs
  <2>4. Changed(rows, policy) = {}
    BY <2>1, <2>2, <2>3, LastIsOne DEF LastInsertId
  <2> QED BY <2>4, NothingChanges
<1> QED BY <1>1, <1>2

LEMMA LastIdIsNat ==
    ASSUME RowsOK, rowid \in Nat, NEW rows, Batch(rows), NEW policy
    PROVE  LastInsertId(rows, policy) \in Nat
<1>1. \A i \in DOMAIN rows : RowId(rows, i) \in Nat /\ i \in Nat \ {0}
  <2>1. \A i \in DOMAIN rows : i \in Nat \ {0}
    BY DEF Batch
  <2>2. \A i \in DOMAIN rows : RowId(rows, i) \in Nat
    BY RowIdFacts
  <2> QED BY <2>1, <2>2
<1>2. Changed(rows, policy) \subseteq DOMAIN rows /\ Fresh(rows) \subseteq DOMAIN rows
  BY ChangedIs, HitIs
<1>3. Fresh(rows) # {} => Last(Fresh(rows)) \in DOMAIN rows /\ First(Fresh(rows)) \in DOMAIN rows
  BY <1>2, LastIsOne
<1>4. Changed(rows, policy) # {} => Last(Changed(rows, policy)) \in DOMAIN rows
  BY <1>2, LastIsOne
<1>5. next \in Nat
  BY DEF RowsOK
<1>6. Fresh(rows) # {} => next + Last(Fresh(rows)) - 1 \in Nat
  BY <1>1, <1>3, <1>5
<1> QED BY <1>1, <1>3, <1>4, <1>6 DEF LastInsertId

LEMMA IdIsNat ==
    ASSUME RowsOK, rowid \in Nat, NEW rows, Batch(rows), NEW policy, NEW n
    PROVE  ExecId(rows, policy, n) \subseteq Nat
<1>1. rows[Len(rows)].key \in Nat
  <2>1. Len(rows) \in DOMAIN rows
    BY DEF Batch
  <2> QED BY <2>1, KeysAreNat DEF Batch
<1> QED BY <1>1, LastIdIsNat DEF ExecId

\* Where it can tell, the id taken is one of a row the statement wrote.
LEMMA IdIsOwn ==
    ASSUME RowsOK, NEW rows, Batch(rows), NEW policy \in Policies,
           policy = "fail" => Fresh(rows) = DOMAIN rows,
           way \in Ways, ~Returning,
           ~(policy = "update" /\ way.db = "sqlite" /\ ~way.natural),
           ~(policy = "nothing" /\ way.natural /\ (way.db = "mysql" \/ Len(rows) > 1)),
           NEW n \in Counts(rows, policy), NEW id \in ExecId(rows, policy, n)
    PROVE  \E i \in Hit(rows, policy) : id = RowId(rows, i)
<1> USE DEF Policies
<1>0. ~Unaffected(n)
  BY DEF ExecId
<1>1. way.db \in {"mysql", "sqlite"} /\ way.natural \in BOOLEAN
  BY ExecutorAssumption DEF Returning
<1>2. Len(rows) \in DOMAIN rows
  BY DEF Batch
<1>3. Fresh(rows) \subseteq DOMAIN rows /\ Changed(rows, policy) \subseteq DOMAIN rows
  BY ChangedIs, HitIs
<1>4. CASE way.natural
  <2>1. id = rows[Len(rows)].key
    BY <1>0, <1>4 DEF ExecId
  <2>2. id = RowId(rows, Len(rows))
    BY <1>2, <1>4, <2>1, RowIdFacts
  <2>3. Len(rows) \in Hit(rows, policy)
    <3>1. CASE policy \in {"fail", "update"}
      BY <1>2, <3>1, HitIs
    <3>2. CASE policy = "nothing"
      <4>1. Hit(rows, policy) # {}
        BY <1>0, <1>1, <1>4, <3>2, SomeCounted
      <4>2. Len(rows) = 1 /\ DOMAIN rows = {1}
        BY <1>4, <3>2 DEF Batch
      <4> QED BY <4>1, <4>2, HitIs
    <3> QED BY <3>1, <3>2
  <2> QED BY <2>2, <2>3
<1>5. CASE ~way.natural /\ way.db = "mysql"
  <2>1. id = LastInsertId(rows, policy) /\ id # 0
    BY <1>0, <1>5 DEF ExecId
  <2>2. Changed(rows, policy) # {}
    BY <1>5, <2>1 DEF LastInsertId
  <2>3. Last(Changed(rows, policy)) \in Hit(rows, policy)
    BY <1>3, <2>2, ChangedIs, LastIsOne
  <2>4. Fresh(rows) # {} => First(Fresh(rows)) \in Hit(rows, policy)
    BY <1>3, ChangedIs, LastIsOne
  <2> QED BY <1>5, <2>1, <2>2, <2>3, <2>4 DEF LastInsertId
<1>6. CASE ~way.natural /\ way.db = "sqlite"
  <2>1. id = LastInsertId(rows, policy)
    BY <1>0, <1>6 DEF ExecId
  <2>2. Hit(rows, policy) = Fresh(rows) /\ Fresh(rows) # {}
    BY <1>0, <1>6, SomeCounted, HitIs
  <2>3. Last(Fresh(rows)) \in Fresh(rows)
    BY <1>3, <2>2, LastIsOne
  <2>4. RowId(rows, Last(Fresh(rows))) = next + Last(Fresh(rows)) - 1
    BY <1>6, <2>3, FreshHasNewId
  <2> QED BY <1>6, <2>1, <2>2, <2>3, <2>4 DEF LastInsertId
<1> QED BY <1>1, <1>4, <1>5, <1>6

LEMMA LastAt ==
    ASSUME NEW rows, Batch(rows), NEW S \in SUBSET DOMAIN rows, Len(rows) \in S
    PROVE  Last(S) = Len(rows)
<1>1. DOMAIN rows = 1 .. Len(rows) /\ Len(rows) \in {1, 2}
  BY DEF Batch
<1>2. \A i \in S : i \in Nat /\ i <= Len(rows)
  BY <1>1
<1>3. \A i \in S : (\A j \in S : j <= i) => i = Len(rows)
  BY <1>1, <1>2
<1>4. Last(S) \in S /\ \A j \in S : j <= Last(S)
  BY <1>2 DEF Last
<1> QED BY <1>3, <1>4

\* It is that of the last of them, unless several ids come from MySQL.
LEMMA IdIsLast ==
    ASSUME RowsOK, NEW rows, Batch(rows), NEW policy \in Policies,
           policy = "fail" => Fresh(rows) = DOMAIN rows,
           way \in Ways, ~Returning,
           ~(policy = "update" /\ way.db = "sqlite" /\ ~way.natural),
           ~(policy = "nothing" /\ way.natural /\ (way.db = "mysql" \/ Len(rows) > 1)),
           ~(way.db = "mysql" /\ ~way.natural /\ Len(rows) > 1),
           NEW n \in Counts(rows, policy), NEW id \in ExecId(rows, policy, n)
    PROVE  Hit(rows, policy) # {} /\ id = RowId(rows, Last(Hit(rows, policy)))
<1> USE DEF Policies
<1>0. ~Unaffected(n)
  BY DEF ExecId
<1>1. way.db \in {"mysql", "sqlite"} /\ way.natural \in BOOLEAN
  BY ExecutorAssumption DEF Returning
<1>2. Hit(rows, policy) \subseteq DOMAIN rows /\ Len(rows) \in {1, 2} /\ DOMAIN rows = 1 .. Len(rows)
  BY HitIs DEF Batch
<1>3. PICK i \in Hit(rows, policy) : id = RowId(rows, i)
  BY IdIsOwn
<1>4. CASE Len(rows) = 1
  <2>1. DOMAIN rows = {1}
    BY <1>4 DEF Batch
  <2>2. i = 1 /\ Len(rows) \in Hit(rows, policy)
    BY <1>2, <1>3, <1>4, <2>1
  <2> QED BY <1>2, <1>3, <1>4, <2>2, LastAt
<1>5. CASE Len(rows) = 2 /\ way.natural
  <2>1. id = rows[Len(rows)].key
    BY <1>0, <1>5 DEF ExecId
  <2>2. id = RowId(rows, Len(rows))
    BY <1>2, <1>5, <2>1, RowIdFacts
  <2>3. policy \in {"fail", "update"}
    BY <1>5
  <2>4. Len(rows) \in Hit(rows, policy)
    BY <1>2, <2>3, HitIs
  <2> QED BY <1>2, <2>2, <2>4, LastAt
<1>6. CASE Len(rows) = 2 /\ ~way.natural
  <2>1. way.db = "sqlite"
    BY <1>1, <1>6
  <2>2. id = LastInsertId(rows, policy)
    BY <1>0, <1>6, <2>1 DEF ExecId
  <2>3. Hit(rows, policy) = Fresh(rows) /\ Fresh(rows) # {}
    BY <1>0, <1>6, <2>1, SomeCounted, HitIs
  <2>4. Last(Fresh(rows)) \in Fresh(rows)
    BY <1>2, <2>3, LastIsOne
  <2>5. RowId(rows, Last(Fresh(rows))) = next + Last(Fresh(rows)) - 1
    BY <1>6, <2>4, FreshHasNewId
  <2> QED BY <2>1, <2>2, <2>3, <2>5 DEF LastInsertId
<1> QED BY <1>1, <1>2, <1>4, <1>5, <1>6

(***************************************************************************)
(* One call, and what is always true of it.                                *)
(***************************************************************************)
OwnCall(r) ==
    r.at = "done" /\ r.answer = "ok" /\ Tells(r) =>
        /\ r.want = "model" => {m.id : m \in r.models} = {d.id : d \in r.did}
        /\ \A m \in r.models, d \in r.did :
              m.id = d.id /\ d.id \notin r.stirred =>
                 \A x \in DOMAIN d.cols : m.cols[x] = d.cols[x]
        /\ r.want = "id" => /\ \E d \in r.did : d.id = r.id
                            /\ TellsLast(r) => r.id = r.last

Refusals == {"error", "not inserted", "not updated", "not supported"}

RefusedCall(r) == r.answer \in Refusals => ~r.moved

TakenCall(r) == r.answer = "not found" /\ Tells(r) => \E d \in r.did : d.id \in r.stirred

ReadCall(r, rows) ==
    r.at = "read" =>
        /\ r.want = "model" /\ r.answer = "none"
        /\ Tells(r) => /\ \E d \in r.did : r.did = {d} /\ d.id = r.id
                       /\ \A d \in r.did : d.id \notin r.stirred => Stands(d, rows)

CallOK(r, rows) == r \in Call /\ OwnCall(r) /\ RefusedCall(r) /\ TakenCall(r) /\ ReadCall(r, rows)

Same(s, r) ==
    /\ s.want = r.want /\ s.policy = r.policy /\ s.len = r.len
    /\ s.did = r.did /\ s.last = r.last /\ s.moved = r.moved /\ s.stirred = r.stirred

LEMMA TellsSame ==
    ASSUME NEW s, NEW r, Same(s, r)
    PROVE  Tells(s) = Tells(r) /\ TellsLast(s) = TellsLast(r)
BY DEF Same, Tells, TellsLast

LEMMA NoCallOK == \A rows : CallOK(NoCall, rows)
BY DEF CallOK, NoCall, Call, Failures, OwnCall, RefusedCall, Refusals, TakenCall, ReadCall

LEMMA AnswerIs ==
    ASSUME NEW r \in Call, NEW a \in Failures \cup {"ok"}
    PROVE  /\ Answer(r, a) \in Call /\ Same(Answer(r, a), r)
           /\ Answer(r, a).at = "done" /\ Answer(r, a).answer = a
           /\ Answer(r, a).models = r.models
BY DEF Answer, Call, Same

LEMMA GiveIdIs ==
    ASSUME NEW r \in Call, NEW id \in Nat
    PROVE  /\ GiveId(r, id) \in Call /\ Same(GiveId(r, id), r)
           /\ GiveId(r, id).at = "done" /\ GiveId(r, id).answer = "ok"
           /\ GiveId(r, id).id = id /\ GiveId(r, id).models = r.models
BY DEF GiveId, Call, Same

LEMMA GiveIs ==
    ASSUME NEW r \in Call, NEW models \in SUBSET Model
    PROVE  /\ Give(r, models) \in Call /\ Same(Give(r, models), r)
           /\ Give(r, models).at = "done" /\ Give(r, models).answer = "ok"
           /\ Give(r, models).models = models
BY DEF Give, Call, Same

LEMMA GoReadIs ==
    ASSUME NEW r \in Call, NEW id \in Nat
    PROVE  /\ GoRead(r, id) \in Call /\ Same(GoRead(r, id), r)
           /\ GoRead(r, id).at = "read" /\ GoRead(r, id).answer = r.answer
           /\ GoRead(r, id).id = id /\ GoRead(r, id).models = r.models
BY DEF GoRead, Call, Same

\* A call that ends with an answer that is not a row.
LEMMA AnswerOK ==
    ASSUME NEW r \in Call, NEW a \in Failures \cup {"ok"}, NEW rows,
           a \in Refusals => ~r.moved,
           a = "not found" => TakenCall(Answer(r, "not found")),
           a = "ok" => r.want = "count" /\ r.models = {}
    PROVE  CallOK(Answer(r, a), rows)
<1> DEFINE s == Answer(r, a)
<1>1. s \in Call /\ Same(s, r) /\ s.at = "done" /\ s.answer = a /\ s.models = r.models
  BY AnswerIs
<1> HIDE DEF s
<1>2. OwnCall(s)
  BY <1>1 DEF OwnCall, Same
<1>3. RefusedCall(s) /\ ReadCall(s, rows)
  BY <1>1 DEF RefusedCall, ReadCall, Same
<1>4. TakenCall(s)
  BY <1>1 DEF TakenCall, s
<1> QED BY <1>1, <1>2, <1>3, <1>4 DEF CallOK, s

LEMMA RefusalOK ==
    ASSUME NEW r \in Call, NEW a \in Refusals, NEW rows, ~r.moved
    PROVE  CallOK(Answer(r, a), rows)
<1>1. a \in Failures /\ a # "not found" /\ a # "ok"
  BY DEF Refusals, Failures
<1> QED BY <1>1, AnswerOK

LEMMA GiveOK ==
    ASSUME NEW r \in Call, NEW models \in SUBSET Model, NEW rows, r.want = "model",
           Tells(r) =>
              /\ {m.id : m \in models} = {d.id : d \in r.did}
              /\ \A m \in models, d \in r.did :
                    m.id = d.id /\ d.id \notin r.stirred =>
                       \A x \in DOMAIN d.cols : m.cols[x] = d.cols[x]
    PROVE  CallOK(Give(r, models), rows)
<1> DEFINE s == Give(r, models)
<1>1. s \in Call /\ Same(s, r) /\ s.at = "done" /\ s.answer = "ok" /\ s.models = models
  BY GiveIs
<1>2. Tells(s) = Tells(r)
  BY <1>1, TellsSame
<1> HIDE DEF s
<1>3. OwnCall(s)
  <2>1. s.models = models /\ s.did = r.did /\ s.stirred = r.stirred /\ s.want = "model"
    BY <1>1 DEF Same
  <2> SUFFICES ASSUME Tells(s)
               PROVE  /\ {m.id : m \in s.models} = {d.id : d \in s.did}
                      /\ \A m \in s.models, d \in s.did :
                            m.id = d.id /\ d.id \notin s.stirred =>
                               \A x \in DOMAIN d.cols : m.cols[x] = d.cols[x]
    BY <2>1 DEF OwnCall
  <2>2. /\ {m.id : m \in models} = {d.id : d \in r.did}
        /\ \A m \in models, d \in r.did :
              m.id = d.id /\ d.id \notin r.stirred =>
                 \A x \in DOMAIN d.cols : m.cols[x] = d.cols[x]
    BY <1>2
  <2>3. {m.id : m \in s.models} = {d.id : d \in s.did}
    BY <2>1, <2>2
  <2>4. ASSUME NEW m \in s.models, NEW d \in s.did, m.id = d.id, d.id \notin s.stirred
        PROVE  \A x \in DOMAIN d.cols : m.cols[x] = d.cols[x]
    BY <2>1, <2>2, <2>4
  <2> QED BY <2>3, <2>4
<1>4. RefusedCall(s) /\ ReadCall(s, rows) /\ TakenCall(s)
  BY <1>1 DEF RefusedCall, Refusals, ReadCall, TakenCall
<1> QED BY <1>1, <1>3, <1>4 DEF CallOK, s

LEMMA GiveIdOK ==
    ASSUME NEW r \in Call, NEW id \in Nat, NEW rows, r.want = "id", r.models = {},
           Tells(r) => (\E d \in r.did : d.id = id) /\ (TellsLast(r) => id = r.last)
    PROVE  CallOK(GiveId(r, id), rows)
<1> DEFINE s == GiveId(r, id)
<1>1. s \in Call /\ Same(s, r) /\ s.at = "done" /\ s.answer = "ok" /\ s.id = id /\ s.models = {}
  BY GiveIdIs
<1>2. Tells(s) = Tells(r) /\ TellsLast(s) = TellsLast(r)
  BY <1>1, TellsSame
<1> HIDE DEF s
<1>3. OwnCall(s)
  BY <1>1, <1>2 DEF OwnCall, Same
<1>4. RefusedCall(s) /\ ReadCall(s, rows) /\ TakenCall(s)
  BY <1>1 DEF RefusedCall, Refusals, ReadCall, TakenCall
<1> QED BY <1>1, <1>3, <1>4 DEF CallOK, s

LEMMA GoReadOK ==
    ASSUME NEW r \in Call, NEW id \in Nat, NEW rows, r.want = "model", r.answer = "none",
           Tells(r) => /\ \E d \in r.did : r.did = {d} /\ d.id = id
                       /\ \A d \in r.did : d.id \notin r.stirred => Stands(d, rows)
    PROVE  CallOK(GoRead(r, id), rows)
<1> DEFINE s == GoRead(r, id)
<1>1. s \in Call /\ Same(s, r) /\ s.at = "read" /\ s.answer = "none" /\ s.id = id
  BY GoReadIs
<1>2. Tells(s) = Tells(r)
  BY <1>1, TellsSame
<1> HIDE DEF s
<1>3. ReadCall(s, rows)
  BY <1>1, <1>2 DEF ReadCall, Same
<1>4. RefusedCall(s) /\ OwnCall(s) /\ TakenCall(s)
  BY <1>1 DEF RefusedCall, Refusals, OwnCall, TakenCall
<1> QED BY <1>1, <1>3, <1>4 DEF CallOK, s

(***************************************************************************)
(* Each step ends with such a call.                                        *)
(***************************************************************************)
LEMMA InsertCallIs ==
    ASSUME RowsOK, NEW rows, Batch(rows), NEW policy \in Policies, NEW want \in {"id", "model"}
    PROVE  LET r == InsertCall(rows, policy, want) IN
           /\ r \in Call
           /\ r.at = "done" /\ r.answer = "none" /\ r.models = {}
           /\ r.want = want /\ r.policy = policy /\ r.len = Len(rows)
           /\ r.did = Wrote(rows, policy) /\ r.stirred = {}
           /\ Hit(rows, policy) # {} => r.last = RowId(rows, Last(Hit(rows, policy)))
           /\ r.moved => Inserted(rows, policy) # db
<1>1. Wrote(rows, policy) \in SUBSET Deed /\ Len(rows) \in Nat
  <2>1. Len(rows) \in {1, 2}
    BY DEF Batch
  <2> QED BY <2>1, WroteFacts
<1>2. (Inserted(rows, policy) # db) \in BOOLEAN
  OBVIOUS
<1> DEFINE moved == Inserted(rows, policy) # db
           did == Wrote(rows, policy)
           last == IF Hit(rows, policy) = {} THEN 0 ELSE RowId(rows, Last(Hit(rows, policy)))
           q == NewCall(want, policy, Len(rows))
<1>4. /\ q \in Call
      /\ q.at = "done" /\ q.answer = "none" /\ q.id = 0 /\ q.models = {}
      /\ q.want = want /\ q.policy = policy /\ q.len = Len(rows) /\ q.stirred = {}
  <2>1. want \in {"id", "model", "count"} /\ Len(rows) \in Nat
    BY <1>1
  <2> QED BY <2>1 DEF NewCall, NoCall, Call, Policies
<1>5. did \in SUBSET Deed /\ moved \in BOOLEAN
  BY <1>1, <1>2
<1>6. last \in Nat
  <2>1. CASE Hit(rows, policy) # {}
    <3>1. Last(Hit(rows, policy)) \in DOMAIN rows
      BY <2>1, HitIs, LastIsOne
    <3> QED BY <2>1, <3>1, RowIdFacts
  <2> QED BY <2>1
<1>7. Hit(rows, policy) # {} => last = RowId(rows, Last(Hit(rows, policy)))
  OBVIOUS
<1>8. InsertCall(rows, policy, want) = [q EXCEPT !.did = did, !.last = last, !.moved = moved]
  BY DEF InsertCall
<1> HIDE DEF moved, did, last, q
<1>3. LET r == [q EXCEPT !.did = did, !.last = last, !.moved = moved] IN
      /\ r \in Call
      /\ r.at = "done" /\ r.answer = "none" /\ r.models = {}
      /\ r.want = want /\ r.policy = policy /\ r.len = Len(rows)
      /\ r.did = did /\ r.last = last /\ r.stirred = {} /\ r.moved = moved
  BY <1>4, <1>5, <1>6 DEF Call
<1> QED BY <1>3, <1>7, <1>8 DEF did, moved

LEMMA ReturnsOK ==
    ASSUME RowsOK, NEW rows, Batch(rows), NEW policy \in Policies, NEW want \in {"id", "model"},
           policy = "fail" => Fresh(rows) = DOMAIN rows, Returning
    PROVE  CallOK(Returns(rows, policy, InsertCall(rows, policy, want)), Inserted(rows, policy))
<1> DEFINE r == InsertCall(rows, policy, want)
           hit == Hit(rows, policy)
           ins == Inserted(rows, policy)
           models == {ModelOf(ins, RowId(rows, i)) : i \in hit}
<1>1. /\ r \in Call /\ r.at = "done" /\ r.answer = "none" /\ r.models = {}
      /\ r.want = want /\ r.policy = policy /\ r.len = Len(rows)
      /\ r.did = Wrote(rows, policy) /\ r.stirred = {}
      /\ Hit(rows, policy) # {} => r.last = RowId(rows, Last(Hit(rows, policy)))
      /\ r.moved => Inserted(rows, policy) # db
  BY InsertCallIs
<1>2. Returns(rows, policy, r) =
        IF want = "id"
        THEN IF hit = {} THEN Answer(r, "not inserted") ELSE GiveId(r, RowId(rows, Last(hit)))
        ELSE IF Len(rows) = 1 /\ hit = {} THEN Answer(r, "not found") ELSE Give(r, models)
  BY <1>1 DEF Returns
<1>3. \A i \in hit : i \in DOMAIN rows /\ RowId(rows, i) \in Nat \ {0}
  BY HitIs, RowIdFacts
<1>4. {d.id : d \in r.did} = {RowId(rows, i) : i \in hit}
  BY <1>1, WroteFacts
<1> HIDE DEF r
<1>5. CASE want = "id" /\ hit = {}
  <2>1. ~r.moved
    BY <1>1, <1>5, ChangedIs, NothingChanges
  <2>2. "not inserted" \in Refusals
    BY DEF Refusals
  <2>3. CallOK(Answer(r, "not inserted"), ins)
    BY <1>1, <2>1, <2>2, RefusalOK
  <2> QED BY <1>2, <1>5, <2>3 DEF r
<1>6. CASE want = "id" /\ hit # {}
  <2>1. Last(hit) \in hit
    BY <1>6, HitIs, LastIsOne
  <2>2. \E d \in r.did : d.id = RowId(rows, Last(hit))
    BY <1>4, <2>1
  <2>3. RowId(rows, Last(hit)) \in Nat
    BY <1>3, <2>1
  <2>4. CallOK(GiveId(r, RowId(rows, Last(hit))), ins)
    BY <1>1, <1>6, <2>2, <2>3, GiveIdOK
  <2> QED BY <1>2, <1>6, <2>4 DEF r
<1>7. CASE want = "model" /\ Len(rows) = 1 /\ hit = {}
  <2>1. DOMAIN rows = {1}
    BY <1>7 DEF Batch
  <2>2. policy = "nothing"
    BY <1>7, <2>1, HitIs DEF Policies
  <2>3. ~Tells(Answer(r, "not found"))
    <3>1. "not found" \in Failures
      BY DEF Failures
    <3>2. Tells(Answer(r, "not found")) = Tells(r)
      <4>1. Same(Answer(r, "not found"), r)
        BY <1>1, <3>1, AnswerIs
      <4> QED BY <4>1, TellsSame
    <3> QED BY <1>1, <1>7, <2>2, <3>2 DEF Tells
  <2>4. TakenCall(Answer(r, "not found"))
    BY <2>3 DEF TakenCall
  <2>5. "not found" \in Failures /\ "not found" \notin Refusals
    BY DEF Failures, Refusals
  <2>6. CallOK(Answer(r, "not found"), ins)
    BY <1>1, <2>4, <2>5, AnswerOK
  <2> QED BY <1>2, <1>7, <2>6 DEF r
<1>8. CASE want = "model" /\ ~(Len(rows) = 1 /\ hit = {})
  <2>1. \A i \in hit : ModelOf(ins, RowId(rows, i)) \in Model
    <3> TAKE i \in hit
    <3>1. RowId(rows, i) \in DOMAIN ins
      BY InsertedHolds
    <3>2. ins[RowId(rows, i)] \in [key : Keys, cols : [Columns -> Vals]]
      BY <3>1, InsertedRow
    <3> QED BY <1>3, <3>2 DEF ModelOf, Model
  <2>2. \A i \in hit : ModelOf(ins, RowId(rows, i)).id = RowId(rows, i)
    BY DEF ModelOf
  <2>3. {m.id : m \in models} = {d.id : d \in r.did}
    BY <1>4, <2>2
  <2>4. ASSUME NEW m \in models, NEW d \in r.did, m.id = d.id, NEW x \in DOMAIN d.cols
        PROVE  m.cols[x] = d.cols[x]
    <3>1. Stands(d, ins)
      BY <1>1, InsertedStands
    <3>2. m.cols = ins[d.id].cols
      BY <2>4 DEF ModelOf
    <3> QED BY <3>1, <3>2 DEF Stands
  <2>5. models \in SUBSET Model
    BY <2>1
  <2> HIDE DEF models
  <2>6. CallOK(Give(r, models), ins)
    BY <1>1, <1>8, <2>3, <2>4, <2>5, GiveOK
  <2> QED BY <1>2, <1>8, <2>6 DEF r
<1> QED BY <1>5, <1>6, <1>7, <1>8

LEMMA ReadsBackOK ==
    ASSUME RowsOK, rowid \in Nat, way \in Ways, NEW rows, Batch(rows),
           NEW policy \in Policies, NEW want \in {"id", "model"},
           policy = "fail" => Fresh(rows) = DOMAIN rows, ~Returning,
           ~(want = "model" /\ Len(rows) > 1), NEW n \in Counts(rows, policy)
    PROVE  CallOK(ReadsBack(rows, policy, InsertCall(rows, policy, want), n), Inserted(rows, policy))
<1> DEFINE r == InsertCall(rows, policy, want)
           ids == ExecId(rows, policy, n)
           id == CHOOSE i \in ids : TRUE
<1>1. /\ r \in Call /\ r.at = "done" /\ r.answer = "none" /\ r.models = {}
      /\ r.want = want /\ r.policy = policy /\ r.len = Len(rows)
      /\ r.did = Wrote(rows, policy) /\ r.stirred = {}
      /\ Hit(rows, policy) # {} => r.last = RowId(rows, Last(Hit(rows, policy)))
      /\ r.moved => Inserted(rows, policy) # db
  BY InsertCallIs
<1>2. ReadsBack(rows, policy, r, n) =
        IF ids = {} THEN Answer(r, "not inserted")
        ELSE IF want = "id" THEN GiveId(r, id) ELSE GoRead(r, id)
  BY <1>1 DEF ReadsBack
<1>3. ids # {} => id \in ids /\ id \in Nat
  BY IdIsNat
<1>4. ASSUME ids # {}, Tells(r) PROVE \E i \in Hit(rows, policy) : id = RowId(rows, i)
  <2>1. /\ ~(policy = "update" /\ way.db = "sqlite" /\ ~way.natural)
        /\ ~(policy = "nothing" /\ way.natural /\ (way.db = "mysql" \/ Len(rows) > 1))
    BY <1>1, <1>4 DEF Tells
  <2> QED BY <1>3, <1>4, <2>1, IdIsOwn
<1>8. ASSUME ids # {}, Tells(r), TellsLast(r) PROVE id = r.last
  <2>1. /\ ~(policy = "update" /\ way.db = "sqlite" /\ ~way.natural)
        /\ ~(policy = "nothing" /\ way.natural /\ (way.db = "mysql" \/ Len(rows) > 1))
        /\ ~(way.db = "mysql" /\ ~way.natural /\ Len(rows) > 1)
    BY <1>1, <1>8 DEF Tells, TellsLast
  <2>2. Hit(rows, policy) # {} /\ id = RowId(rows, Last(Hit(rows, policy)))
    BY <1>3, <1>8, <2>1, IdIsLast
  <2> QED BY <1>1, <2>2
<1> HIDE DEF r, ids, id
<1>5. CASE ids = {}
  <2>1. ~r.moved
    BY <1>1, <1>5, NoIdMeansNothing DEF ids
  <2>2. "not inserted" \in Refusals
    BY DEF Refusals
  <2>3. CallOK(Answer(r, "not inserted"), Inserted(rows, policy))
    BY <1>1, <2>1, <2>2, RefusalOK
  <2> QED BY <1>2, <1>5, <2>3 DEF r
<1>6. CASE ids # {} /\ want = "id"
  <2>1. Tells(r) => \E d \in r.did : d.id = id
    <3> SUFFICES ASSUME Tells(r) PROVE \E d \in r.did : d.id = id
      OBVIOUS
    <3>1. PICK i \in Hit(rows, policy) : id = RowId(rows, i)
      BY <1>4, <1>6
    <3>3. DeedOf(rows, i).id = id
      BY <3>1, HitIs, DeedFacts
    <3>4. r.did = Wrote(rows, policy)
      BY <1>1
    <3>2. DeedOf(rows, i) \in r.did /\ DeedOf(rows, i).id = id
      BY <3>1, <3>3, <3>4, WroteIs
    <3> QED BY <3>2
  <2>3. Tells(r) /\ TellsLast(r) => id = r.last
    BY <1>6, <1>8
  <2>4. r \in Call /\ id \in Nat /\ r.want = "id" /\ r.models = {}
    BY <1>1, <1>3, <1>6
  <2>2. CallOK(GiveId(r, id), Inserted(rows, policy))
    BY <2>1, <2>3, <2>4, GiveIdOK
  <2> QED BY <1>2, <1>6, <2>2 DEF r
<1>7. CASE ids # {} /\ want = "model"
  <2>1. DOMAIN rows = {1}
    BY <1>7 DEF Batch
  <2>2. ASSUME Tells(r) PROVE \E d \in r.did : r.did = {d} /\ d.id = id
    <3>1. PICK i \in Hit(rows, policy) : id = RowId(rows, i)
      BY <1>4, <1>7, <2>2
    <3>2. Hit(rows, policy) = {i} /\ DeedOf(rows, i).id = id
      BY <2>1, <3>1, HitIs, DeedFacts
    <3>3. r.did = {DeedOf(rows, i)}
      BY <1>1, <3>2, WroteIs
    <3> QED BY <3>2, <3>3
  <2>3. \A d \in r.did : Stands(d, Inserted(rows, policy))
    BY <1>1, InsertedStands
  <2>4. CallOK(GoRead(r, id), Inserted(rows, policy))
    BY <1>1, <1>3, <1>7, <2>2, <2>3, GoReadOK
  <2> QED BY <1>2, <1>7, <2>4 DEF r
<1> QED BY <1>5, <1>6, <1>7

(***************************************************************************)
(* The inductive invariant.                                                *)
(***************************************************************************)
Inv == TypeOK /\ NothingSetIsLost /\ \A c \in Clients : CallOK(call[c], db)

\* The other calls that are about to read see what the step changed.
LEMMA ProceedOK ==
    ASSUME Inv, NEW c \in Clients, NEW s, NEW ids \in SUBSET Nat, Proceed(c, s, ids),
           CallOK(s, db'), \A id \in DOMAIN db \ ids : id \in DOMAIN db' /\ db'[id] = db[id]
    PROVE  /\ call' \in [Clients -> Call]
           /\ \A d \in Clients : CallOK(call'[d], db')
<1>1. ASSUME NEW d \in Clients, d # c, call[d].at = "read"
      PROVE  CallOK([call[d] EXCEPT !.stirred = @ \cup ids], db')
  <2> DEFINE r == call[d]
             t == [r EXCEPT !.stirred = @ \cup ids]
  <2>1. r \in Call /\ r.at = "read" /\ ReadCall(r, db)
    BY <1>1 DEF Inv, CallOK
  <2> HIDE DEF r
  <2>2. t \in Call
    BY <2>1 DEF Call
  <2>3. /\ t.at = "read" /\ t.answer = r.answer /\ t.want = r.want /\ t.policy = r.policy
        /\ t.len = r.len /\ t.did = r.did /\ t.id = r.id /\ t.stirred = r.stirred \cup ids
    BY <2>1 DEF Call
  <2> HIDE DEF t
  <2>4. Tells(t) = Tells(r)
    BY <2>3 DEF Tells
  <2>5. \A e \in r.did : e.id \notin ids /\ Stands(e, db) => Stands(e, db')
    BY DEF Stands
  <2>6. ReadCall(t, db')
    BY <2>1, <2>3, <2>4, <2>5 DEF ReadCall
  <2>7. OwnCall(t) /\ RefusedCall(t) /\ TakenCall(t)
    BY <2>1, <2>3 DEF ReadCall, OwnCall, RefusedCall, Refusals, TakenCall
  <2> QED BY <2>2, <2>6, <2>7 DEF CallOK, t, r
<1>2. call' = [d \in Clients |->
                 IF d = c THEN s
                 ELSE IF call[d].at = "read" THEN [call[d] EXCEPT !.stirred = @ \cup ids]
                 ELSE NoCall]
  BY DEF Proceed
<1>3. \A d \in Clients : CallOK(call'[d], db')
  <2> TAKE d \in Clients
  <2>1. CASE d = c
    BY <1>2, <2>1
  <2>2. CASE d # c /\ call[d].at = "read"
    BY <1>1, <1>2, <2>2
  <2>3. CASE d # c /\ call[d].at # "read"
    BY <1>2, <2>3, NoCallOK
  <2> QED BY <2>1, <2>2, <2>3
<1>4. call' = [d \in Clients |-> call'[d]]
  BY <1>2
<1>5. \A d \in Clients : call'[d] \in Call
  BY <1>3 DEF CallOK
<1> QED BY <1>3, <1>4, <1>5

HaveOK == have \in [Clients -> SUBSET Model] /\ \A c \in Clients : Cardinality(have[c]) <= 1

LEMMA KeepsOK ==
    ASSUME HaveOK, NEW c \in Clients, NEW s \in Call, Keeps(c, s)
    PROVE  HaveOK'
<1>1. s.models \in SUBSET Model
  BY DEF Call
<1>2. CASE s.at = "done" /\ Cardinality(s.models) = 1
  <2>1. have' = [have EXCEPT ![c] = s.models]
    BY <1>2 DEF Keeps
  <2> QED BY <1>1, <1>2, <2>1 DEF HaveOK
<1>3. CASE ~(s.at = "done" /\ Cardinality(s.models) = 1)
  <2>1. have' = [have EXCEPT ![c] = @]
    BY <1>3 DEF Keeps
  <2> QED BY <2>1 DEF HaveOK
<1> QED BY <1>2, <1>3

\* What the step must show.
LEMMA InvAfter ==
    ASSUME Inv, way' = way, RowsOK', rowid' \in Nat, HaveOK', calls' \in 0 .. MaxCalls,
           NothingSetIsLost',
           NEW c \in Clients, NEW s, NEW ids \in SUBSET Nat, Proceed(c, s, ids),
           CallOK(s, db'), \A id \in DOMAIN db \ ids : id \in DOMAIN db' /\ db'[id] = db[id]
    PROVE  Inv'
<1>1. call' \in [Clients -> Call] /\ \A d \in Clients : CallOK(call'[d], db')
  BY ProceedOK
<1>2. \A r : (Tells(r))' = Tells(r)
  BY DEF Tells, Returning
<1>6. \A r : (TellsLast(r))' = TellsLast(r)
  BY DEF TellsLast
<1>3. \A r : OwnCall(r)' = OwnCall(r) /\ TakenCall(r)' = TakenCall(r)
  BY <1>2, <1>6 DEF OwnCall, TakenCall
<1>4. \A d \in Clients : (CallOK(call[d], db))'
  <2> TAKE d \in Clients
  <2>1. PICK r : r = call'[d]
    OBVIOUS
  <2>2. PICK rows : rows = db'
    OBVIOUS
  <2>3. ReadCall(r, rows)' = ReadCall(r, rows)
    BY <1>2 DEF ReadCall
  <2>4. CallOK(r, rows)' = CallOK(r, rows)
    BY <1>3, <2>3 DEF CallOK
  <2> QED BY <1>1, <2>1, <2>2, <2>4
<1>5. TypeOK'
  BY <1>1 DEF Inv, TypeOK, HaveOK
<1> QED BY <1>4, <1>5 DEF Inv

(***************************************************************************)
(* INSERT.                                                                 *)
(***************************************************************************)
\* The history follows the statement.
LEMMA InsertKeepsMeant ==
    ASSUME RowsOK, NothingSetIsLost, NEW rows, Batch(rows), NEW policy,
           db' = Inserted(rows, policy),
           meant' = [id \in DOMAIN db' |->
                       LET old == IF id \in DOMAIN meant THEN meant[id] ELSE [x \in Columns |-> 0]
                           new == {w \in Wrote(rows, policy) : w.id = id} IN
                       IF new = {} THEN old ELSE Over(old, (CHOOSE w \in new : TRUE).cols)]
    PROVE  NothingSetIsLost'
<1> DEFINE old(id) == IF id \in DOMAIN meant THEN meant[id] ELSE [x \in Columns |-> 0]
           new(id) == {w \in Wrote(rows, policy) : w.id = id}
<1>1. \A id \in DOMAIN db' :
        meant'[id] = IF new(id) = {} THEN old(id) ELSE Over(old(id), (CHOOSE w \in new(id) : TRUE).cols)
  OBVIOUS
<1>2. DOMAIN meant = DOMAIN db /\ \A id \in DOMAIN db : meant[id] = db[id].cols
  BY DEF NothingSetIsLost
<1>3. ASSUME NEW i \in Hit(rows, policy) PROVE db'[RowId(rows, i)].cols = meant'[RowId(rows, i)]
  <2> DEFINE id == RowId(rows, i)
             did == DeedOf(rows, i)
  <2>1. new(id) = {did}
    BY OneDeed
  <2>2. new(id) # {} /\ (CHOOSE w \in new(id) : TRUE) = did
    BY <2>1
  <2>3. id \in DOMAIN db' /\ i \in DOMAIN rows
    BY InsertedHolds, HitIs
  <2>4. meant'[id] = Over(old(id), did.cols)
    BY <1>1, <2>2, <2>3
  <2>5. i \in Fresh(rows) <=> id \notin DOMAIN db
    BY <2>3, RowIdFacts
  <2>6. CASE i \in Fresh(rows)
    <3>1. db'[id].cols = did.cols /\ did.cols \in [Columns -> Vals]
      BY <2>3, <2>6, InsertedAt, DeedFacts
    <3>2. old(id) = [x \in Columns |-> 0]
      BY <1>2, <2>5, <2>6
    <3> HIDE DEF did, old
    <3>3. Over([x \in Columns |-> 0], did.cols) = did.cols
      BY <3>1 DEF Over
    <3> QED BY <2>4, <3>1, <3>2, <3>3
  <2>7. CASE i \notin Fresh(rows)
    <3>1. db'[id].cols = Over(db[id].cols, did.cols)
      BY <2>7, InsertedAt
    <3>2. old(id) = db[id].cols
      BY <1>2, <2>5, <2>7
    <3> QED BY <2>4, <3>1, <3>2
  <2> QED BY <2>6, <2>7
<1>4. ASSUME NEW id \in DOMAIN db, \A i \in Hit(rows, policy) : id # RowId(rows, i)
      PROVE  db'[id].cols = meant'[id]
  <2>1. new(id) = {}
    BY <1>4, WroteFacts
  <2>2. id \in DOMAIN db' /\ db'[id] = db[id]
    BY <1>4, InsertedHolds, InsertedElse
  <2> QED BY <1>1, <1>2, <2>1, <2>2
<1>5. ASSUME NEW id \in DOMAIN db' PROVE db'[id].cols = meant'[id]
  <2>1. id \in DOMAIN db \/ \E i \in Hit(rows, policy) : id = RowId(rows, i)
    BY InsertedHolds
  <2>2. CASE \A i \in Hit(rows, policy) : id # RowId(rows, i)
    BY <1>4, <2>1, <2>2
  <2>3. ASSUME NEW i \in Hit(rows, policy), id = RowId(rows, i) PROVE db'[id].cols = meant'[id]
    BY <1>3, <2>3
  <2> QED BY <2>2, <2>3
<1>6. DOMAIN meant' = DOMAIN db'
  OBVIOUS
<1> QED BY <1>5, <1>6 DEF NothingSetIsLost

LEMMA InvGives ==
    ASSUME Inv
    PROVE  /\ RowsOK /\ way \in Ways /\ rowid \in Nat /\ HaveOK /\ calls \in 0 .. MaxCalls
           /\ NothingSetIsLost /\ call \in [Clients -> Call]
BY DEF Inv, TypeOK, HaveOK

LEMMA ReadyCounts ==
    ASSUME Inv, NEW c \in Clients, Ready(c)
    PROVE  calls' \in 0 .. MaxCalls /\ way' = way
BY InvGives, ExecutorAssumption DEF Ready

\* A call that is refused before it writes.
LEMMA RefusedBefore ==
    ASSUME Inv, NEW c \in Clients, Ready(c), NEW r \in Call, ~r.moved, NEW a \in Refusals,
           Proceed(c, Answer(r, a), {}), UNCHANGED <<db, next, rowid, meant, have>>
    PROVE  Inv'
<1>1. CallOK(Answer(r, a), db')
  BY RefusalOK
<1>2. calls' \in 0 .. MaxCalls /\ way' = way
  BY ReadyCounts
<1>3. RowsOK' /\ HaveOK' /\ rowid' \in Nat /\ NothingSetIsLost'
  BY <1>2, InvGives DEF RowsOK, HaveOK, NothingSetIsLost
<1>4. \A id \in DOMAIN db \ {} : id \in DOMAIN db' /\ db'[id] = db[id]
  OBVIOUS
<1> QED BY <1>1, <1>2, <1>3, <1>4, InvAfter

LEMMA InsertKeeps ==
    ASSUME Inv, NEW c \in Clients, NEW rows, Batch(rows), NEW policy \in Policies,
           NEW want \in {"id", "model"}, Insert(c, rows, policy, want)
    PROVE  Inv'
<1> DEFINE many == want = "model" /\ Len(rows) > 1
           n0 == NewCall(want, policy, Len(rows))
           r == InsertCall(rows, policy, want)
<1>1. RowsOK /\ way \in Ways /\ rowid \in Nat /\ HaveOK /\ NothingSetIsLost
  BY InvGives
<1>2. Ready(c) /\ calls' \in 0 .. MaxCalls /\ way' = way
  BY ReadyCounts DEF Insert
<1>3. n0 \in Call /\ n0.moved = FALSE
  <2>1. want \in {"id", "model", "count"} /\ Len(rows) \in Nat
    BY DEF Batch
  <2> QED BY <2>1 DEF NewCall, NoCall, Call, Policies
<1>4. ASSUME NEW a \in Refusals, Proceed(c, Answer(n0, a), {}), UNCHANGED <<db, next, rowid, meant, have>>
      PROVE  Inv'
  <2> HIDE DEF n0
  <2> QED BY <1>2, <1>3, <1>4, RefusedBefore
<1>5. ASSUME ~(many /\ ~Returning), policy = "fail" => Fresh(rows) = DOMAIN rows,
             db' = Inserted(rows, policy), next' = NextId(rows),
             rowid' = (IF way.db = "sqlite" THEN LastInsertId(rows, policy) ELSE rowid),
             meant' = [id \in DOMAIN db' |->
                         LET old == IF id \in DOMAIN meant THEN meant[id] ELSE [x \in Columns |-> 0]
                             new == {w \in Wrote(rows, policy) : w.id = id} IN
                         IF new = {} THEN old ELSE Over(old, (CHOOSE w \in new : TRUE).cols)],
             NEW n \in Counts(rows, policy), NEW s,
             s = (IF Returning THEN Returns(rows, policy, r) ELSE ReadsBack(rows, policy, r, n)),
             Proceed(c, s, {w.id : w \in Wrote(rows, policy)}), Keeps(c, s)
      PROVE  Inv'
  <2>1. CallOK(s, db')
    BY <1>1, <1>5, ReturnsOK, ReadsBackOK
  <2>2. RowsOK' /\ NothingSetIsLost'
    BY <1>1, <1>2, <1>5, InsertKeepsRows, InsertKeepsMeant
  <2>3. rowid' \in Nat
    BY <1>1, <1>5, LastIdIsNat
  <2>4. HaveOK'
    BY <1>1, <1>5, <2>1, KeepsOK DEF CallOK
  <2> DEFINE ids == {w.id : w \in Wrote(rows, policy)}
  <2>5. ids \in SUBSET Nat /\ \A i \in Hit(rows, policy) : RowId(rows, i) \in ids
    BY <1>1, WroteFacts DEF Deed
  <2>6. \A id \in DOMAIN db \ ids : id \in DOMAIN db' /\ db'[id] = db[id]
    BY <1>1, <1>5, <2>5, InsertedHolds, InsertedElse
  <2> HIDE DEF ids
  <2>7. Proceed(c, s, ids)
    BY <1>5 DEF ids
  <2> QED BY <1>2, <2>1, <2>2, <2>3, <2>4, <2>5, <2>6, <2>7, InvAfter
<1>7. r.did = Wrote(rows, policy)
  BY <1>1, InsertCallIs
<1>8. {"error", "not supported"} \subseteq Refusals
  BY DEF Refusals
<1> HIDE DEF r
<1>9. \/ Proceed(c, Answer(n0, "not supported"), {}) /\ UNCHANGED <<db, next, rowid, meant, have>>
      \/ Proceed(c, Answer(n0, "error"), {}) /\ UNCHANGED <<db, next, rowid, meant, have>>
      \/ /\ ~(many /\ ~Returning)
         /\ policy = "fail" => Fresh(rows) = DOMAIN rows
         /\ db' = Inserted(rows, policy)
         /\ next' = NextId(rows)
         /\ rowid' = IF way.db = "sqlite" THEN LastInsertId(rows, policy) ELSE rowid
         /\ meant' = [id \in DOMAIN db' |->
                        LET old == IF id \in DOMAIN meant THEN meant[id] ELSE [x \in Columns |-> 0]
                            new == {w \in r.did : w.id = id} IN
                        IF new = {} THEN old ELSE Over(old, (CHOOSE w \in new : TRUE).cols)]
         /\ \E n \in Counts(rows, policy) :
               LET s == IF Returning THEN Returns(rows, policy, r)
                                     ELSE ReadsBack(rows, policy, r, n) IN
               Proceed(c, s, {w.id : w \in r.did}) /\ Keeps(c, s)
  BY DEF Insert, r
<1>10. ASSUME ~(many /\ ~Returning), policy = "fail" => Fresh(rows) = DOMAIN rows,
              db' = Inserted(rows, policy), next' = NextId(rows),
              rowid' = (IF way.db = "sqlite" THEN LastInsertId(rows, policy) ELSE rowid),
              meant' = [id \in DOMAIN db' |->
                          LET old == IF id \in DOMAIN meant THEN meant[id] ELSE [x \in Columns |-> 0]
                              new == {w \in r.did : w.id = id} IN
                          IF new = {} THEN old ELSE Over(old, (CHOOSE w \in new : TRUE).cols)],
              \E n \in Counts(rows, policy) :
                 LET s == IF Returning THEN Returns(rows, policy, r)
                                       ELSE ReadsBack(rows, policy, r, n) IN
                 Proceed(c, s, {w.id : w \in r.did}) /\ Keeps(c, s)
       PROVE  Inv'
  <2>1. PICK n \in Counts(rows, policy) :
           LET s == IF Returning THEN Returns(rows, policy, r)
                                 ELSE ReadsBack(rows, policy, r, n) IN
           Proceed(c, s, {w.id : w \in r.did}) /\ Keeps(c, s)
    BY <1>10
  <2>2. PICK s : s = IF Returning THEN Returns(rows, policy, r) ELSE ReadsBack(rows, policy, r, n)
    OBVIOUS
  <2>3. Proceed(c, s, {w.id : w \in Wrote(rows, policy)}) /\ Keeps(c, s)
    BY <1>7, <2>1, <2>2
  <2> HIDE DEF many
  <2>4. meant' = [id \in DOMAIN db' |->
                    LET old == IF id \in DOMAIN meant THEN meant[id] ELSE [x \in Columns |-> 0]
                        new == {w \in Wrote(rows, policy) : w.id = id} IN
                    IF new = {} THEN old ELSE Over(old, (CHOOSE w \in new : TRUE).cols)]
    BY <1>7, <1>10
  <2> QED BY <1>5, <1>10, <2>2, <2>3, <2>4
<1> QED BY <1>4, <1>8, <1>9, <1>10

(***************************************************************************)
(* UPDATE, DELETE and the second statement.                                *)
(***************************************************************************)
\* A step that does not touch the table.
LEMMA OnlyCallMoves ==
    ASSUME Inv, NEW c \in Clients, NEW s, Proceed(c, s, {}), CallOK(s, db), HaveOK',
           calls' \in 0 .. MaxCalls, UNCHANGED <<way, db, next, rowid, meant>>
    PROVE  Inv'
<1>1. RowsOK' /\ rowid' \in Nat /\ NothingSetIsLost'
  BY InvGives DEF RowsOK, NothingSetIsLost
<1>2. \A id \in DOMAIN db \ {} : id \in DOMAIN db' /\ db'[id] = db[id]
  OBVIOUS
<1> QED BY <1>1, <1>2, InvAfter

LEMMA UpdateKeeps ==
    ASSUME Inv, NEW c \in Clients, NEW m, m.id \in Nat \ {0},
           NEW S \in SUBSET Columns, m.set \in [S -> Vals],
           NEW want \in {"model", "count"}, Update(c, m, want)
    PROVE  Inv'
<1> DEFINE id == m.id
           deed == [id |-> id, cols |-> m.set]
           new == [db EXCEPT ![id].cols = Over(@, m.set)]
           r == [NewCall(want, "fail", 0) EXCEPT
                    !.did = {[id |-> id, cols |-> m.set]}, !.stirred = {id} \ DOMAIN db]
           s == [r EXCEPT !.moved = new # db]
<1>1. RowsOK /\ HaveOK /\ NothingSetIsLost /\ rowid \in Nat
  BY InvGives
<1>2. calls' \in 0 .. MaxCalls /\ way' = way
  BY ReadyCounts DEF Update
<1>3. deed \in Deed /\ deed.id = id /\ deed.cols = m.set
  <2>1. m.set \in UNION {[T -> Vals] : T \in SUBSET Columns}
    OBVIOUS
  <2> QED BY <2>1 DEF Deed
<1>4. /\ r \in Call /\ r.at = "done" /\ r.answer = "none" /\ r.models = {} /\ r.want = want
      /\ r.did = {deed} /\ r.stirred = {id} \ DOMAIN db /\ r.moved = FALSE
  <2> DEFINE q == NewCall(want, "fail", 0)
  <2>1. want \in {"id", "model", "count"}
    OBVIOUS
  <2>2. /\ q \in Call /\ q.at = "done" /\ q.answer = "none" /\ q.models = {} /\ q.want = want
        /\ q.moved = FALSE
    BY <2>1 DEF NewCall, NoCall, Call
  <2>3. {deed} \in SUBSET Deed /\ {id} \ DOMAIN db \in SUBSET Nat
    BY <1>3
  <2> DEFINE stirred == {id} \ DOMAIN db
  <2> HIDE DEF q, deed, stirred
  <2>4. LET t == [q EXCEPT !.did = {deed}, !.stirred = stirred] IN
        /\ t \in Call /\ t.at = "done" /\ t.answer = "none" /\ t.models = {} /\ t.want = want
        /\ t.did = {deed} /\ t.stirred = stirred /\ t.moved = FALSE
    BY <2>2, <2>3 DEF Call, stirred
  <2> QED BY <2>4 DEF q, deed, stirred
<1>5. /\ s \in Call /\ s.at = "done" /\ s.answer = "none" /\ s.models = {} /\ s.want = want
      /\ s.did = {deed} /\ s.stirred = {id} \ DOMAIN db
  <2>1. (new # db) \in BOOLEAN
    OBVIOUS
  <2> DEFINE moved == new # db
  <2> HIDE DEF r, moved
  <2>2. LET t == [r EXCEPT !.moved = moved] IN
        /\ t \in Call /\ t.at = "done" /\ t.answer = "none" /\ t.models = {} /\ t.want = want
        /\ t.did = {deed} /\ t.stirred = {id} \ DOMAIN db
    BY <1>4, <2>1 DEF Call, moved
  <2> QED BY <2>2 DEF moved
<1>6. /\ Ready(c) /\ UNCHANGED <<next, rowid>>
      /\ \/ /\ DOMAIN m.set = {}
            /\ Proceed(c, IF want = "model" THEN GoRead(r, id) ELSE Answer(r, "ok"), {})
            /\ UNCHANGED <<db, meant, have>>
         \/ /\ Proceed(c, Answer(r, "not updated"), {})
            /\ UNCHANGED <<db, meant, have>>
         \/ /\ id \in DOMAIN db
            /\ db' = new
            /\ meant' = [meant EXCEPT ![id] = Over(@, m.set)]
            /\ LET t == IF want = "count" THEN Answer(s, "ok")
                        ELSE IF Returning THEN Give(s, {ModelOf(new, id)})
                        ELSE GoRead(s, id) IN
               Proceed(c, t, {id}) /\ Keeps(c, t)
  BY DEF Update, Values
<1>7. "ok" \notin Refusals /\ "not updated" \in Refusals
  BY DEF Refusals
<1> HIDE DEF r, s, deed
<1>8. CASE /\ DOMAIN m.set = {}
           /\ Proceed(c, IF want = "model" THEN GoRead(r, id) ELSE Answer(r, "ok"), {})
           /\ UNCHANGED <<db, meant, have>>
  <2> DEFINE t == IF want = "model" THEN GoRead(r, id) ELSE Answer(r, "ok")
  <2>1. deed.id \notin r.stirred => Stands(deed, db)
    BY <1>3, <1>4, <1>8 DEF Stands
  <2>2. want = "model" => CallOK(GoRead(r, id), db)
    BY <1>3, <1>4, <2>1, GoReadOK
  <2>3. want # "model" => CallOK(Answer(r, "ok"), db)
    BY <1>4, <1>7, AnswerOK
  <2>4. CallOK(t, db) /\ Proceed(c, t, {})
    BY <1>8, <2>2, <2>3
  <2>5. HaveOK'
    BY <1>1, <1>8 DEF HaveOK
  <2> HIDE DEF t
  <2> QED BY <1>2, <1>6, <1>8, <2>4, <2>5, OnlyCallMoves
<1>9. CASE Proceed(c, Answer(r, "not updated"), {}) /\ UNCHANGED <<db, meant, have>>
  BY <1>4, <1>6, <1>7, <1>9, RefusedBefore
<1>10. ASSUME id \in DOMAIN db, db' = new, meant' = [meant EXCEPT ![id] = Over(@, m.set)],
              NEW t,
              t = (IF want = "count" THEN Answer(s, "ok")
                   ELSE IF Returning THEN Give(s, {ModelOf(new, id)})
                   ELSE GoRead(s, id)),
              Proceed(c, t, {id}), Keeps(c, t)
       PROVE  Inv'
  <2>1. db[id] \in [key : Keys, cols : [Columns -> Vals]]
    BY <1>1, <1>10 DEF RowsOK
  <2>2. Over(db[id].cols, m.set) \in [Columns -> Vals]
    BY <2>1, OverType
  <2>3. DOMAIN db' = DOMAIN db /\ \A i \in DOMAIN db \ {id} : db'[i] = db[i]
    BY <1>10
  <2>4. db'[id] = [db[id] EXCEPT !.cols = Over(@, m.set)]
    BY <1>10
  <2>5. /\ db'[id].cols = Over(db[id].cols, m.set) /\ db'[id].key = db[id].key
        /\ db'[id] \in [key : Keys, cols : [Columns -> Vals]]
    BY <2>1, <2>2, <2>4
  <2>6. \A i \in DOMAIN db : db'[i].key = db[i].key /\ db'[i] \in [key : Keys, cols : [Columns -> Vals]]
    BY <1>1, <2>3, <2>5 DEF RowsOK
  <2>7. db' = [i \in DOMAIN db' |-> db'[i]]
    <3>1. db = [i \in DOMAIN db |-> db[i]]
      BY <1>1 DEF RowsOK
    <3> QED BY <1>10, <3>1
  <2>8. RowsOK'
    <3>1. db' \in [DOMAIN db' -> [key : Keys, cols : [Columns -> Vals]]]
      BY <2>3, <2>6, <2>7
    <3>2. DOMAIN db' \subseteq Nat \ {0} /\ next' \in Nat \ {0}
      BY <1>1, <1>6, <2>3 DEF RowsOK
    <3>3. \A i \in DOMAIN db' : IF way'.natural THEN db'[i].key = i ELSE i < next'
      BY <1>1, <1>2, <1>6, <2>3, <2>6 DEF RowsOK
    <3>4. \A i, j \in DOMAIN db' : db'[i].key = db'[j].key => i = j
      BY <1>1, <2>3, <2>6 DEF RowsOK
    <3> QED BY <3>1, <3>2, <3>3, <3>4 DEF RowsOK
  <2>9. NothingSetIsLost'
    <3>1. DOMAIN meant' = DOMAIN db' /\ meant'[id] = Over(meant[id], m.set)
      BY <1>1, <1>10, <2>3 DEF NothingSetIsLost
    <3>2. \A i \in DOMAIN db \ {id} : meant'[i] = meant[i]
      BY <1>1, <1>10 DEF NothingSetIsLost
    <3>3. \A i \in DOMAIN db : db[i].cols = meant[i]
      BY <1>1 DEF NothingSetIsLost
    <3>4. \A i \in DOMAIN db' : db'[i].cols = meant'[i]
      BY <1>10, <2>3, <2>5, <3>1, <3>2, <3>3
    <3> QED BY <3>1, <3>4 DEF NothingSetIsLost
  <2>10. Stands(deed, new)
    <3>1. \A x \in DOMAIN m.set : Over(db[id].cols, m.set)[x] = m.set[x]
      BY OverNew
    <3>2. id \in DOMAIN new /\ new[id].cols = Over(db[id].cols, m.set)
      BY <1>10, <2>3, <2>5
    <3> QED BY <1>3, <3>1, <3>2 DEF Stands
  <2>11. ModelOf(new, id) \in Model /\ ModelOf(new, id).id = id /\ ModelOf(new, id).cols = new[id].cols
    BY <1>10, <2>5 DEF ModelOf, Model
  <2> HIDE DEF new
  <2>a. want = "count" => CallOK(Answer(s, "ok"), new)
    BY <1>5, <1>7, AnswerOK
  <2>b. want = "model" => CallOK(Give(s, {ModelOf(new, id)}), new)
    <3>1. {x.id : x \in {ModelOf(new, id)}} = {d.id : d \in s.did}
      BY <1>3, <1>5, <2>11
    <3>2. \A x \in {ModelOf(new, id)}, d \in s.did : \A y \in DOMAIN d.cols : x.cols[y] = d.cols[y]
      BY <1>3, <1>5, <2>10, <2>11 DEF Stands
    <3>3. {ModelOf(new, id)} \in SUBSET Model
      BY <2>11
    <3> QED BY <1>5, <3>1, <3>2, <3>3, GiveOK
  <2>c. want = "model" => CallOK(GoRead(s, id), new)
    BY <1>3, <1>5, <2>10, GoReadOK
  <2>13. CallOK(t, db')
    BY <1>10, <2>a, <2>b, <2>c
  <2>14. HaveOK'
    BY <1>1, <1>10, <2>13, KeepsOK DEF CallOK
  <2>15. {id} \in SUBSET Nat /\ \A i \in DOMAIN db \ {id} : i \in DOMAIN db' /\ db'[i] = db[i]
    BY <2>3
  <2>16. rowid' \in Nat
    BY <1>1, <1>6
  <2> QED BY <1>2, <1>10, <2>8, <2>9, <2>13, <2>14, <2>15, <2>16, InvAfter
<1> QED BY <1>6, <1>8, <1>9, <1>10

LEMMA DeleteKeeps ==
    ASSUME Inv, NEW c \in Clients, NEW id \in Nat, Delete(c, id)
    PROVE  Inv'
<1> DEFINE r == NewCall("count", "fail", 0)
<1>1. RowsOK /\ HaveOK /\ NothingSetIsLost /\ rowid \in Nat
  BY InvGives
<1>2. calls' \in 0 .. MaxCalls /\ way' = way
  BY ReadyCounts DEF Delete
<1>3. r \in Call /\ r.want = "count" /\ r.models = {}
  BY DEF NewCall, NoCall, Call
<1> HIDE DEF r
<1>4. CallOK(Answer(r, "ok"), db')
  <2>1. "ok" \notin Refusals
    BY DEF Refusals
  <2> QED BY <1>3, <2>1, AnswerOK
<1>5. /\ db' = [i \in DOMAIN db \ {id} |-> db[i]]
      /\ meant' = [i \in DOMAIN meant \ {id} |-> meant[i]]
      /\ have' = [have EXCEPT ![c] = {}]
      /\ Proceed(c, Answer(r, "ok"), {id})
      /\ UNCHANGED <<next, rowid>>
  BY DEF Delete, r
<1>6. DOMAIN db' = DOMAIN db \ {id} /\ \A i \in DOMAIN db' : db'[i] = db[i]
  BY <1>5
<1>7. RowsOK'
  <2>1. db' \in [DOMAIN db' -> [key : Keys, cols : [Columns -> Vals]]]
    BY <1>1, <1>5, <1>6 DEF RowsOK
  <2> QED BY <1>1, <1>2, <1>5, <1>6, <2>1 DEF RowsOK
<1>8. NothingSetIsLost'
  BY <1>1, <1>5, <1>6 DEF NothingSetIsLost
<1>9. HaveOK'
  BY <1>1, <1>5, FS_EmptySet DEF HaveOK
<1>10. {id} \in SUBSET Nat /\ \A i \in DOMAIN db \ {id} : i \in DOMAIN db' /\ db'[i] = db[i]
  BY <1>6
<1>11. rowid' \in Nat
  BY <1>1, <1>5
<1> QED BY <1>2, <1>4, <1>5, <1>7, <1>8, <1>9, <1>10, <1>11, InvAfter

LEMMA ReadKeeps ==
    ASSUME Inv, NEW c \in Clients, Read(c) \/ ReadFails(c)
    PROVE  Inv'
<1> DEFINE r == call[c]
           id == r.id
<1>1. r \in Call /\ ReadCall(r, db) /\ r.at = "read"
  BY DEF Inv, CallOK, Read, ReadFails
<1>2. RowsOK /\ HaveOK /\ calls \in 0 .. MaxCalls
  BY InvGives
<1>3. UNCHANGED <<way, db, next, rowid, meant, calls>>
  BY DEF Read, ReadFails
<1>4. {"unread", "not found"} \subseteq Failures \ Refusals
  BY DEF Failures, Refusals
<1>5. CASE ReadFails(c)
  <2>1. Proceed(c, Answer(r, "unread"), {}) /\ have' = have
    BY <1>5 DEF ReadFails
  <2> HIDE DEF r
  <2>2. CallOK(Answer(r, "unread"), db)
    BY <1>1, <1>4, AnswerOK
  <2>3. HaveOK'
    BY <1>2, <2>1 DEF HaveOK
  <2> QED BY <1>2, <1>3, <2>1, <2>2, <2>3, OnlyCallMoves
<1>6. CASE Read(c)
  <2> DEFINE s == IF id \in DOMAIN db THEN Give(r, {ModelOf(db, id)}) ELSE Answer(r, "not found")
  <2>1. Proceed(c, s, {}) /\ Keeps(c, s)
    BY <1>6 DEF Read
  <2> HIDE DEF r
  <2>2. ASSUME id \in DOMAIN db PROVE CallOK(Give(r, {ModelOf(db, id)}), db)
    <3>1. db[id] \in [key : Keys, cols : [Columns -> Vals]] /\ id \in Nat \ {0}
      BY <1>2, <2>2 DEF RowsOK
    <3>2. /\ ModelOf(db, id) \in Model
          /\ ModelOf(db, id).id = id /\ ModelOf(db, id).cols = db[id].cols
      BY <3>1 DEF ModelOf, Model
    <3>3. ASSUME Tells(r) PROVE
            /\ {m.id : m \in {ModelOf(db, id)}} = {d.id : d \in r.did}
            /\ \A m \in {ModelOf(db, id)}, d \in r.did :
                  m.id = d.id /\ d.id \notin r.stirred =>
                     \A x \in DOMAIN d.cols : m.cols[x] = d.cols[x]
      <4>1. PICK e \in r.did : r.did = {e} /\ e.id = id
        BY <1>1, <3>3 DEF ReadCall
      <4>2. e.id \notin r.stirred => Stands(e, db)
        BY <1>1, <3>3 DEF ReadCall
      <4> QED BY <3>2, <4>1, <4>2 DEF Stands
    <3>4. {ModelOf(db, id)} \in SUBSET Model /\ r.want = "model"
      BY <1>1, <3>2 DEF ReadCall
    <3> QED BY <1>1, <3>3, <3>4, GiveOK
  <2>3. ASSUME id \notin DOMAIN db PROVE CallOK(Answer(r, "not found"), db)
    <3>1. Same(Answer(r, "not found"), r)
      BY <1>1, <1>4, AnswerIs
    <3>2. Tells(Answer(r, "not found")) = Tells(r) /\ Answer(r, "not found").did = r.did
          /\ Answer(r, "not found").stirred = r.stirred
      BY <3>1, TellsSame DEF Same
    <3>3. Tells(r) => \E d \in r.did : d.id \in r.stirred
      BY <1>1, <2>3 DEF ReadCall, Stands
    <3>4. TakenCall(Answer(r, "not found"))
      BY <3>2, <3>3 DEF TakenCall
    <3> QED BY <1>1, <1>4, <3>4, AnswerOK
  <2>4. CallOK(s, db)
    BY <2>2, <2>3
  <2> HIDE DEF s
  <2>5. HaveOK'
    BY <1>2, <2>1, <2>4, KeepsOK DEF CallOK
  <2> QED BY <1>2, <1>3, <2>1, <2>4, <2>5, OnlyCallMoves
<1> QED BY <1>5, <1>6

(***************************************************************************)
(* The theorems.                                                           *)
(***************************************************************************)
LEMMA InitInv == Init => Inv
<1> SUFFICES ASSUME Init PROVE Inv
  OBVIOUS
<1>1. PICK n \in Keys \cup {0} :
         db = [k \in {k \in Keys : k <= n} |-> [key |-> k, cols |-> [x \in Columns |-> 0]]]
  BY DEF Init
<1>2. next = 1 + Cardinality(Keys) /\ Cardinality(Keys) \in Nat
  BY KeysAreNat DEF Init
<1>3. DOMAIN db \subseteq Keys
  BY <1>1
<1>4. \A id \in DOMAIN db : db[id] = [key |-> id, cols |-> [x \in Columns |-> 0]]
  BY <1>1
<1>5. [x \in Columns |-> 0] \in [Columns -> Vals]
  BY ExecutorAssumption
<1>6. \A id \in DOMAIN db : db[id].key = id /\ db[id].cols = [x \in Columns |-> 0]
  BY <1>4
<1>7. \A id \in DOMAIN db : db[id] \in [key : Keys, cols : [Columns -> Vals]]
  BY <1>3, <1>4, <1>5
<1>8. \A id \in DOMAIN db : id \in Nat \ {0} /\ id < next
  <2>1. \A id \in Keys : id \in Nat \ {0} /\ id <= Cardinality(Keys)
    BY <1>2, ExecutorAssumption
  <2> QED BY <1>2, <1>3, <2>1
<1>9. RowsOK
  <2>1. db \in [DOMAIN db -> [key : Keys, cols : [Columns -> Vals]]]
    BY <1>1, <1>7
  <2> QED BY <1>2, <1>6, <1>8, <2>1 DEF RowsOK
<1>10. HaveOK
  <2>1. PICK models \in {{}} \cup {{ModelOf(db, id)} : id \in DOMAIN db} :
           have = [d \in Clients |-> models]
    BY DEF Init
  <2>2. \A id \in DOMAIN db : ModelOf(db, id) \in Model
    BY <1>5, <1>6, <1>8 DEF ModelOf, Model
  <2>3. models \in SUBSET Model /\ Cardinality(models) <= 1
    <3>1. CASE models = {}
      BY <3>1, FS_EmptySet
    <3>2. CASE \E id \in DOMAIN db : models = {ModelOf(db, id)}
      <4>1. PICK m \in Model : models = {m}
        BY <2>2, <3>2
      <4>2. Cardinality({m}) = 1
        BY FS_Singleton
      <4> QED BY <4>1, <4>2
    <3> QED BY <2>1, <3>1, <3>2
  <2> QED BY <2>1, <2>3 DEF HaveOK
<1>11. NothingSetIsLost
  BY DEF Init, NothingSetIsLost
<1>12. NoCall \in Call /\ \A c \in Clients : CallOK(call[c], db)
  BY NoCallOK DEF Init, CallOK
<1>13. TypeOK
  BY <1>9, <1>10, <1>12, ExecutorAssumption DEF Init, TypeOK, HaveOK
<1> QED BY <1>11, <1>12, <1>13 DEF Inv

LEMMA SaveKeeps ==
    ASSUME Inv, NEW c \in Clients, NEW k \in Keys, NEW v \in Vals, Save(c, NewModel(k, v))
    PROVE  Inv'
<1> DEFINE m == NewModel(k, v)
<1>1. m.id = (IF way.natural THEN k ELSE 0) /\ m.key = k /\ m.set = [x \in {"a"} |-> v]
  BY DEF NewModel
<1> HIDE DEF m
<1>2. CASE m.id # 0
  <2>1. m.id \in Nat \ {0}
    BY <1>1, <1>2, KeysAreNat
  <2>2. {"a"} \in SUBSET Columns /\ m.set \in [{"a"} -> Vals]
    BY <1>1, ExecutorAssumption
  <2>3. Update(c, m, "model")
    BY <1>2 DEF Save, IsUpdate, m
  <2> QED BY <2>1, <2>2, <2>3, UpdateKeeps
<1>3. CASE m.id = 0
  <2>1. Insert(c, <<[key |-> k, a |-> v]>>, "fail", "model")
    BY <1>1, <1>3 DEF Save, IsUpdate, m
  <2>2. "fail" \in Policies
    BY DEF Policies
  <2> QED BY <2>1, <2>2, OneRow, InsertKeeps
<1> QED BY <1>2, <1>3

LEMMA EditKeeps ==
    ASSUME Inv, NEW c \in Clients, NEW m \in have[c], NEW v \in Vals, NEW S \in SUBSET Columns,
           Save(c, Edited(m, S, v)) \/ Update(c, Edited(m, S, v), "count")
    PROVE  Inv'
<1> DEFINE e == Edited(m, S, v)
<1>1. m \in Model
  BY InvGives DEF HaveOK
<1>2. e.id \in Nat \ {0} /\ e.set \in [S -> Vals]
  BY <1>1 DEF Edited, Model
<1>3. Update(c, e, "model") \/ Update(c, e, "count")
  BY <1>2 DEF Save, IsUpdate
<1> HIDE DEF e
<1> QED BY <1>2, <1>3, UpdateKeeps

LEMMA NextKeeps == Inv /\ [Next]_vars => Inv'
<1> SUFFICES ASSUME Inv, [Next]_vars PROVE Inv'
  OBVIOUS
<1>1. CASE UNCHANGED vars
  <2>1. RowsOK' = RowsOK /\ NothingSetIsLost' = NothingSetIsLost
    BY <1>1 DEF vars, RowsOK, NothingSetIsLost
  <2>2. TypeOK' = TypeOK
    BY <1>1, <2>1 DEF vars, TypeOK
  <2>3. \A r : (Tells(r))' = Tells(r) /\ (TellsLast(r))' = TellsLast(r)
    BY <1>1 DEF vars, Tells, TellsLast, Returning
  <2>4. \A r, rows : CallOK(r, rows)' = CallOK(r, rows)
    BY <2>3 DEF CallOK, OwnCall, TakenCall, ReadCall
  <2>5. \A c \in Clients : (CallOK(call[c], db))'
    <3> TAKE c \in Clients
    <3>1. PICK r : r = call[c]
      OBVIOUS
    <3>2. PICK rows : rows = db
      OBVIOUS
    <3>3. CallOK(r, rows)' /\ call'[c] = r /\ db' = rows
      BY <1>1, <2>4, <3>1, <3>2 DEF Inv, vars
    <3> QED BY <3>3
  <2> QED BY <2>1, <2>2, <2>5 DEF Inv
<1>2. ASSUME NEW c \in Clients, NEW k \in Keys, NEW v \in Vals, NEW want \in {"id", "model"},
             NEW policy \in Policies, Insert(c, <<[key |-> k, a |-> v]>>, policy, want)
      PROVE  Inv'
  BY <1>2, OneRow, InsertKeeps
<1>3. ASSUME NEW c \in Clients, NEW k \in Keys, NEW v \in Vals, NEW want \in {"id", "model"},
             NEW policy \in Policies, NEW j \in Keys, j > k,
             Insert(c, <<[key |-> k, a |-> v], [key |-> j, a |-> v]>>, policy, want)
      PROVE  Inv'
  BY <1>3, TwoRows, InsertKeeps
<1>4. ASSUME NEW c \in Clients, NEW m \in have[c], Delete(c, m.id) PROVE Inv'
  <2>1. m \in Model
    BY InvGives DEF HaveOK
  <2>2. m.id \in Nat
    BY <2>1 DEF Model
  <2> QED BY <1>4, <2>2, DeleteKeeps
<1>5. ASSUME NEW c \in Clients, NEW m \in have[c], NEW v \in Vals,
             NEW S \in {{}} \cup {{x} : x \in Columns},
             Save(c, Edited(m, S, v)) \/ Update(c, Edited(m, S, v), "count")
      PROVE  Inv'
  <2>1. S \in SUBSET Columns
    OBVIOUS
  <2> QED BY <1>5, <2>1, EditKeeps
<1>6. ASSUME NEW c \in Clients, NEW k \in Keys, NEW v \in Vals, NEW want \in {"id", "model"},
             NEW policy \in {"fail", "nothing", "update"},
             \/ Insert(c, <<[key |-> k, a |-> v]>>, policy, want)
             \/ \E j \in {j \in Keys : j > k} :
                   Insert(c, <<[key |-> k, a |-> v], [key |-> j, a |-> v]>>, policy, want)
      PROVE  Inv'
  BY <1>2, <1>3, <1>6 DEF Policies
<1>7. ASSUME NEW c \in Clients, NEW m \in have[c], NEW v \in Vals,
             \/ \E S \in {{}} \cup {{x} : x \in Columns} :
                   Save(c, Edited(m, S, v)) \/ Update(c, Edited(m, S, v), "count")
             \/ Delete(c, m.id)
      PROVE  Inv'
  BY <1>4, <1>5, <1>7
<1>8. ASSUME NEW c \in Clients, NEW k \in Keys, NEW v \in Vals, Save(c, NewModel(k, v))
      PROVE  Inv'
  BY <1>8, SaveKeeps
<1>9. ASSUME NEW c \in Clients, Read(c) \/ ReadFails(c) PROVE Inv'
  BY <1>9, ReadKeeps
<1>10. ASSUME Next PROVE Inv'
  <2>1. PICK c \in Clients :
           \/ \E k \in Keys, v \in Vals, want \in {"id", "model"},
                 policy \in {"fail", "nothing", "update"} :
                 \/ Insert(c, <<[key |-> k, a |-> v]>>, policy, want)
                 \/ \E j \in {j \in Keys : j > k} :
                       Insert(c, <<[key |-> k, a |-> v], [key |-> j, a |-> v]>>, policy, want)
           \/ \E k \in Keys, v \in Vals : Save(c, NewModel(k, v))
           \/ \E m \in have[c], v \in Vals :
                 \/ \E S \in {{}} \cup {{x} : x \in Columns} :
                       Save(c, Edited(m, S, v)) \/ Update(c, Edited(m, S, v), "count")
                 \/ Delete(c, m.id)
           \/ Read(c) \/ ReadFails(c)
    BY <1>10, Zenon DEF Next
  <2>2. CASE \E k \in Keys, v \in Vals, want \in {"id", "model"},
                policy \in {"fail", "nothing", "update"} :
                \/ Insert(c, <<[key |-> k, a |-> v]>>, policy, want)
                \/ \E j \in {j \in Keys : j > k} :
                      Insert(c, <<[key |-> k, a |-> v], [key |-> j, a |-> v]>>, policy, want)
    BY <1>6, <2>2, Zenon
  <2>3. CASE \E k \in Keys, v \in Vals : Save(c, NewModel(k, v))
    BY <1>8, <2>3, Zenon
  <2>4. CASE \E m \in have[c], v \in Vals :
                \/ \E S \in {{}} \cup {{x} : x \in Columns} :
                      Save(c, Edited(m, S, v)) \/ Update(c, Edited(m, S, v), "count")
                \/ Delete(c, m.id)
    BY <1>7, <2>4, Zenon
  <2>5. CASE Read(c) \/ ReadFails(c)
    BY <1>9, <2>5, Zenon
  <2> QED BY <2>1, <2>2, <2>3, <2>4, <2>5, Zenon
<1> QED BY <1>1, <1>10, Zenon

LEMMA AlwaysInv == Spec => []Inv
BY InitInv, NextKeeps, PTL DEF Spec

LEMMA InvAnswers == Inv => AnswersAreOwn /\ RefusedWroteNothing /\ NotFoundMeansTaken
BY DEF Inv, CallOK, OwnCall, RefusedCall, Refusals, TakenCall,
       AnswersAreOwn, RefusedWroteNothing, NotFoundMeansTaken

\* Ids given out lie below the next one or are the keys, and no key is there
\* twice, whatever the clients write.
THEOREM TypeCorrect == Spec => []TypeOK
BY AlwaysInv, PTL DEF Inv

\* A model that a call answers with is a row it wrote, with the values it wrote
\* unless another client wrote in between, and an id that of the last row it wrote,
\* on every database and with every policy, but for what Tells and TellsLast leave out.
THEOREM AnswersAlwaysOwn == Spec => []AnswersAreOwn
BY AlwaysInv, InvAnswers, PTL

\* A call that was refused has written nothing.
THEOREM RefusedNeverWrote == Spec => []RefusedWroteNothing
BY AlwaysInv, InvAnswers, PTL

\* What a call wrote and could not read back, another client has written too.
THEOREM NotFoundWasTaken == Spec => []NotFoundMeansTaken
BY AlwaysInv, InvAnswers, PTL

\* No column loses what it was last Set to to a model that was read earlier.
THEOREM SetIsNeverLost == Spec => []NothingSetIsLost
BY AlwaysInv, PTL DEF Inv
=============================================================================
