------------------------------- MODULE Cursor -------------------------------
(***************************************************************************)
(* Cursor (src/src/executor/cursor.rs): a keyset cursor over a query.      *)
(*                                                                         *)
(* A row is the tuple of its columns; the cursor orders by the first "by"  *)
(* of them (Identity::Unary to Many).  What is left decides between rows   *)
(* with equal keys: the primary keys of the other table where the query is *)
(* a join (secondary_order_by), or whatever the server does ("tie").       *)
(* The query's WHERE, ORDER BY and LIMIT stay in the cursor between calls. *)
(* Left out: errors (KeyArityMismatch is a mistake of the program's),      *)
(* NULLs, and the selector into_model and its like put in.                 *)
(***************************************************************************)
EXTENDS Naturals, Sequences, FiniteSets

CONSTANT Rows    \* rows there may be: tuples of naturals of one length

NoValues == <<>>
NoLimit  == 0

NewCursor(by) ==
    [by |-> by, where |-> {}, order |-> "asc", limit |-> NoLimit,
     first |-> NoLimit, last |-> NoLimit, before |-> NoValues, after |-> NoValues,
     asc |-> TRUE, reversed |-> FALSE]

Before(c, values) == [c EXCEPT !.before = values]
After(c, values)  == [c EXCEPT !.after = values]
Sorted(c, asc)    == [c EXCEPT !.asc = asc]
First(c, n) == [c EXCEPT !.last = NoLimit, !.first = n]

Last(c, n)  == [c EXCEPT !.first = NoLimit, !.last = n]

Compare(op, a, b) == IF op = "gt" THEN a > b ELSE a < b

\* apply_filter: one disjunct per column, the columns before it equal.
\* Slip: every column is compared, none has to be equal.
MeetsColumnwise(row, cond) ==
    \A n \in DOMAIN cond.values : Compare(cond.op, row[n], cond.values[n])

Meets(row, cond) ==
    \E n \in DOMAIN cond.values :
       /\ \A i \in 1 .. n - 1 : row[i] = cond.values[i]
       /\ Compare(cond.op, row[n], cond.values[n])

\* Slip: one row more, to see whether there are more.
ApplyLimitOneMore(c) ==
    [c EXCEPT !.limit = IF c.first # NoLimit THEN c.first + 1
                        ELSE IF c.last # NoLimit THEN c.last + 1 ELSE @]

ApplyLimit(c) ==
    [c EXCEPT !.limit = IF c.first # NoLimit THEN c.first
                        ELSE IF c.last # NoLimit THEN c.last ELSE @]

ApplyOrderBy(c) ==
    [c EXCEPT !.reversed = c.last # NoLimit,
              !.order = IF c.asc = (c.last = NoLimit) THEN "asc" ELSE "desc"]

\* Conditions are added to those of the calls before.
Bound(c, values, up) ==
    IF values = NoValues THEN {} ELSE {[op |-> IF up THEN "gt" ELSE "lt", values |-> values]}

ApplyFilters(c) ==
    [c EXCEPT !.where = @ \cup Bound(c, c.after, c.asc) \cup Bound(c, c.before, ~c.asc)]

Applied(c) == ApplyFilters(ApplyOrderBy(ApplyLimit(c)))

\* The server: rows in the order of their keys, ties in the order it likes.
Precedes(by, order, tie, a, b) ==
    \E n \in DOMAIN a :
       /\ \A i \in 1 .. n - 1 : a[i] = b[i]
       /\ Compare(IF (IF n <= by THEN order ELSE tie) = "asc" THEN "lt" ELSE "gt", a[n], b[n])

Arity == Len(CHOOSE r \in Rows : TRUE)

InOrder(rows, by, order, tie) == \* each row where as many come before it
    [i \in 1 .. Cardinality(rows) |->
        CHOOSE r \in rows :
            Cardinality({q \in rows : Precedes(by, order, tie, q, r)}) = i - 1]

Prefix(s, n) == IF n = NoLimit \/ n >= Len(s) THEN s ELSE SubSeq(s, 1, n)
Backwards(s) == [i \in DOMAIN s |-> s[Len(s) + 1 - i]]

\* What all returns, of a cursor to which it has applied its settings.
\* Slip: the rows of last are left as the server gave them.
ResultUnreversed(c, table, tie) ==
    Prefix(InOrder({r \in table : \A cond \in c.where : Meets(r, cond)}, c.by, c.order, tie),
           c.limit)

Result(c, table, tie) ==
    LET rows == {r \in table : \A cond \in c.where : Meets(r, cond)}
        page == Prefix(InOrder(rows, c.by, c.order, tie), c.limit)
    IN  IF c.reversed THEN Backwards(page) ELSE page
=============================================================================
