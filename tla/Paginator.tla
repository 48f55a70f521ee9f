----------------------------- MODULE Paginator ------------------------------
(***************************************************************************)
(* Paginator (src/src/executor/paginator.rs): pages of a query by LIMIT    *)
(* and OFFSET, each a statement of its own, and the totals.                *)
(* A paginator is [page, page_size]; rows come in the order the program    *)
(* gave its query, here a total one.                                       *)
(***************************************************************************)
EXTENDS Cursor

Paginate(size) == [page |-> 0, page_size |-> size]
SetPage(p, n) == [p EXCEPT !.page = n]
NextPage(p) == [p EXCEPT !.page = @ + 1]

FetchPage(p, table) ==
    LET rows == InOrder(table, 1, "asc", "asc")
        upto == p.page_size * (p.page + 1) IN
    SubSeq(rows, p.page_size * p.page + 1, IF upto < Len(rows) THEN upto ELSE Len(rows))

\* num_items counts the query without its limit and offset; num_pages rounds up.
NumItems(table) == Cardinality(table)

\* Slip: a last page that is not full is not counted.
PagesRoundedDown(p, items) == items \div p.page_size

PagesNumber(p, items) ==
    (items \div p.page_size) + (IF items % p.page_size > 0 THEN 1 ELSE 0)
=============================================================================
