-------------------------------- MODULE Pages -------------------------------
(***************************************************************************)
(* A program reads a table page by page, with a Cursor or a Paginator,     *)
(* while other connections insert and delete rows between its statements.  *)
(*                                                                         *)
(* With a cursor it goes after the last row it has, or before the first,   *)
(* in ascending or descending order, with one cursor kept or a new one for *)
(* each page, perhaps up to a fixed bound, until a page is not full.       *)
(* With a paginator it calls fetch_and_next until there is no page (what   *)
(* into_stream does), from the first page or, after set_page, another.     *)
(***************************************************************************)
EXTENDS Paginator, Functions

CONSTANTS Bounds,     \* rows whose keys a walk may have as its far bound
          Sizes,      \* sizes of pages
          MaxWrites   \* bound: inserts and deletes

ASSUME PagesAssumption ==
    /\ IsFiniteSet(Rows) /\ Rows # {} /\ Bounds \subseteq Rows
    /\ Rows \subseteq Seq(Nat)
    /\ \A r, q \in Rows : Len(r) = Len(q) /\ Len(r) > 0
    /\ Sizes \subseteq Nat \ {0} /\ Sizes # {} /\ MaxWrites \in Nat

VARIABLES table,
          way,      \* how the program reads
          cursor,
          pages,    \* the paginator
          total,    \* what num_pages said before the first page
          got,      \* the rows it has, put together in the cursor's order
          done,     \* it has seen the end
          stayed,   \* history: rows in the table since it began
          inserts,  \* history: writes since it began
          deletes

vars == <<table, way, cursor, pages, total, got, done, stayed, inserts, deletes>>

Key(r, by) == SubSeq(r, 1, by)

CursorWays == [by : 1 .. Arity, asc : BOOLEAN, side : {"after", "before"},
               kept : BOOLEAN, upTo : {NoValues} \cup Bounds]
PageWays == [from : 0 .. 1]
ByCursor == "by" \in DOMAIN way

TypeOK ==
    /\ table \subseteq Rows
    /\ cursor.by \in 1 .. Arity /\ cursor.limit \in Sizes \cup {NoLimit}
    /\ pages.page \in Nat
    /\ Range(got) \subseteq Rows
    /\ done \in BOOLEAN
    /\ stayed \subseteq table
    /\ inserts + deletes \in 0 .. MaxWrites

Reads(w, n, t) == \* the program begins, and asks a paginator for its totals
    /\ way = w
    /\ cursor = NewCursor(IF ByCursor THEN w.by ELSE 1)
    /\ pages = SetPage(Paginate(n), IF ByCursor THEN 0 ELSE w.from)
    /\ table = t /\ stayed = t
    /\ total = IF ByCursor THEN 0 ELSE PagesNumber(pages, NumItems(t))
    /\ got = <<>> /\ done = FALSE
    /\ inserts = 0 /\ deletes = 0

Init ==
    \/ \E w \in CursorWays, t \in SUBSET Rows : Reads(w, CHOOSE n \in Sizes : TRUE, t)
    \/ \E w \in PageWays, n \in Sizes, t \in SUBSET Rows : Reads(w, n, t)

\* Writes of other connections.
Insert(r) ==
    /\ ~done /\ inserts + deletes < MaxWrites /\ r \notin table
    /\ table' = table \cup {r}
    /\ inserts' = inserts + 1
    /\ UNCHANGED <<way, cursor, pages, total, got, done, stayed, deletes>>

Delete(r) ==
    /\ ~done /\ inserts + deletes < MaxWrites /\ r \in table
    /\ table' = table \ {r}
    /\ stayed' = stayed \ {r}
    /\ deletes' = deletes + 1
    /\ UNCHANGED <<way, cursor, pages, total, got, done, inserts>>

\* Settings for the next page: the direction, the bound, the side it walks on.
Prepared(n) ==
    LET c == Sorted(IF way.kept THEN cursor ELSE NewCursor(way.by), way.asc)
        bound == IF way.upTo = NoValues THEN NoValues ELSE Key(way.upTo, way.by)
    IN  IF way.side = "after"
        THEN First(After(Before(c, bound),
                         IF got = <<>> THEN NoValues ELSE Key(got[Len(got)], way.by)), n)
        ELSE Last(Before(After(c, bound),
                         IF got = <<>> THEN NoValues ELSE Key(got[1], way.by)), n)

FetchByCursor(n, tie) ==
    /\ ByCursor /\ ~done
    /\ \E c \in {Applied(Prepared(n))} : \E page \in {Result(c, table, tie)} :
       /\ cursor' = IF way.kept THEN c ELSE cursor
       /\ got' = IF way.side = "after" THEN got \o page ELSE page \o got
       /\ done' = (Len(page) < n)
    /\ UNCHANGED <<table, way, pages, total, stayed, inserts, deletes>>

\* fetch_and_next counts the page on, the one that was empty too.
FetchAndNext ==
    /\ ~ByCursor /\ ~done
    /\ \E page \in {FetchPage(pages, table)} :
       /\ got' = got \o page
       /\ done' = (page = <<>>)
    /\ pages' = NextPage(pages)
    /\ UNCHANGED <<table, way, cursor, total, stayed, inserts, deletes>>

Read == \/ \E n \in Sizes, tie \in {"asc", "desc"} : FetchByCursor(n, tie)
        \/ FetchAndNext

Next == Read \/ \E r \in Rows : Insert(r) \/ Delete(r)

Spec == Init /\ [][Next]_vars

(***************************************************************************)
(* Safety.                                                                 *)
(***************************************************************************)
ComesFirst(a, b) == \* a comes before b in the order the program asked for
    LET i == CHOOSE i \in 1 .. way.by : a[i] # b[i] /\ \A j \in 1 .. i - 1 : a[j] = b[j]
    IN  IF way.asc THEN a[i] < b[i] ELSE a[i] > b[i]

Within(r) ==
    \/ way.upTo = NoValues
    \/ /\ Key(r, way.by) # Key(way.upTo, way.by)
       /\ IF way.side = "after" THEN ComesFirst(r, way.upTo) ELSE ComesFirst(way.upTo, r)

\* The pages of a cursor, put together, are in order, hold no row twice and
\* none outside the bound, whatever is written in between ("fast and stable
\* across concurrent inserts").
CursorInOrder ==
    ByCursor =>
        /\ \A i, j \in DOMAIN got : i < j /\ Key(got[i], way.by) # Key(got[j], way.by)
                                      => ComesFirst(got[i], got[j])
        /\ \A i, j \in DOMAIN got : got[i] = got[j] => i = j
        /\ \A i \in DOMAIN got : Within(got[i])

\* A walk that is done has every row that was there all the time, but for rows
\* whose key another row it has shares: where the order columns are a key,
\* it has them all.
CursorComplete ==
    ByCursor /\ done =>
        \A r \in stayed : Within(r) =>
            \E i \in DOMAIN got : /\ Key(got[i], way.by) = Key(r, way.by)
                                  /\ way.by = Arity => got[i] = r

\* The pages of a paginator miss at most one row that was there all the time for
\* each delete, and have at most one row twice for each insert; undisturbed
\* they are the table in order, in as many pages as num_pages said.
PaginatorShifts ==
    ~ByCursor /\ done =>
        LET skipped == pages.page_size * way.from IN
        /\ Cardinality(stayed \ Range(got)) <= deletes + skipped
        /\ Len(got) - Cardinality(Range(got)) <= inserts
        /\ inserts + deletes = 0 =>
              /\ got = SubSeq(InOrder(table, 1, "asc", "asc"), skipped + 1, Cardinality(table))
              /\ pages.page = (IF total < way.from THEN way.from ELSE total) + 1
=============================================================================
