------------------------------ MODULE Reading -------------------------------
(***************************************************************************)
(* Related rows read back: joined rows put together again                  *)
(* (src/src/executor/consolidate.rs) and loaders, a statement for each     *)
(* relation (src/src/query/loader.rs).  A row is a tuple of keys, Nothing  *)
(* where an outer join found none.                                         *)
(***************************************************************************)
EXTENDS Integers, Sequences, FiniteSets

CONSTANT Nothing

Column(rows, n) == [i \in DOMAIN rows |-> rows[i][n]]

\* Indexes from the least to the greatest, and what a sequence has at them.
Ascending(I) ==
    [k \in 1 .. Cardinality(I) |-> CHOOSE i \in I : Cardinality({j \in I : j < i}) = k - 1]

Only(s, I) == LET at == Ascending(I) IN [k \in DOMAIN at |-> s[at[k]]]

\* retain_unique_models: the first of each.
Firsts(s) == {i \in DOMAIN s : \A j \in 1 .. i - 1 : s[j] # s[i]}
Unique(s) == Only(s, Firsts(s))

\* The n-th columns of the rows of one key, in the order of the rows.
Its(rows, key, n) == {i \in DOMAIN rows : rows[i][1] = key /\ rows[i][n] # Nothing}
Of(rows, key, n) == Only(Column(rows, n), Its(rows, key, n))

\* find_with_related: a left model is where its first row was.
\* Slip: the legacy algorithm, which needs the rows of a model side by side.
ConsolidateRuns(rows) ==
    LET begins == {i \in DOMAIN rows : i > 1 => rows[i - 1][1] # rows[i][1]}
        at == Ascending(begins)
        run(i) == {j \in i .. Len(rows) : \A k \in begins : i < k => j < k}
    IN  [g \in DOMAIN at |-> <<rows[at[g]][1], Of(Only(rows, run(at[g])), rows[at[g]][1], 2)>>]

Consolidate(rows) ==
    LET lefts == Unique(Column(rows, 1))
    IN  [g \in DOMAIN lefts |-> <<lefts[g], Of(rows, lefts[g], 2)>>]

\* One left model with several relations (tee, quad star): the rows are the
\* product of them, so each is made unique.
Star(rows, width) ==
    LET lefts == Unique(Column(rows, 1))
    IN  [g \in DOMAIN lefts |->
            <<lefts[g], [n \in 2 .. width |-> Unique(Of(rows, lefts[g], n))]>>]

\* L to M to R: in two passes, by L and by M.
Below(rows, l) ==
    LET cut == [i \in DOMAIN rows |-> <<rows[i][2], rows[i][3]>>]
    IN  Consolidate(Only(cut, Its(rows, l, 2)))

Chain(rows) ==
    LET lefts == Unique(Column(rows, 1))
    IN  [g \in DOMAIN lefts |-> <<lefts[g], Below(rows, lefts[g])>>]

\* load_many: one statement for all the models given, of which some may be the same.
\* Its rows are <<key, related>>.
LoadMany(models, rows) == [i \in DOMAIN models |-> Of(rows, models[i], 2)]

\* load_one puts each row it finds in the same place.
LoadOne(models, rows) ==
    [i \in DOMAIN models |->
        LET found == Of(rows, models[i], 2) IN IF found = <<>> THEN Nothing ELSE found[Len(found)]]

\* load_many_to_many: the links, then what they lead to ("data").
LoadManyToMany(models, links, data) ==
    [i \in DOMAIN models |->
        LET leads == Of(links, models[i], 2) IN Only(leads, {j \in DOMAIN leads : leads[j] \in data})]

\* Loaders of nested models work on them in one row (assemble_vectors): the
\* items of a group come after those of the groups before it.
Start(groups, g) == Cardinality(UNION {{h} \X DOMAIN groups[h] : h \in 1 .. g - 1})

Flat(groups) ==
    [n \in 1 .. Start(groups, Len(groups) + 1) |->
        LET g == CHOOSE h \in DOMAIN groups : n - Start(groups, h) \in DOMAIN groups[h]
        IN  groups[g][n - Start(groups, g)]]

Assemble(groups, items) ==
    [g \in DOMAIN groups |-> [i \in DOMAIN groups[g] |-> items[Start(groups, g) + i]]]
=============================================================================
