----------------------------- MODULE Relations ------------------------------
(***************************************************************************)
(* What NestedSave writes, read back by the ways there are to read it:     *)
(* joins whose rows are consolidated, and loaders.                         *)
(***************************************************************************)
EXTENDS NestedSave, Reading

CONSTANT MaxRows  \* bound: rows of a join of which every order is tried

ASSUME RelationsAssumption ==
    /\ IsFiniteSet(Parents) /\ IsFiniteSet(Tags)
    /\ Nothing \notin Parents \cup Kids \cup Tags
    /\ MaxRows \in Nat

\* One column of an outer join.
Outer(S) == IF S = {} THEN {Nothing} ELSE S

\* Rows of the joins; n tells those of links to the same tag apart.
ParentKids(d) == UNION {{<<p, k>> : k \in Outer(OfParent(d, p))} : p \in d.parents}
LinkRows(d) == {<<l.parent, l.tag, l.n>> : l \in d.links}

ParentStar(d) ==
    UNION {{<<p, k, l[1], k2, l[2]>> :
              k \in Outer(OfParent(d, p)), k2 \in Outer(OfParent(d, p)),
              l \in {<<m.tag, m.n>> : m \in LinksOf(d, p)} \cup
                    (IF LinksOf(d, p) = {} THEN {<<Nothing, 1>>} ELSE {})} : p \in d.parents}

TagChain(d) ==
    UNION {LET ls == {l \in d.links : l.tag = t} IN
           IF ls = {} THEN {<<t, Nothing, Nothing, 1>>}
           ELSE UNION {{<<t, l.parent, k, l.n>> : k \in Outer(OfParent(d, l.parent))} : l \in ls}
           : t \in d.tags}

Inside(s) == {s[i] : i \in DOMAIN s}
Holds(s, S) == Len(s) = Cardinality(S) /\ Inside(s) = S

\* The orders a set may come in.
InARow(S) == {s \in [1 .. Cardinality(S) -> S] : \A i, j \in DOMAIN s : s[i] = s[j] => i = j}
Orders(S) == IF Cardinality(S) <= MaxRows THEN InARow(S) ELSE {}

TagsOf(d, p) == {l.tag : l \in LinksOf(d, p)}

\* However the server orders its rows, each way to read gives every model once,
\* where it belongs, with what is related to it and nothing else: parents with
\* their kids by a join or by a loader, parents with several relations by a join
\* of them all, and tags with their parents and the kids of those by a chain of
\* joins or by a loader on what a loader gave.
ReadsAgree ==
    at = "idle" =>
        LET once == \A l \in db.links : l.n = 1 IN
        /\ \A rows \in Orders(ParentKids(db)) :
              LET got == Consolidate(rows) IN
              /\ Holds(Column(got, 1), db.parents)
              /\ \A g \in DOMAIN got : Holds(got[g][2], OfParent(db, got[g][1]))
              /\ \A ps \in InARow(db.parents) : \A i \in DOMAIN ps :
                    /\ Holds(LoadMany(ps, rows)[i], OfParent(db, ps[i]))
                    /\ schema.one => Outer(OfParent(db, ps[i])) = {LoadOne(ps, rows)[i]}
        /\ \A rows \in Orders(ParentStar(db)) :
              LET got == Star(rows, 4) IN
              /\ Holds(Column(got, 1), db.parents)
              /\ \A g \in DOMAIN got :
                    /\ Holds(got[g][2][2], OfParent(db, got[g][1]))
                    /\ Holds(got[g][2][3], TagsOf(db, got[g][1]))
                    /\ Holds(got[g][2][4], OfParent(db, got[g][1]))
        /\ \A rows \in Orders(TagChain(db)), links \in Orders(LinkRows(db)),
              kids \in Orders(ParentKids(db)) :
              LET got == Chain(rows)
                  tags == Column(got, 1)
                  back == [i \in DOMAIN links |-> <<links[i][2], links[i][1]>>]
                  parents == LoadManyToMany(tags, back, db.parents)
                  nested == Assemble(parents, LoadMany(Flat(parents), kids))
              IN  /\ Holds(tags, db.tags)
                  /\ \A g \in DOMAIN got :
                        /\ Inside(Column(got[g][2], 1)) = Inside(parents[g])
                        /\ once => Len(got[g][2]) = Len(parents[g])
                        /\ \A i \in DOMAIN got[g][2], j \in DOMAIN parents[g] :
                              got[g][2][i][1] = parents[g][j] =>
                                 /\ Inside(got[g][2][i][2]) = Inside(nested[g][j])
                                 /\ once => Len(got[g][2][i][2]) = Len(nested[g][j])
=============================================================================
