---------------------------- MODULE MCSchemaSync ----------------------------
(***************************************************************************)
(* The instance of SchemaSync for TLC: the entities of a parent and a      *)
(* child table through three releases, and a registry with a circle.       *)
(***************************************************************************)
EXTENDS SchemaSync, TLC

E(t, cols, uniq, keys, refs) ==
    [table |-> t, cols |-> cols, uniq |-> uniq, keys |-> keys, refs |-> refs, renamed |-> <<>>]
Indexed(c) == Index(c, {c}, FALSE)
UniqueKey(n, cols) == Index(n, cols, TRUE)

First  == <<E("child", {"a"}, {}, {Indexed("a")}, {"parent"}), E("parent", {"a", "d"}, {}, {}, {})>>
\* A unique column more, and an old column made unique.
Second == <<E("child", {"a", "b"}, {"b"}, {Indexed("a")}, {"parent"}),
            E("parent", {"a", "d"}, {"a"}, {}, {})>>
\* A composite unique key in place of the column's, and a column renamed.
Third  == <<E("child", {"a", "b"}, {}, {UniqueKey("u", {"a", "b"})}, {"parent"}),
            [E("parent", {"a", "e"}, {}, {Indexed("e")}, {}) EXCEPT !.renamed = "e" :> "d"]>>
\* Two tables that reference each other, and one behind them.
Circle == <<E("parent", {"a", "d"}, {}, {}, {"child"}), E("other", {"a"}, {}, {}, {"parent"}),
            E("child", {"a"}, {}, {}, {"parent"})>>
Releases == {First, Second, Third, Circle}

\* What the theorems about SchemaSync suppose of releases.
ASSUME MCReleases == Steady /\ RenamedOnce /\ \A R \in Registries : SelfContained(R)

Alike == Permutations(Processes)
=============================================================================
