----------------------------- MODULE MCRelations ---------------------------
(***************************************************************************)
(* An instance of Relations for TLC: calls on p1, beside p2.               *)
(***************************************************************************)
EXTENDS Relations, TLC

CONSTANTS p1, p2

Items(ids) == UNION {{{[id |-> x, new |-> f[x].new, changed |-> f[x].changed] : x \in s}
                        : f \in [s -> [new : BOOLEAN, changed : BOOLEAN]]} : s \in SUBSET ids}

\* A call concerns the kids or the tags.
Saves ==
    {c \in [kind : {"save"}, id : {p1}, new : BOOLEAN, changed : BOOLEAN, action : Actions,
            kidsMode : Modes, kids : Items(Kids), tagsMode : Modes, tags : Items(Tags)] :
        /\ c.new => c.changed
        /\ c.kidsMode = "NotSet" => c.kids = {}
        /\ c.tagsMode = "NotSet" => c.tags = {}
        /\ c.kidsMode = "NotSet" \/ c.tagsMode = "NotSet"
        /\ \A i \in c.kids \cup c.tags : i.changed = c.changed}

SaveKids ==
    [kind : {"saveKid"}, id : Kids, new : BOOLEAN, changed : BOOLEAN, action : Actions,
     owner : {"NotSet", NoParent, p1}, ownerNew : BOOLEAN]

Deletes == [kind : {"delete"}, id : {p1}, action : {"Save"}]

MCCalls == Saves \cup SaveKids \cup Deletes

Schemas == [nullable : BOOLEAN, one : BOOLEAN, keyed : BOOLEAN]

Base(ps, ts) ==
    [parents : {ps}, tags : {ts},
     kids : UNION {[ks -> ps \cup {NoParent}] : ks \in SUBSET Kids},
     links : SUBSET [parent : ps, tag : ts, n : 1 .. 2]]

\* p2 is there; links of p2 are not varied.  A tag may be linked twice, where
\* there are no kids; with two kids, p1 has no tags.
MCDatabases ==
    {d \in [schema : Schemas,
            db : UNION {Base(ps, ts) : ps \in {{p2}, {p1, p2}}, ts \in SUBSET Tags}] :
        /\ \A k \in DOMAIN d.db.kids : d.db.kids[k] = NoParent => d.schema.nullable
        /\ d.schema.one => \A j, k \in DOMAIN d.db.kids : d.db.kids[j] = d.db.kids[k]
                                /\ d.db.kids[j] # NoParent => j = k
        /\ \A t \in d.db.tags : /\ [parent |-> p2, tag |-> t, n |-> 1] \in d.db.links
                              /\ [parent |-> p2, tag |-> t, n |-> 2] \notin d.db.links
        /\ DOMAIN d.db.kids = Kids =>
              Cardinality(d.db.tags) <= 1 /\ \A l \in d.db.links : l.parent = p2
        /\ \A l \in d.db.links : l.n = 2 =>
              /\ ~d.schema.keyed /\ DOMAIN d.db.kids = {}
              /\ [l EXCEPT !.n = 1] \in d.db.links}

Symmetry == Permutations(Kids) \cup Permutations(Tags)
=============================================================================
