----------------------------- MODULE NestedSave -----------------------------
(***************************************************************************)
(* The generated ActiveModelEx::action and delete (src/sea-orm-macros/src/ *)
(* derives/active_model_ex.rs): a model is saved or deleted together with  *)
(* its relations, one statement at a time, in a transaction of its own.    *)
(*                                                                         *)
(* A parent has kids (HasMany, or one kid: HasOne), which belong to it by  *)
(* a foreign key, and tags, by a junction table.  One program has loaded   *)
(* what it saves ("seen"); other connections write before and between its  *)
(* statements (READ COMMITTED).  Savepoints of the nested calls are not    *)
(* seen: nothing here goes on after an error.                              *)
(* The mode of a relation is NotSet, Append or Replace; HasOne is Replace  *)
(* of at most one.                                                         *)
(***************************************************************************)
EXTENDS Naturals, FiniteSets

CONSTANTS Parents, Kids, Tags,
          NoParent,    \* a foreign key that is null
          Calls,       \* calls the program may make
          Databases,   \* databases it may meet, each with its schema
          MaxOthers    \* bound: writes of other connections

VARIABLES schema,   \* [nullable, one, keyed]: the foreign key may be null, is unique
                    \* (HasOne); the junction's key is the pair of foreign keys and
                    \* nothing else (a wider key is not modelled)
          seen,     \* the database when the program loaded its model
          db,       \* what is committed
          work,     \* what the transaction sees
          call,
          at,       \* what the call does next
          left,     \* items it still has to do there
          toLink,   \* tags to link, from the links it read
          touched,  \* history: what others wrote since the model was loaded
          others    \* history: their writes

vars == <<schema, seen, db, work, call, at, left, toLink, touched, others>>

NoCall == [kind |-> "none"]
Done   == {"idle", "ok", "constraint", "connection"}

Modes   == {"NotSet", "Append", "Replace"}
Actions == {"Insert", "Update", "Save"}

\* A link is [parent, tag, n]: n tells rows of the same pair apart.
Links    == [parent : Parents, tag : Tags, n : 1 .. 2]
Schema   == [nullable : BOOLEAN, one : BOOLEAN, keyed : BOOLEAN]
Database ==
    [parents : SUBSET Parents, tags : SUBSET Tags, links : SUBSET Links,
     kids : UNION {[ks -> Parents \cup {NoParent}] : ks \in SUBSET Kids}]

Item(ids) == [id : ids, new : BOOLEAN, changed : BOOLEAN]

\* The calls: of a parent with its kids and tags, of a kid with its owner, to delete.
Call ==
    [kind : {"save"}, id : Parents, new : BOOLEAN, changed : BOOLEAN, action : Actions,
     kidsMode : Modes, kids : SUBSET Item(Kids), tagsMode : Modes, tags : SUBSET Item(Tags)]
    \cup
    [kind : {"saveKid"}, id : Kids, new : BOOLEAN, changed : BOOLEAN, action : Actions,
     owner : Parents \cup {NoParent, "NotSet"}, ownerNew : BOOLEAN]
    \cup
    [kind : {"delete"}, id : Parents, action : {"Save"}]

\* A relation holds each of its models once (one given twice is left out), and
\* none where it is not set.
OneEach(mode, items) ==
    /\ IsFiniteSet(items) /\ \A i, j \in items : i.id = j.id => i = j
    /\ mode = "NotSet" => items = {}

OfParent(d, p) == {k \in DOMAIN d.kids : d.kids[k] = p}
LinksOf(d, p)  == {l \in d.links : l.parent = p}

\* What the server checks.
Allows(s, d) ==
    /\ \A k \in DOMAIN d.kids :
          IF d.kids[k] = NoParent THEN s.nullable ELSE d.kids[k] \in d.parents
    /\ s.one => \A p \in Parents : Cardinality(OfParent(d, p)) <= 1
    /\ \A l \in d.links : l.parent \in d.parents /\ l.tag \in d.tags

Consistent(d) == Allows(schema, d)

OnePerKey(s, d) == s.keyed => \A l \in d.links : l.n = 1

ASSUME NestedSaveAssumption ==
    /\ IsFiniteSet(Kids) /\ MaxOthers \in Nat
    /\ NoParent \notin Parents \cup {"NotSet"} /\ "NotSet" \notin Parents
    /\ Calls \subseteq Call
    /\ \A c \in Calls : c.kind = "save" => OneEach(c.kidsMode, c.kids) /\ OneEach(c.tagsMode, c.tags)
    /\ Databases \subseteq [schema : Schema, db : Database]
    /\ \A d \in Databases : Allows(d.schema, d.db) /\ OnePerKey(d.schema, d.db)

TypeOK ==
    /\ schema \in Schema
    /\ \A d \in {seen, db, work} : d \in Database /\ OnePerKey(schema, d) /\ Consistent(d)
    /\ call \in Calls \cup {NoCall}
    /\ toLink \subseteq Tags
    /\ at \in Done => work = db
    /\ others \in 0 .. MaxOthers

Init ==
    /\ \E d \in Databases : schema = d.schema /\ db = d.db
    /\ seen = db /\ work = db
    /\ call = NoCall /\ at = "idle" /\ left = {} /\ toLink = {}
    /\ touched = {} /\ others = 0

WithKid(d, k, p) ==
    [d EXCEPT !.kids = [i \in DOMAIN @ \cup {k} |-> IF i = k THEN p ELSE d.kids[i]]]
WithoutKids(d, ks) == [d EXCEPT !.kids = [i \in DOMAIN @ \ ks |-> d.kids[i]]]

(***************************************************************************)
(* Steps of a call.  It ends with "ok" when the transaction has committed; *)
(* an error of a statement drops it, which rolls back.                     *)
(***************************************************************************)
\* Slip: what was done before the error stays.
AbortWithoutRollback(why) ==
    /\ at' = why /\ left' = {} /\ toLink' = {}
    /\ UNCHANGED <<schema, seen, db, work, call, touched, others>>

Abort(why) ==
    /\ at' = why /\ work' = db /\ left' = {} /\ toLink' = {}
    /\ UNCHANGED <<schema, seen, db, call, touched, others>>

\* A statement that leaves d; then the call is at "next" with these items.
Goes(d, next, items) ==
    IF Consistent(d)
    THEN /\ work' = d /\ at' = next /\ left' = items
         /\ UNCHANGED <<schema, seen, db, call, toLink, touched, others>>
    ELSE Abort("constraint")

Fails == at \notin Done /\ Abort("connection")

Ids(items) == {i.id : i \in items}

\* Whether a row can be written: insert wants none there, update one with a key.
Writes(new, exists) ==
    IF call.action = "Insert" \/ (call.action = "Save" /\ new)
    THEN ~exists ELSE exists /\ ~new

\* The foreign key a kid's model has: what the row had when it was loaded.
Known(k) == IF k \in DOMAIN seen.kids THEN seen.kids[k] ELSE NoParent

\* set_parent_key: the key is written only where the model has another.
Keyed(k, p) == IF k \in DOMAIN work.kids /\ Known(k) = p THEN work.kids[k] ELSE p

\* Calls a program makes of the model it loaded: rows are new that were not there.
Fits(c) ==
    /\ c.kind = "delete" => c.id \in seen.parents
    /\ c.kind = "save" =>
         /\ c.new <=> c.id \notin seen.parents
         /\ \A i \in c.kids : i.new <=> i.id \notin DOMAIN seen.kids
         /\ \A i \in c.tags : i.new <=> i.id \notin seen.tags
         /\ schema.one => c.kidsMode # "Append" /\ Cardinality(c.kids) <= 1
    /\ c.kind = "saveKid" =>
         /\ c.new <=> c.id \notin DOMAIN seen.kids
         /\ c.owner \in Parents => (c.ownerNew <=> c.owner \notin seen.parents)
         /\ c.owner = NoParent \/ (c.new /\ c.owner = "NotSet") => schema.nullable

NewKids == IF call.kind = "save" THEN {i.id : i \in {j \in call.kids : j.new}}
           ELSE IF call.kind = "saveKid" /\ call.new THEN {call.id} ELSE {}

Begin(c) ==
    /\ at = "idle" /\ Fits(c)
    /\ call' = c
    /\ NewKids' \cap DOMAIN db.kids = {}
    /\ at' = CASE c.kind = "save"    -> "row"
               [] c.kind = "saveKid" -> "owner"
               [] c.kind = "delete"  -> "find"
    /\ UNCHANGED <<schema, seen, db, work, left, toLink, touched, others>>

\* A new row is inserted though no column is set.
Row ==
    /\ at = "row" /\ call.kind = "save"
    /\ IF ~call.new /\ ~call.changed THEN Goes(work, "find", {})
       ELSE IF ~Writes(call.new, call.id \in work.parents) THEN Abort("constraint")
       ELSE Goes([work EXCEPT !.parents = @ \cup {call.id}], "find", {})

\* Kids that are there and not in the model (find goes by primary key).
Leavers ==
    IF call.kind = "delete" THEN OfParent(work, call.id)
    ELSE IF call.kidsMode = "Replace" THEN OfParent(work, call.id) \ Ids(call.kids) ELSE {}

FindKids == at = "find" /\ Goes(work, "drop", Leavers)

\* delete_associated_model: cleared where the key may be null, else deleted.
Drop(k) ==
    /\ at = "drop" /\ k \in left
    /\ IF ~schema.nullable THEN Goes(WithoutKids(work, {k}), "drop", left \ {k})
       ELSE IF k \in DOMAIN work.kids
       THEN Goes(WithKid(work, k, NoParent), "drop", left \ {k})
       ELSE Abort("constraint")

Changed(i) == i.new \/ i.changed \/ Known(i.id) # call.id

Kid(i) ==
    /\ at = "kids" /\ i \in left
    /\ IF ~Changed(i) THEN Goes(work, "kids", left \ {i})
       ELSE IF Writes(i.new, i.id \in DOMAIN work.kids)
       THEN Goes(WithKid(work, i.id, Keyed(i.id, call.id)), "kids", left \ {i})
       ELSE Abort("constraint")

Tag(i) ==
    /\ at = "tags" /\ i \in left
    /\ IF ~i.new /\ ~i.changed THEN Goes(work, "tags", left \ {i})
       ELSE IF Writes(i.new, i.id \in work.tags)
       THEN Goes([work EXCEPT !.tags = @ \cup {i.id}], "tags", left \ {i})
       ELSE Abort("constraint")

\* establish_links reads the links it has to compare with: all of them are
\* replaced, or nothing but the read tells what is linked already.
\* Slip: a junction with a key of its own is not read.
LeftoverOfReplace == IF call.tagsMode = "Replace" THEN LinksOf(work, call.id) ELSE {}

Leftover ==
    IF call.tagsMode = "Replace" \/ (call.tags # {} /\ ~schema.keyed)
    THEN LinksOf(work, call.id) ELSE {}

FindLinks ==
    /\ at = "findLinks"
    /\ toLink' = Ids(call.tags) \ {l.tag : l \in Leftover}
    /\ left' = IF call.tagsMode = "Replace"
               THEN {l \in Leftover : l.tag \notin Ids(call.tags)} ELSE {}
    /\ at' = "dropLinks"
    /\ UNCHANGED <<schema, seen, db, work, call, touched, others>>

DropLinks ==
    /\ at = "dropLinks"
    /\ Goes([work EXCEPT !.links = @ \ left], "link", {})

\* insert, on conflict do nothing; a junction with a key of its own has no conflict.
Linked(d, p, ts) ==
    {[parent |-> p, tag |-> t, n |-> IF [parent |-> p, tag |-> t, n |-> 1] \in d.links THEN 2 ELSE 1]
        : t \in IF schema.keyed THEN ts \ {l.tag : l \in LinksOf(d, p)} ELSE ts}

Link ==
    /\ at = "link"
    /\ Goes([work EXCEPT !.links = @ \cup Linked(work, call.id, toLink)], "commit", {})

\* A kid is saved after the parent it belongs to.
Owner ==
    /\ at = "owner"
    /\ IF call.owner \notin Parents \/ ~(call.ownerNew \/ call.changed) THEN Goes(work, "row", {})
       ELSE IF Writes(call.ownerNew, call.owner \in work.parents)
       THEN Goes([work EXCEPT !.parents = @ \cup {call.owner}], "row", {})
       ELSE Abort("constraint")

OwnKey ==
    CASE call.owner = "NotSet" -> Keyed(call.id, Known(call.id))
      [] call.owner = NoParent -> NoParent      \* Set(None), whatever was there
      [] OTHER -> Keyed(call.id, call.owner)

OwnChanged ==
    \/ call.new \/ call.changed \/ call.owner = NoParent
    \/ call.owner \notin {"NotSet", Known(call.id)}

KidRow ==
    /\ at = "row" /\ call.kind = "saveKid"
    /\ IF ~OwnChanged THEN Goes(work, "commit", {})
       ELSE IF Writes(call.new, call.id \in DOMAIN work.kids)
       THEN Goes(WithKid(work, call.id, OwnKey), "commit", {})
       ELSE Abort("constraint")

\* delete: the kids have gone, then the links, then the row.
UnlinkAll ==
    /\ at = "unlink"
    /\ Goes([work EXCEPT !.links = @ \ LinksOf(work, call.id)], "dropRow", {})

DropRow ==
    /\ at = "dropRow"
    /\ Goes([work EXCEPT !.parents = @ \ {call.id}], "commit", {})

\* On to the next relation.  Slip: the row goes before the links do.
AfterKidsEarly == IF call.kind = "delete" THEN "dropRow" ELSE "kids"

AfterKids == IF call.kind = "delete" THEN "unlink" ELSE "kids"

Turn ==
    /\ left = {}
    /\ \/ at = "drop" /\ Goes(work, AfterKids, IF AfterKids = "kids" THEN call.kids ELSE {})
       \/ at = "kids" /\ Goes(work, "tags", call.tags)
       \/ at = "tags" /\ Goes(work, "findLinks", {})

Commit ==
    /\ at = "commit"
    /\ db' = work /\ at' = "ok" /\ left' = {} /\ toLink' = {}
    /\ UNCHANGED <<schema, seen, work, call, touched, others>>

(***************************************************************************)
(* Other connections, one statement at a time.  A row the transaction has  *)
(* written is locked: they wait.                                           *)
(***************************************************************************)
Other(d, w, what) ==
    /\ at \notin Done \ {"idle"} /\ others < MaxOthers
    /\ Consistent(d) /\ Consistent(w)
    /\ db' = d /\ work' = w
    /\ touched' = touched \cup what /\ others' = others + 1
    /\ UNCHANGED <<schema, seen, call, at, left, toLink>>

KidUnlocked(k) == k \in DOMAIN db.kids /\ k \in DOMAIN work.kids /\ db.kids[k] = work.kids[k]

PutKid(k, p) ==
    /\ \/ k \notin DOMAIN db.kids \cup DOMAIN work.kids \cup NewKids
       \/ KidUnlocked(k) /\ db.kids[k] # p
    /\ Other(WithKid(db, k, p), WithKid(work, k, p), {k})

TakeKid(k) ==
    /\ KidUnlocked(k)
    /\ Other(WithoutKids(db, {k}), WithoutKids(work, {k}), {k})

PutLink(p, t) ==
    /\ \A l \in LinksOf(db, p) \cup LinksOf(work, p) : l.tag # t
    /\ Other([db EXCEPT !.links = @ \cup Linked(db, p, {t})],
             [work EXCEPT !.links = @ \cup Linked(work, p, {t})], {<<p, t>>})

TakeLink(l) ==
    /\ l \in db.links \cap work.links
    /\ Other([db EXCEPT !.links = @ \ {l}], [work EXCEPT !.links = @ \ {l}],
             {<<l.parent, l.tag>>})

Next ==
    \/ \E c \in Calls : Begin(c)
    \/ Row \/ FindKids \/ FindLinks \/ DropLinks \/ Link \/ Owner \/ KidRow
    \/ UnlinkAll \/ DropRow \/ Turn \/ Commit \/ Fails
    \/ \E i \in left : Drop(i) \/ Kid(i) \/ Tag(i)
    \/ \E k \in Kids : TakeKid(k) \/ \E p \in Parents \cup {NoParent} : PutKid(k, p)
    \/ \E p \in Parents, t \in Tags : PutLink(p, t)
    \/ \E l \in Links : TakeLink(l)

Spec == Init /\ [][Next]_vars

(***************************************************************************)
(* Safety.                                                                 *)
(***************************************************************************)
\* What a call asks for of the database its model was loaded from: kids it takes
\* from its parent, kids it saves and their keys, and what is to be there then.
Going ==
    CASE call.kind = "delete" -> OfParent(seen, call.id)
      [] call.kind = "save" /\ call.kidsMode = "Replace" -> OfParent(seen, call.id) \ Ids(call.kids)
      [] OTHER -> {}

Mine ==
    CASE call.kind = "save" -> Ids(call.kids)
      [] call.kind = "saveKid" -> {call.id}
      [] OTHER -> {}

KeyOf(k) == IF call.kind = "save" THEN call.id
            ELSE IF call.owner = "NotSet" THEN Known(k) ELSE call.owner

\* Kids that are left without a parent and not deleted.  ActiveHasMany documents
\* of Replace that it is "deleting any existing children that are not in the list"
\* (active_model_ex.rs, 56); where the foreign key may be null the code clears it
\* instead (clear_parent_key), and this is the exception from what is documented.
\* Nothing is documented of the kids of a parent that is deleted, who are treated
\* in the same way.
Orphaned == IF schema.nullable THEN Going ELSE {}

WantedKids ==
    [k \in (DOMAIN seen.kids \cup Mine) \ (Going \ Orphaned) |->
        IF k \in Mine THEN KeyOf(k) ELSE IF k \in Orphaned THEN NoParent ELSE seen.kids[k]]

WantedParents ==
    CASE call.kind = "save" -> seen.parents \cup {call.id}
      [] call.kind = "saveKid" -> seen.parents \cup ({call.owner} \cap Parents)
      [] call.kind = "delete" -> seen.parents \ {call.id}
      [] OTHER -> seen.parents

WantedTags(p) ==
    LET is == {l.tag : l \in LinksOf(seen, p)} IN
    IF call.kind = "saveKid" \/ p # call.id THEN is
    ELSE IF call.kind = "delete" THEN {}
    ELSE IF call.tagsMode = "Replace" THEN Ids(call.tags) ELSE is \cup Ids(call.tags)

SameKid(f, g, k) == (k \in DOMAIN f <=> k \in DOMAIN g) /\ (k \in DOMAIN g => f[k] = g[k])

\* The rows that link p and t.
Pair(d, p, t) == {l \in LinksOf(d, p) : l.tag = t}

\* A call that ends well has done what it was asked to every row that nobody
\* else wrote since its model was loaded: the kids and the tags of the model
\* are the parent's and, where they replace, they are all: the other kids are
\* deleted, but for those that are Orphaned; no tag is linked
\* once more than it was, nothing of another parent's changes hands; no parent
\* comes or goes but the one that is saved or deleted.
SavedAsAsked ==
    at = "ok" =>
        /\ \A k \in Kids \ touched : SameKid(db.kids, WantedKids, k)
        /\ \A p \in Parents, t \in Tags : <<p, t>> \notin touched =>
              /\ Pair(db, p, t) # {} <=> t \in WantedTags(p)
              /\ Cardinality(Pair(db, p, t)) > 1 => Cardinality(Pair(seen, p, t)) > 1
        /\ db.parents = WantedParents

\* A row that the action does not fit: one to insert that is there, one to
\* update that is not.
Misfit(new) == call.action = (IF new THEN "Update" ELSE "Insert")

\* The kid takes a place that is taken.
Taken ==
    schema.one /\ call.owner \in Parents /\ OfParent(seen, call.owner) \ {call.id} # {}

Mistaken ==
    \/ /\ call.kind = "save"
       /\ \/ (call.new \/ call.changed) /\ Misfit(call.new)
          \/ \E i \in call.kids : Changed(i) /\ Misfit(i.new)
          \/ \E i \in call.tags : (i.new \/ i.changed) /\ Misfit(i.new)
    \/ /\ call.kind = "saveKid"
       /\ \/ OwnChanged /\ Misfit(call.new)
          \/ call.owner \in Parents /\ (call.ownerNew \/ call.changed) /\ Misfit(call.ownerNew)
          \/ Taken

\* A call nobody disturbs ends well, unless its action does not fit a row it
\* has to write or the kid takes a place that is taken: the order of its own
\* statements never runs into a foreign key.
CallsStandAlone ==
    touched = {} /\ at \in {"ok", "constraint"} => (at = "ok" <=> ~Mistaken)
=============================================================================
