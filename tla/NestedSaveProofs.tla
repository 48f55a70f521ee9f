-------------------------- MODULE NestedSaveProofs --------------------------
(***************************************************************************)
(* Proofs about NestedSave.  At says, row by row, whether the call has     *)
(* come to it: the rows that nobody else wrote are as the program saw      *)
(* them, or as the call wants them.  From it follow what a call that ends  *)
(* well has done and, where nobody else wrote at all, that none of its     *)
(* statements meets a key.                                                 *)
(*                                                                         *)
(* The second half is about Relations: what is written, read back.  Each   *)
(* way to read is first described as the rows it gives, each once, and     *)
(* then compared with the database.                                        *)
(***************************************************************************)
EXTENDS Relations, FiniteSetTheorems, WellFoundedInduction, TLAPS

(***************************************************************************)
(* Where a call is, and what it still has to do there.                     *)
(***************************************************************************)
Places == [save    |-> {"row", "find", "drop", "kids", "tags", "findLinks", "dropLinks", "link",
                        "commit"},
           saveKid |-> {"owner", "row", "commit"},
           delete  |-> {"find", "drop", "unlink", "dropRow", "commit"}]

Failed == {"constraint", "connection"}

\* The items a call has to do in a place.
LeftFits(place, items) ==
    CASE place = "drop"      -> items \subseteq Kids
      [] place = "kids"      -> items \subseteq call.kids
      [] place = "tags"      -> items \subseteq call.tags
      [] place = "dropLinks" -> \A l \in items : l.parent = call.id /\ l.tag \notin Ids(call.tags)
      [] OTHER               -> items = {}

PlaceInv ==
    /\ IF call = NoCall THEN at = "idle"
       ELSE Fits(call) /\ at \in Places[call.kind] \cup Failed \cup {"ok"}
    /\ LeftFits(at, left)
    /\ at \in {"dropLinks", "link"} => toLink \subseteq Ids(call.tags)

(***************************************************************************)
(* What a call has done to the rows that nobody else wrote.                *)
(***************************************************************************)
Unbegun == {"idle", "owner", "row", "find"} \cup Failed

\* The call has not come to the kid.
KidWaits(place, items, k) ==
    \/ place \in Unbegun
    \/ place = "drop" /\ k \in items \cup Mine
    \/ place = "kids" /\ k \in Ids(items)

KidAt(place, d, items, k) ==
    /\ SameKid(d.kids, IF KidWaits(place, items, k) THEN seen.kids ELSE WantedKids, k)
    /\ place = "drop" /\ k \in items => k \in Going

Replaced(p, t) == p = call.id /\ call.tagsMode = "Replace" /\ t \notin Ids(call.tags)

\* Where the call reads the links that are there, it links none again.
Unmet(p, t) ==
    /\ t \in Ids(call.tags)
    /\ call.tagsMode = "Replace" \/ ~schema.keyed => Pair(seen, p, t) = {}

PairAt(place, d, items, p, t) ==
    /\ CASE place = "link" -> Pair(d, p, t) = IF Replaced(p, t) THEN {} ELSE Pair(seen, p, t)
         [] place \in {"dropRow", "commit", "ok"} ->
               /\ Pair(d, p, t) # {} <=> t \in WantedTags(p)
               /\ Pair(d, p, t) \in {Pair(seen, p, t), {}, {[parent |-> p, tag |-> t, n |-> 1]}}
         [] OTHER -> Pair(d, p, t) = Pair(seen, p, t)
    /\ place \in {"dropLinks", "link"} /\ p = call.id => (t \in toLink <=> Unmet(p, t))
    /\ place = "dropLinks" => \A l \in Pair(seen, p, t) : l \in items <=> Replaced(p, t)

\* Nobody else writes parents and tags.
RowsAt(place, d, items) ==
    /\ d.parents = IF \/ place \in {"idle", "owner"} \cup Failed
                      \/ place = "row" /\ call.kind = "save"
                      \/ place \in {"find", "drop", "unlink", "dropRow"} /\ call.kind = "delete"
                   THEN seen.parents ELSE WantedParents
    /\ call.kind = "save" /\ place \notin Unbegun \cup {"drop", "kids"} =>
          Ids(IF place = "tags" THEN call.tags \ items ELSE call.tags) \subseteq d.tags
    /\ place \in Unbegun \cup {"drop", "kids"} => d.tags = seen.tags
    /\ place = "tags" => \A i \in items : i.id \in d.tags <=> i.id \in seen.tags

At(place, d, items) ==
    /\ \A k \in Kids \ touched : KidAt(place, d, items, k)
    /\ \A p \in Parents, t \in Tags : <<p, t>> \notin touched => PairAt(place, d, items, p, t)
    /\ RowsAt(place, d, items)

\* Before the commit, what is committed is what the program saw, or others wrote.
SeenInv ==
    at # "ok" => /\ \A k \in Kids \ touched : SameKid(db.kids, seen.kids, k)
                 /\ \A p \in Parents, t \in Tags :
                       <<p, t>> \notin touched => Pair(db, p, t) = Pair(seen, p, t)
                 /\ db.parents = seen.parents /\ db.tags = seen.tags

WorkInv == At(at, work, left)

(***************************************************************************)
(* A call that nobody disturbs has fitted every row so far.                *)
(***************************************************************************)
FitAt(place, items) ==
    CASE call.kind = "save" ->
            /\ place # "row" /\ (call.new \/ call.changed) => ~Misfit(call.new)
            /\ place \notin Unbegun \cup {"drop"} =>
                  \A i \in call.kids : (place = "kids" => i \notin items) /\ Changed(i) => ~Misfit(i.new)
            /\ place \notin Unbegun \cup {"drop", "kids"} =>
                  \A i \in call.tags :
                     (place = "tags" => i \notin items) /\ (i.new \/ i.changed) => ~Misfit(i.new)
      [] call.kind = "saveKid" ->
            /\ place # "owner" /\ call.owner \in Parents /\ (call.ownerNew \/ call.changed) =>
                  ~Misfit(call.ownerNew)
            /\ place \in {"commit", "ok"} => (OwnChanged => ~Misfit(call.new)) /\ ~Taken
      [] OTHER -> TRUE

FitInv ==
    touched = {} => /\ at = "constraint" => Mistaken
                    /\ at \notin Failed => FitAt(at, left)

Inv == TypeOK /\ PlaceInv /\ SeenInv /\ WorkInv

(***************************************************************************)
(* Calls and databases.                                                    *)
(***************************************************************************)
LEMMA AtMostOne ==
    ASSUME NEW S, IsFiniteSet(S)
    PROVE  Cardinality(S) <= 1 <=> \A a, b \in S : a = b
<1>0. Cardinality(S) \in Nat
  BY FS_CardinalityType
<1>1. ASSUME Cardinality(S) <= 1, NEW a \in S, NEW b \in S
      PROVE  a = b
  <2>1. Cardinality(S) = 1
    BY <1>0, <1>1, FS_EmptySet
  <2> QED BY <2>1, FS_Singleton
<1>2. ASSUME \A a, b \in S : a = b
      PROVE  Cardinality(S) <= 1
  <2>1. CASE S = {}
    BY <2>1, FS_EmptySet
  <2>2. CASE S # {}
    <3>1. PICK a : S = {a}
      BY <1>2, <2>2
    <3> QED BY <3>1, FS_Singleton
  <2> QED BY <2>1, <2>2
<1> QED BY <1>1, <1>2

LEMMA CallIs ==
    ASSUME NEW c \in Calls
    PROVE  /\ c # NoCall /\ c.kind \in {"save", "saveKid", "delete"}
           /\ c.action \in Actions
           /\ c.kind = "save" =>
                 /\ c.id \in Parents /\ c.new \in BOOLEAN /\ c.changed \in BOOLEAN
                 /\ c.kidsMode \in Modes /\ c.tagsMode \in Modes
                 /\ c.kids \in SUBSET Item(Kids) /\ c.tags \in SUBSET Item(Tags)
                 /\ OneEach(c.kidsMode, c.kids) /\ OneEach(c.tagsMode, c.tags)
           /\ c.kind = "saveKid" =>
                 /\ c.id \in Kids /\ c.new \in BOOLEAN /\ c.changed \in BOOLEAN
                 /\ c.owner \in Parents \cup {NoParent, "NotSet"} /\ c.ownerNew \in BOOLEAN
           /\ c.kind = "delete" => c.id \in Parents /\ c.action = "Save"
<1>1. c \in Call
  BY NestedSaveAssumption
<1>2. c.kind = "save" => OneEach(c.kidsMode, c.kids) /\ OneEach(c.tagsMode, c.tags)
  BY NestedSaveAssumption
<1>3. CASE c \in [kind : {"save"}, id : Parents, new : BOOLEAN, changed : BOOLEAN,
                  action : Actions, kidsMode : Modes, kids : SUBSET Item(Kids),
                  tagsMode : Modes, tags : SUBSET Item(Tags)]
  BY <1>2, <1>3 DEF NoCall
<1>4. CASE c \in [kind : {"saveKid"}, id : Kids, new : BOOLEAN, changed : BOOLEAN,
                  action : Actions, owner : Parents \cup {NoParent, "NotSet"},
                  ownerNew : BOOLEAN]
  BY <1>4 DEF NoCall
<1>5. CASE c \in [kind : {"delete"}, id : Parents, action : {"Save"}]
  BY <1>5 DEF NoCall, Actions
<1> QED BY <1>1, <1>3, <1>4, <1>5 DEF Call

LEMMA ItemsHaveIds ==
    ASSUME NEW X, NEW items \in SUBSET Item(X)
    PROVE  Ids(items) \subseteq X /\ \A i \in items : i.id \in X /\ i.new \in BOOLEAN
                                                      /\ i.changed \in BOOLEAN
BY DEF Item, Ids

LEMMA DatabaseIs ==
    ASSUME NEW d \in Database
    PROVE  /\ d.parents \subseteq Parents /\ d.tags \subseteq Tags /\ d.links \subseteq Links
           /\ DOMAIN d.kids \subseteq Kids
           /\ d.kids \in [DOMAIN d.kids -> Parents \cup {NoParent}]
<1>1. d.kids \in UNION {[ks -> Parents \cup {NoParent}] : ks \in SUBSET Kids}
  BY DEF Database
<1>2. PICK ks \in SUBSET Kids : d.kids \in [ks -> Parents \cup {NoParent}]
  BY <1>1
<1> QED BY <1>2 DEF Database

LEMMA KidsAre ==
    ASSUME NEW f, NEW ks \in SUBSET Kids, f \in [ks -> Parents \cup {NoParent}]
    PROVE  f \in UNION {[js -> Parents \cup {NoParent}] : js \in SUBSET Kids}
OBVIOUS

\* What the server checks, without counting.
LEMMA ConsistentMeans ==
    ASSUME NEW d \in Database
    PROVE  Consistent(d) <=>
              /\ \A k \in DOMAIN d.kids :
                    IF d.kids[k] = NoParent THEN schema.nullable ELSE d.kids[k] \in d.parents
              /\ schema.one => \A j, k \in DOMAIN d.kids :
                                  d.kids[j] = d.kids[k] /\ d.kids[j] # NoParent => j = k
              /\ \A l \in d.links : l.parent \in d.parents /\ l.tag \in d.tags
<1>1. \A p : IsFiniteSet(OfParent(d, p))
  BY DatabaseIs, FS_Subset, NestedSaveAssumption DEF OfParent
<1>2. \A p : Cardinality(OfParent(d, p)) <= 1 <=> \A a, b \in OfParent(d, p) : a = b
  BY <1>1, AtMostOne
<1>3. (\A p \in Parents : Cardinality(OfParent(d, p)) <= 1)
      <=> \A j, k \in DOMAIN d.kids : d.kids[j] = d.kids[k] /\ d.kids[j] # NoParent => j = k
  <2>1. ASSUME \A p \in Parents : Cardinality(OfParent(d, p)) <= 1,
               NEW j \in DOMAIN d.kids, NEW k \in DOMAIN d.kids,
               d.kids[j] = d.kids[k], d.kids[j] # NoParent
        PROVE  j = k
    <3>1. d.kids[j] \in Parents
      BY <2>1, DatabaseIs
    <3>2. j \in OfParent(d, d.kids[j]) /\ k \in OfParent(d, d.kids[j])
      BY <2>1 DEF OfParent
    <3> QED BY <1>2, <2>1, <3>1, <3>2
  <2>2. ASSUME \A j, k \in DOMAIN d.kids :
                  d.kids[j] = d.kids[k] /\ d.kids[j] # NoParent => j = k,
               NEW p \in Parents
        PROVE  Cardinality(OfParent(d, p)) <= 1
    <3>1. \A a, b \in OfParent(d, p) : a = b
      BY <2>2, NestedSaveAssumption DEF OfParent
    <3> QED BY <1>2, <3>1
  <2> QED BY <2>1, <2>2
<1> QED BY <1>3 DEF Consistent, Allows

LEMMA PutKidIs ==
    ASSUME NEW d \in Database, NEW k \in Kids, NEW p \in Parents \cup {NoParent}
    PROVE  /\ WithKid(d, k, p) \in Database
           /\ DOMAIN WithKid(d, k, p).kids = DOMAIN d.kids \cup {k}
           /\ WithKid(d, k, p).kids[k] = p
           /\ \A j \in DOMAIN d.kids : j # k => WithKid(d, k, p).kids[j] = d.kids[j]
           /\ WithKid(d, k, p).parents = d.parents /\ WithKid(d, k, p).tags = d.tags
           /\ WithKid(d, k, p).links = d.links
<1> DEFINE f == [i \in DOMAIN d.kids \cup {k} |-> IF i = k THEN p ELSE d.kids[i]]
<1>1. WithKid(d, k, p) = [d EXCEPT !.kids = f]
  BY DEF WithKid
<1>2. f \in [DOMAIN d.kids \cup {k} -> Parents \cup {NoParent}]
  BY DatabaseIs
<1>3. f \in UNION {[js -> Parents \cup {NoParent}] : js \in SUBSET Kids}
  BY <1>2, DatabaseIs, KidsAre
<1>4. /\ DOMAIN f = DOMAIN d.kids \cup {k} /\ f[k] = p
      /\ \A j \in DOMAIN d.kids : j # k => f[j] = d.kids[j]
  OBVIOUS
<1> HIDE DEF f
<1>5. /\ [d EXCEPT !.kids = f] \in Database
      /\ [d EXCEPT !.kids = f].kids = f
      /\ [d EXCEPT !.kids = f].parents = d.parents
      /\ [d EXCEPT !.kids = f].tags = d.tags
      /\ [d EXCEPT !.kids = f].links = d.links
  BY <1>3 DEF Database
<1> QED BY <1>1, <1>4, <1>5

LEMMA TakeKidsIs ==
    ASSUME NEW d \in Database, NEW ks
    PROVE  /\ WithoutKids(d, ks) \in Database
           /\ DOMAIN WithoutKids(d, ks).kids = DOMAIN d.kids \ ks
           /\ \A j \in DOMAIN d.kids \ ks : WithoutKids(d, ks).kids[j] = d.kids[j]
           /\ WithoutKids(d, ks).parents = d.parents /\ WithoutKids(d, ks).tags = d.tags
           /\ WithoutKids(d, ks).links = d.links
<1> DEFINE f == [i \in DOMAIN d.kids \ ks |-> d.kids[i]]
<1>1. WithoutKids(d, ks) = [d EXCEPT !.kids = f]
  BY DEF WithoutKids
<1>2. f \in [DOMAIN d.kids \ ks -> Parents \cup {NoParent}]
  BY DatabaseIs
<1>3. f \in UNION {[js -> Parents \cup {NoParent}] : js \in SUBSET Kids}
  BY <1>2, DatabaseIs, KidsAre
<1>4. DOMAIN f = DOMAIN d.kids \ ks /\ \A j \in DOMAIN d.kids \ ks : f[j] = d.kids[j]
  OBVIOUS
<1> HIDE DEF f
<1>5. /\ [d EXCEPT !.kids = f] \in Database
      /\ [d EXCEPT !.kids = f].kids = f
      /\ [d EXCEPT !.kids = f].parents = d.parents
      /\ [d EXCEPT !.kids = f].tags = d.tags
      /\ [d EXCEPT !.kids = f].links = d.links
  BY <1>3 DEF Database
<1> QED BY <1>1, <1>4, <1>5

LEMMA WithParents ==
    ASSUME NEW d \in Database, NEW ps \in SUBSET Parents
    PROVE  /\ [d EXCEPT !.parents = ps] \in Database
           /\ [d EXCEPT !.parents = ps].parents = ps
           /\ [d EXCEPT !.parents = ps].tags = d.tags
           /\ [d EXCEPT !.parents = ps].kids = d.kids
           /\ [d EXCEPT !.parents = ps].links = d.links
BY DEF Database

LEMMA WithTags ==
    ASSUME NEW d \in Database, NEW ts \in SUBSET Tags
    PROVE  /\ [d EXCEPT !.tags = ts] \in Database
           /\ [d EXCEPT !.tags = ts].tags = ts
           /\ [d EXCEPT !.tags = ts].parents = d.parents
           /\ [d EXCEPT !.tags = ts].kids = d.kids
           /\ [d EXCEPT !.tags = ts].links = d.links
BY DEF Database

LEMMA WithLinks ==
    ASSUME NEW d \in Database, NEW ls \in SUBSET Links
    PROVE  /\ [d EXCEPT !.links = ls] \in Database
           /\ [d EXCEPT !.links = ls].links = ls
           /\ [d EXCEPT !.links = ls].parents = d.parents
           /\ [d EXCEPT !.links = ls].kids = d.kids
           /\ [d EXCEPT !.links = ls].tags = d.tags
BY DEF Database


LEMMA CallSame ==
    ASSUME call' = call, seen' = seen, schema' = schema
    PROVE  /\ Fits(call)' <=> Fits(call)
           /\ Going' = Going /\ Mine' = Mine /\ WantedKids' = WantedKids
           /\ WantedParents' = WantedParents /\ \A p : WantedTags(p)' = WantedTags(p)
           /\ \A p, t : /\ (Replaced(p, t)' <=> Replaced(p, t)) /\ (Unmet(p, t)' <=> Unmet(p, t))
                        /\ Pair(seen, p, t)' = Pair(seen, p, t)
           /\ \A i : Changed(i)' <=> Changed(i)
           /\ (OwnChanged' <=> OwnChanged) /\ (Taken' <=> Taken) /\ (Mistaken' <=> Mistaken)
           /\ \A n : Misfit(n)' <=> Misfit(n)
<1>1. Going' = Going /\ Mine' = Mine
  BY DEF Going, Mine, OfParent, Ids
<1>2. WantedKids' = WantedKids
  BY <1>1 DEF WantedKids, Orphaned, KeyOf, Known
<1>3. WantedParents' = WantedParents /\ \A p : WantedTags(p)' = WantedTags(p)
  BY DEF WantedParents, WantedTags, LinksOf, Ids
<1>4. \A i : Changed(i)' <=> Changed(i)
  BY DEF Changed, Known
<1>5. (OwnChanged' <=> OwnChanged) /\ (Taken' <=> Taken) /\ \A n : Misfit(n)' <=> Misfit(n)
  BY DEF OwnChanged, Taken, Misfit, Known, OfParent
<1>6. Mistaken' <=> Mistaken
  BY <1>4, <1>5 DEF Mistaken
<1>7. Fits(call)' <=> Fits(call)
  BY DEF Fits
<1>8. \A p, t : /\ (Replaced(p, t)' <=> Replaced(p, t)) /\ (Unmet(p, t)' <=> Unmet(p, t))
               /\ Pair(seen, p, t)' = Pair(seen, p, t)
  BY DEF Replaced, Unmet, Pair, LinksOf, Ids
<1> QED BY <1>1, <1>2, <1>3, <1>4, <1>5, <1>6, <1>7, <1>8

LEMMA WantedIs ==
    ASSUME TypeOK, NEW k
    PROVE  /\ k \in Mine => k \in DOMAIN WantedKids /\ WantedKids[k] = KeyOf(k)
           /\ k \in Going => /\ k \notin Mine /\ k \in DOMAIN seen.kids
                             /\ k \in DOMAIN WantedKids <=> schema.nullable
                             /\ schema.nullable => WantedKids[k] = NoParent
           /\ k \notin Mine \cup Going => SameKid(WantedKids, seen.kids, k)
<1>1. k \in Going => k \notin Mine /\ k \in DOMAIN seen.kids
  <2>1. call.kind = "save" => call.kind # "delete" /\ call.kind # "saveKid"
    OBVIOUS
  <2> QED BY <2>1 DEF Going, Mine, OfParent
<1>2. DOMAIN WantedKids = (DOMAIN seen.kids \cup Mine) \ (Going \ Orphaned)
  BY DEF WantedKids
<1>3. k \in DOMAIN WantedKids => WantedKids[k] = IF k \in Mine THEN KeyOf(k)
                                                ELSE IF k \in Orphaned THEN NoParent ELSE seen.kids[k]
  BY DEF WantedKids
<1> QED BY <1>1, <1>2, <1>3 DEF SameKid, Orphaned

(***************************************************************************)
(* Steps.  A statement moves the call on, or it ends.                      *)
(***************************************************************************)
Moves(d, next, items) ==
    /\ Consistent(d) /\ work' = d /\ at' = next /\ left' = items
    /\ UNCHANGED <<schema, seen, db, call, toLink, touched, others>>

LEMMA GoesIs ==
    ASSUME NEW d, NEW next, NEW items, Goes(d, next, items)
    PROVE  Moves(d, next, items) \/ (~Consistent(d) /\ Abort("constraint"))
BY DEF Goes, Moves

LEMMA MovesTypes ==
    ASSUME TypeOK, NEW d \in Database, OnePerKey(schema, d), NEW next, next \notin Done, NEW items,
           Moves(d, next, items)
    PROVE  TypeOK'
<1>2. d \in Database /\ OnePerKey(schema, d) /\ Consistent(d)
  BY DEF Moves
<1>3. \A e \in {seen, db, d} : e \in Database /\ OnePerKey(schema, e) /\ Consistent(e)
  BY <1>2 DEF TypeOK
<1>4. \A e \in {seen', db', work'} : e \in Database /\ OnePerKey(schema, e)' /\ Consistent(e)'
  BY <1>3 DEF Moves, OnePerKey, Consistent, Allows, OfParent
<1> QED BY <1>4 DEF TypeOK, Moves

LEMMA AbortTypes ==
    ASSUME TypeOK, NEW why, Abort(why)
    PROVE  TypeOK'
<1>1. \A e \in {seen, db} : e \in Database /\ OnePerKey(schema, e) /\ Consistent(e)
  BY DEF TypeOK
<1>2. \A e \in {seen', db', work'} : e \in Database /\ OnePerKey(schema, e)' /\ Consistent(e)'
  BY <1>1 DEF Abort, OnePerKey, Consistent, Allows, OfParent
<1> QED BY <1>2 DEF TypeOK, Abort

LEMMA AbortPlace ==
    ASSUME TypeOK, PlaceInv, at \notin Done, NEW why \in Failed, Abort(why)
    PROVE  PlaceInv'
<1>1. call # NoCall
  BY DEF PlaceInv, Done
<1>2. Fits(call)'
  BY <1>1, CallSame DEF PlaceInv, Abort
<1> QED BY <1>1, <1>2 DEF PlaceInv, LeftFits, Abort, Failed

\* A statement leaves the call in one of its places.
LEMMA MovesPlace ==
    ASSUME TypeOK, PlaceInv, NEW d, NEW next, NEW items, Moves(d, next, items), at \notin Done,
           next \in Places[call.kind], LeftFits(next, items),
           next \in {"dropLinks", "link"} => at = "dropLinks"
    PROVE  PlaceInv'
<1>1. call # NoCall
  BY DEF PlaceInv, Done
<1>2. Fits(call)'
  BY <1>1, CallSame DEF PlaceInv, Moves
<1>3. LeftFits(next, items)'
  BY DEF LeftFits, Moves, Ids
<1>4. next \in {"dropLinks", "link"} => (toLink \subseteq Ids(call.tags))'
  BY DEF PlaceInv, Moves, Ids
<1> QED BY <1>1, <1>2, <1>3, <1>4 DEF PlaceInv, Moves


LEMMA KindAt ==
    ASSUME TypeOK, PlaceInv, at \notin Done
    PROVE  /\ call \in Calls /\ Fits(call) /\ at \in Places[call.kind]
           /\ call.kind \in {"save", "saveKid", "delete"}
           /\ at \in {"kids", "tags", "findLinks", "dropLinks", "link"} => call.kind = "save"
           /\ at \in {"find", "drop"} => call.kind \in {"save", "delete"}
           /\ at \in {"unlink", "dropRow"} => call.kind = "delete"
           /\ at = "owner" => call.kind = "saveKid"
           /\ at = "row" => call.kind \in {"save", "saveKid"}
<1>1. call \in Calls /\ call # NoCall /\ Fits(call) /\ at \in Places[call.kind]
  <2>1. call # NoCall
    BY DEF PlaceInv, Done
  <2> QED BY <2>1 DEF PlaceInv, TypeOK, Failed, Done
<1>2. call.kind \in {"save", "saveKid", "delete"}
  BY <1>1, CallIs
<1> QED BY <1>1, <1>2 DEF Places

LEMMA WorkIs ==
    ASSUME TypeOK
    PROVE  /\ \A d \in {seen, db, work} : d \in Database /\ OnePerKey(schema, d) /\ Consistent(d)
           /\ work.parents \subseteq Parents /\ work.tags \subseteq Tags
           /\ work.links \subseteq Links /\ DOMAIN work.kids \subseteq Kids
<1>1. \A d \in {seen, db, work} : d \in Database /\ OnePerKey(schema, d) /\ Consistent(d)
  BY DEF TypeOK
<1>2. work \in Database
  BY <1>1
<1> QED BY <1>1, <1>2, DatabaseIs

\* The call goes on, or ends with an error.
LEMMA OnOrOver ==
    ASSUME TypeOK, PlaceInv, at \notin Done, NEW d, NEW next, NEW items, Goes(d, next, items),
           d \in Database, OnePerKey(schema, d),
           next \in Places[call.kind], LeftFits(next, items),
           next \in {"dropLinks", "link"} => at = "dropLinks"
    PROVE  TypeOK' /\ PlaceInv'
<1>1. CASE Moves(d, next, items)
  <2>1. next \notin Done
    BY KindAt DEF Places, Done
  <2> QED BY <1>1, <2>1, MovesTypes, MovesPlace
<1>2. CASE Abort("constraint")
  BY <1>2, AbortTypes, AbortPlace DEF Failed
<1> QED BY <1>1, <1>2, GoesIs

LEMMA Refuses ==
    ASSUME TypeOK, PlaceInv, at \notin Done, Abort("constraint")
    PROVE  TypeOK' /\ PlaceInv'
BY AbortTypes, AbortPlace DEF Failed

LEMMA RowKeeps ==
    ASSUME TypeOK, PlaceInv, Row
    PROVE  TypeOK' /\ PlaceInv'
<1>0. at = "row" /\ call.kind = "save" /\ at \notin Done
  BY DEF Row, Done
<1>1. call \in Calls /\ call.id \in Parents
  BY <1>0, KindAt, CallIs
<1>2. "find" \in Places[call.kind] /\ LeftFits("find", {})
  BY <1>0 DEF Places, LeftFits
<1>3. work \in Database /\ OnePerKey(schema, work)
  BY WorkIs
<1> DEFINE d == [work EXCEPT !.parents = @ \cup {call.id}]
<1>4. d \in Database /\ OnePerKey(schema, d)
  <2>1. work.parents \cup {call.id} \in SUBSET Parents
    BY <1>1, WorkIs
  <2> QED BY <1>3, <2>1, WithParents DEF OnePerKey
<1>5. Goes(work, "find", {}) \/ Abort("constraint") \/ Goes(d, "find", {})
  BY DEF Row
<1> HIDE DEF d
<1> QED BY <1>0, <1>2, <1>3, <1>4, <1>5, OnOrOver, Refuses

LEMMA FindKidsKeeps ==
    ASSUME TypeOK, PlaceInv, FindKids
    PROVE  TypeOK' /\ PlaceInv'
<1>0. at = "find" /\ at \notin Done
  BY DEF FindKids, Done
<1>1. Leavers \subseteq Kids
  BY WorkIs DEF Leavers, OfParent
<1>2. "drop" \in Places[call.kind] /\ LeftFits("drop", Leavers)
  BY <1>0, <1>1, KindAt DEF Places, LeftFits
<1>3. work \in Database /\ OnePerKey(schema, work)
  BY WorkIs
<1>4. Goes(work, "drop", Leavers)
  BY DEF FindKids
<1> QED BY <1>0, <1>2, <1>3, <1>4, OnOrOver

LEMMA DropKeeps ==
    ASSUME TypeOK, PlaceInv, NEW k \in left, Drop(k)
    PROVE  TypeOK' /\ PlaceInv'
<1>0. at = "drop" /\ at \notin Done
  BY DEF Drop, Done
<1>1. left \subseteq Kids /\ k \in Kids
  BY <1>0 DEF PlaceInv, LeftFits
<1>2. "drop" \in Places[call.kind] /\ LeftFits("drop", left \ {k})
  BY <1>0, <1>1, KindAt DEF Places, LeftFits
<1>3. work \in Database /\ OnePerKey(schema, work)
  BY WorkIs
<1>4. WithoutKids(work, {k}) \in Database /\ OnePerKey(schema, WithoutKids(work, {k}))
  BY <1>3, TakeKidsIs DEF OnePerKey
<1>5. WithKid(work, k, NoParent) \in Database /\ OnePerKey(schema, WithKid(work, k, NoParent))
  BY <1>1, <1>3, PutKidIs DEF OnePerKey
<1>6. \/ Goes(WithoutKids(work, {k}), "drop", left \ {k})
      \/ Goes(WithKid(work, k, NoParent), "drop", left \ {k})
      \/ Abort("constraint")
  BY DEF Drop
<1> QED BY <1>0, <1>2, <1>4, <1>5, <1>6, OnOrOver, Refuses

LEMMA KeyedIs ==
    ASSUME TypeOK, NEW k, NEW p \in Parents \cup {NoParent}
    PROVE  Keyed(k, p) \in Parents \cup {NoParent} /\ Known(k) \in Parents \cup {NoParent}
<1>1. \A d \in {seen, work} : k \in DOMAIN d.kids => d.kids[k] \in Parents \cup {NoParent}
  BY DatabaseIs, WorkIs
<1> QED BY <1>1 DEF Keyed, Known

LEMMA KidKeeps ==
    ASSUME TypeOK, PlaceInv, NEW i \in left, Kid(i)
    PROVE  TypeOK' /\ PlaceInv'
<1>0. at = "kids" /\ at \notin Done
  BY DEF Kid, Done
<1>1. call.kind = "save" /\ call \in Calls
  BY <1>0, KindAt
<1>2. left \subseteq call.kids /\ i.id \in Kids /\ call.id \in Parents
  BY <1>0, <1>1, CallIs, ItemsHaveIds DEF PlaceInv, LeftFits
<1>3. "kids" \in Places[call.kind] /\ LeftFits("kids", left \ {i})
  BY <1>1, <1>2 DEF Places, LeftFits
<1>4. work \in Database /\ OnePerKey(schema, work)
  BY WorkIs
<1> DEFINE d == WithKid(work, i.id, Keyed(i.id, call.id))
<1>5. d \in Database /\ OnePerKey(schema, d)
  BY <1>2, <1>4, PutKidIs, KeyedIs DEF OnePerKey
<1>6. Goes(work, "kids", left \ {i}) \/ Goes(d, "kids", left \ {i}) \/ Abort("constraint")
  BY DEF Kid
<1> HIDE DEF d
<1> QED BY <1>0, <1>3, <1>4, <1>5, <1>6, OnOrOver, Refuses

LEMMA TagKeeps ==
    ASSUME TypeOK, PlaceInv, NEW i \in left, Tag(i)
    PROVE  TypeOK' /\ PlaceInv'
<1>0. at = "tags" /\ at \notin Done
  BY DEF Tag, Done
<1>1. call.kind = "save" /\ call \in Calls
  BY <1>0, KindAt
<1>2. left \subseteq call.tags /\ i.id \in Tags
  BY <1>0, <1>1, CallIs, ItemsHaveIds DEF PlaceInv, LeftFits
<1>3. "tags" \in Places[call.kind] /\ LeftFits("tags", left \ {i})
  BY <1>1, <1>2 DEF Places, LeftFits
<1>4. work \in Database /\ OnePerKey(schema, work)
  BY WorkIs
<1> DEFINE d == [work EXCEPT !.tags = @ \cup {i.id}]
<1>5. d \in Database /\ OnePerKey(schema, d)
  <2>1. work.tags \cup {i.id} \in SUBSET Tags
    BY <1>2, WorkIs
  <2> QED BY <1>4, <2>1, WithTags DEF OnePerKey
<1>6. Goes(work, "tags", left \ {i}) \/ Goes(d, "tags", left \ {i}) \/ Abort("constraint")
  BY DEF Tag
<1> HIDE DEF d
<1> QED BY <1>0, <1>3, <1>4, <1>5, <1>6, OnOrOver, Refuses

LEMMA FindLinksKeeps ==
    ASSUME TypeOK, PlaceInv, FindLinks
    PROVE  TypeOK' /\ PlaceInv'
<1>0. at = "findLinks" /\ at \notin Done
  BY DEF FindLinks, Done
<1>1. call.kind = "save" /\ call \in Calls /\ Fits(call) /\ call # NoCall
  BY <1>0, KindAt, CallIs
<1>2. Ids(call.tags) \subseteq Tags
  BY <1>1, CallIs, ItemsHaveIds
<1>3. toLink' \subseteq Ids(call.tags)
  BY DEF FindLinks
<1>4. \A l \in left' : l.parent = call.id /\ l.tag \notin Ids(call.tags)
  BY DEF FindLinks, Leftover, LinksOf
<1>5. at' = "dropLinks" /\ call' = call /\ seen' = seen /\ schema' = schema
  BY DEF FindLinks
<1>6. Ids(call.tags)' = Ids(call.tags)
  BY <1>5 DEF Ids
<1>7. PlaceInv'
  <2>1. Fits(call)'
    BY <1>1, <1>5, CallSame
  <2>2. "dropLinks" \in Places[call.kind]
    BY <1>1 DEF Places
  <2>3. LeftFits(at, left)'
    BY <1>4, <1>5, <1>6 DEF LeftFits
  <2> QED BY <1>1, <1>3, <1>5, <1>6, <2>1, <2>2, <2>3 DEF PlaceInv
<1>8. TypeOK'
  <2>1. \A e \in {seen', db', work'} : e \in Database /\ OnePerKey(schema, e)' /\ Consistent(e)'
    BY DEF TypeOK, FindLinks, OnePerKey, Consistent, Allows, OfParent
  <2> QED BY <1>2, <1>3, <1>5, <2>1 DEF TypeOK, FindLinks, Done
<1> QED BY <1>7, <1>8

LEMMA DropLinksKeeps ==
    ASSUME TypeOK, PlaceInv, DropLinks
    PROVE  TypeOK' /\ PlaceInv'
<1>0. at = "dropLinks" /\ at \notin Done
  BY DEF DropLinks, Done
<1>1. "link" \in Places[call.kind] /\ LeftFits("link", {})
  BY <1>0, KindAt DEF Places, LeftFits
<1> DEFINE d == [work EXCEPT !.links = @ \ left]
<1>2. d \in Database /\ OnePerKey(schema, d)
  <2>1. work.links \ left \in SUBSET Links /\ work \in Database /\ OnePerKey(schema, work)
    BY WorkIs
  <2> QED BY <2>1, WithLinks DEF OnePerKey
<1>3. Goes(d, "link", {})
  BY DEF DropLinks
<1> HIDE DEF d
<1> QED BY <1>0, <1>1, <1>2, <1>3, OnOrOver

\* l links p and t, as the k-th.
KthLink(d, p, t, k, l) ==
    /\ l = [parent |-> p, tag |-> t, n |-> k]
    /\ k = 2 => [parent |-> p, tag |-> t, n |-> 1] \in d.links
    /\ schema.keyed => \A m \in LinksOf(d, p) : m.tag # t

LEMMA LinkedRow ==
    ASSUME NEW d, NEW p, NEW ts, NEW l \in Linked(d, p, ts)
    PROVE  \E t \in ts, k \in 1 .. 2 : KthLink(d, p, t, k, l)
<1>1. PICK t \in ts :
         /\ l = [parent |-> p, tag |-> t,
                 n |-> IF [parent |-> p, tag |-> t, n |-> 1] \in d.links THEN 2 ELSE 1]
         /\ schema.keyed => t \notin {m.tag : m \in LinksOf(d, p)}
  BY DEF Linked
<1>2. ASSUME NEW S, t \notin {m.tag : m \in S}
      PROVE  \A m \in S : m.tag # t
  BY <1>2
<1>3. schema.keyed => \A m \in LinksOf(d, p) : m.tag # t
  <2>1. schema.keyed => t \notin {m.tag : m \in LinksOf(d, p)}
    BY <1>1
  <2> QED BY <1>2, <2>1
<1>4. CASE [parent |-> p, tag |-> t, n |-> 1] \in d.links
  <2>1. l = [parent |-> p, tag |-> t, n |-> 2]
    BY <1>1, <1>4
  <2>2. KthLink(d, p, t, 2, l)
    BY <1>3, <1>4, <2>1 DEF KthLink
  <2> QED BY <2>2
<1>5. CASE [parent |-> p, tag |-> t, n |-> 1] \notin d.links
  <2>1. l = [parent |-> p, tag |-> t, n |-> 1]
    BY <1>1, <1>5
  <2>2. KthLink(d, p, t, 1, l)
    BY <1>3, <2>1 DEF KthLink
  <2> QED BY <2>2
<1> QED BY <1>4, <1>5

LEMMA NotLinked ==
    ASSUME NEW d, NEW p, NEW t, \A m \in LinksOf(d, p) : m.tag # t
    PROVE  [parent |-> p, tag |-> t, n |-> 1] \notin d.links
<1>1. [parent |-> p, tag |-> t, n |-> 1] \notin LinksOf(d, p)
  OBVIOUS
<1> QED BY <1>1 DEF LinksOf

\* A junction with a key gets no second link to a tag.
LEMMA LinkedIs ==
    ASSUME TypeOK, NEW d \in Database, NEW p \in Parents, NEW ts \in SUBSET Tags
    PROVE  /\ Linked(d, p, ts) \subseteq Links
           /\ \A l \in Linked(d, p, ts) : l.parent = p /\ l.tag \in ts
           /\ schema.keyed => \A l \in Linked(d, p, ts) : l.n = 1
<1>1. ASSUME NEW l \in Linked(d, p, ts)
      PROVE  l \in Links /\ l.parent = p /\ l.tag \in ts /\ (schema.keyed => l.n = 1)
  <2>0. PICK t \in ts, k \in 1 .. 2 : KthLink(d, p, t, k, l)
    BY LinkedRow
  <2>1. /\ l = [parent |-> p, tag |-> t, n |-> k]
        /\ k = 2 => [parent |-> p, tag |-> t, n |-> 1] \in d.links
        /\ schema.keyed => \A m \in LinksOf(d, p) : m.tag # t
    BY <2>0 DEF KthLink
  <2>2. l.parent = p /\ l.tag = t /\ l.n = k
    BY <2>1
  <2>3. l \in Links
    BY <2>1 DEF Links
  <2> QED BY <2>1, <2>2, <2>3, NotLinked
<1> QED BY <1>1

LEMMA LinkKeeps ==
    ASSUME TypeOK, PlaceInv, Link
    PROVE  TypeOK' /\ PlaceInv'
<1>0. at = "link" /\ at \notin Done
  BY DEF Link, Done
<1>1. call.kind = "save" /\ call \in Calls /\ call.id \in Parents
  BY <1>0, KindAt, CallIs
<1>2. "commit" \in Places[call.kind] /\ LeftFits("commit", {})
  BY <1>1 DEF Places, LeftFits
<1>3. work \in Database /\ OnePerKey(schema, work) /\ toLink \in SUBSET Tags
  BY WorkIs DEF TypeOK
<1> DEFINE new == Linked(work, call.id, toLink)
<1> DEFINE d == [work EXCEPT !.links = @ \cup new]
<1>4. new \subseteq Links /\ (schema.keyed => \A l \in new : l.n = 1)
  BY <1>1, <1>3, LinkedIs
<1>5. Goes(d, "commit", {})
  BY DEF Link
<1> HIDE DEF new
<1>6. d \in Database /\ OnePerKey(schema, d)
  <2>1. work.links \cup new \in SUBSET Links
    BY <1>4, WorkIs
  <2> QED BY <1>3, <1>4, <2>1, WithLinks DEF OnePerKey
<1> HIDE DEF d
<1> QED BY <1>0, <1>2, <1>5, <1>6, OnOrOver

LEMMA OwnerKeeps ==
    ASSUME TypeOK, PlaceInv, Owner
    PROVE  TypeOK' /\ PlaceInv'
<1>0. at = "owner" /\ at \notin Done
  BY DEF Owner, Done
<1>1. "row" \in Places[call.kind] /\ LeftFits("row", {})
  BY <1>0, KindAt DEF Places, LeftFits
<1>2. work \in Database /\ OnePerKey(schema, work)
  BY WorkIs
<1> DEFINE d == [work EXCEPT !.parents = @ \cup {call.owner}]
<1>3. Goes(work, "row", {}) \/ Abort("constraint") \/ (call.owner \in Parents /\ Goes(d, "row", {}))
  BY DEF Owner
<1>4. ASSUME call.owner \in Parents
      PROVE  d \in Database /\ OnePerKey(schema, d)
  <2>1. work.parents \cup {call.owner} \in SUBSET Parents
    BY <1>4, WorkIs
  <2> QED BY <1>2, <2>1, WithParents DEF OnePerKey
<1> HIDE DEF d
<1> QED BY <1>0, <1>1, <1>2, <1>3, <1>4, OnOrOver, Refuses

LEMMA OwnKeyIs ==
    ASSUME TypeOK, call \in Calls, call.kind = "saveKid"
    PROVE  OwnKey \in Parents \cup {NoParent}
<1>1. call.owner \in Parents \cup {NoParent, "NotSet"}
  BY CallIs
<1>2. Keyed(call.id, Known(call.id)) \in Parents \cup {NoParent}
  BY KeyedIs
<1>3. call.owner \in Parents => Keyed(call.id, call.owner) \in Parents \cup {NoParent}
  BY KeyedIs
<1> QED BY <1>1, <1>2, <1>3, NestedSaveAssumption DEF OwnKey

LEMMA KidRowKeeps ==
    ASSUME TypeOK, PlaceInv, KidRow
    PROVE  TypeOK' /\ PlaceInv'
<1>0. at = "row" /\ call.kind = "saveKid" /\ at \notin Done
  BY DEF KidRow, Done
<1>1. call \in Calls /\ call.id \in Kids
  BY <1>0, KindAt, CallIs
<1>2. "commit" \in Places[call.kind] /\ LeftFits("commit", {})
  BY <1>0 DEF Places, LeftFits
<1>3. work \in Database /\ OnePerKey(schema, work)
  BY WorkIs
<1> DEFINE d == WithKid(work, call.id, OwnKey)
<1>4. d \in Database /\ OnePerKey(schema, d)
  BY <1>0, <1>1, <1>3, PutKidIs, OwnKeyIs DEF OnePerKey
<1>5. Goes(work, "commit", {}) \/ Goes(d, "commit", {}) \/ Abort("constraint")
  BY DEF KidRow
<1> HIDE DEF d
<1> QED BY <1>0, <1>2, <1>3, <1>4, <1>5, OnOrOver, Refuses

LEMMA UnlinkAllKeeps ==
    ASSUME TypeOK, PlaceInv, UnlinkAll
    PROVE  TypeOK' /\ PlaceInv'
<1>0. at = "unlink" /\ at \notin Done
  BY DEF UnlinkAll, Done
<1>1. "dropRow" \in Places[call.kind] /\ LeftFits("dropRow", {})
  BY <1>0, KindAt DEF Places, LeftFits
<1> DEFINE d == [work EXCEPT !.links = @ \ LinksOf(work, call.id)]
<1>2. d \in Database /\ OnePerKey(schema, d)
  <2>1. work.links \ LinksOf(work, call.id) \in SUBSET Links /\ work \in Database
        /\ OnePerKey(schema, work)
    BY WorkIs
  <2> QED BY <2>1, WithLinks DEF OnePerKey
<1>3. Goes(d, "dropRow", {})
  BY DEF UnlinkAll
<1> HIDE DEF d
<1> QED BY <1>0, <1>1, <1>2, <1>3, OnOrOver

LEMMA DropRowKeeps ==
    ASSUME TypeOK, PlaceInv, DropRow
    PROVE  TypeOK' /\ PlaceInv'
<1>0. at = "dropRow" /\ at \notin Done
  BY DEF DropRow, Done
<1>1. "commit" \in Places[call.kind] /\ LeftFits("commit", {})
  BY <1>0, KindAt DEF Places, LeftFits
<1> DEFINE d == [work EXCEPT !.parents = @ \ {call.id}]
<1>2. d \in Database /\ OnePerKey(schema, d)
  <2>1. work.parents \ {call.id} \in SUBSET Parents /\ work \in Database
        /\ OnePerKey(schema, work)
    BY WorkIs
  <2> QED BY <2>1, WithParents DEF OnePerKey
<1>3. Goes(d, "commit", {})
  BY DEF DropRow
<1> HIDE DEF d
<1> QED BY <1>0, <1>1, <1>2, <1>3, OnOrOver

\* Where a turn leads.
LEMMA TurnIs ==
    ASSUME TypeOK, PlaceInv, Turn
    PROVE  /\ left = {} /\ at \notin Done
           /\ \/ at = "drop" /\ call.kind = "delete" /\ Goes(work, "unlink", {})
              \/ at = "drop" /\ call.kind = "save" /\ Goes(work, "kids", call.kids)
              \/ at = "kids" /\ call.kind = "save" /\ Goes(work, "tags", call.tags)
              \/ at = "tags" /\ call.kind = "save" /\ Goes(work, "findLinks", {})
<1>1. at \notin Done
  BY DEF Turn, Done
<1>2. AfterKids = IF call.kind = "delete" THEN "unlink" ELSE "kids"
  BY DEF AfterKids
<1> QED BY <1>1, <1>2, KindAt DEF Turn

LEMMA TurnKeeps ==
    ASSUME TypeOK, PlaceInv, Turn
    PROVE  TypeOK' /\ PlaceInv'
<1>1. work \in Database /\ OnePerKey(schema, work)
  BY WorkIs
<1>2. call.kind = "delete" => "unlink" \in Places[call.kind] /\ LeftFits("unlink", {})
  BY DEF Places, LeftFits
<1>3. call.kind = "save" => /\ {"kids", "tags", "findLinks"} \subseteq Places[call.kind]
                            /\ LeftFits("kids", call.kids) /\ LeftFits("tags", call.tags)
                            /\ LeftFits("findLinks", {})
  BY DEF Places, LeftFits
<1> QED BY <1>1, <1>2, <1>3, TurnIs, OnOrOver

LEMMA CommitKeeps ==
    ASSUME TypeOK, PlaceInv, Commit
    PROVE  TypeOK' /\ PlaceInv'
<1>0. at = "commit" /\ at \notin Done
  BY DEF Commit, Done
<1>1. call # NoCall /\ Fits(call)
  BY <1>0, KindAt, CallIs
<1>2. /\ at' = "ok" /\ left' = {} /\ toLink' = {} /\ db' = work /\ work' = work /\ call' = call
      /\ seen' = seen /\ schema' = schema /\ others' = others
  BY DEF Commit
<1>3. Fits(call)'
  BY <1>1, <1>2, CallSame
<1>4. \A e \in {seen', db', work'} : e \in Database /\ OnePerKey(schema, e)' /\ Consistent(e)'
  BY <1>2 DEF TypeOK, OnePerKey, Consistent, Allows, OfParent
<1>5. TypeOK'
  BY <1>2, <1>4 DEF TypeOK
<1>6. PlaceInv'
  BY <1>1, <1>2, <1>3 DEF PlaceInv, LeftFits
<1> QED BY <1>5, <1>6

LEMMA BeginKeeps ==
    ASSUME TypeOK, PlaceInv, NEW c \in Calls, Begin(c)
    PROVE  TypeOK' /\ PlaceInv' /\ at' \in Unbegun \ (Failed \cup {"idle"}) /\ call' # NoCall
<1>1. c # NoCall /\ c.kind \in {"save", "saveKid", "delete"}
  BY CallIs
<1>2. /\ call' = c /\ left' = left /\ toLink' = toLink /\ seen' = seen /\ schema' = schema
      /\ db' = db /\ work' = work /\ others' = others
  BY DEF Begin
<1>3. at' \in Places[c.kind] /\ at' \in {"row", "owner", "find"}
  BY <1>1 DEF Begin, Places
<1>4. left = {}
  BY DEF PlaceInv, LeftFits, Begin
<1>5. Fits(c)' <=> Fits(c)
  BY <1>2 DEF Fits
<1>6. Fits(call)'
  BY <1>2, <1>5 DEF Begin, Fits
<1>7. PlaceInv'
  BY <1>1, <1>2, <1>3, <1>4, <1>6 DEF PlaceInv, LeftFits
<1>8. \A e \in {seen', db', work'} : e \in Database /\ OnePerKey(schema, e)' /\ Consistent(e)'
  BY <1>2 DEF TypeOK, OnePerKey, Consistent, Allows, OfParent
<1>9. TypeOK'
  BY <1>2, <1>3, <1>8 DEF TypeOK, Done
<1> QED BY <1>1, <1>2, <1>3, <1>7, <1>9 DEF Unbegun, Failed

LEMMA FailsKeeps ==
    ASSUME TypeOK, PlaceInv, Fails
    PROVE  TypeOK' /\ PlaceInv'
BY AbortTypes, AbortPlace DEF Failed, Fails

(***************************************************************************)
(* Steps of other connections.                                             *)
(***************************************************************************)
LEMMA OtherTypes ==
    ASSUME TypeOK, PlaceInv, NEW d \in Database, NEW w \in Database, NEW what, Other(d, w, what),
           OnePerKey(schema, d), OnePerKey(schema, w), work = db => w = d
    PROVE  TypeOK' /\ PlaceInv'
<1>1. \A e \in {seen, d, w} : e \in Database /\ OnePerKey(schema, e) /\ Consistent(e)
  BY WorkIs DEF Other
<1>2. \A e \in {seen', db', work'} : e \in Database /\ OnePerKey(schema, e)' /\ Consistent(e)'
  BY <1>1 DEF Other, OnePerKey, Consistent, Allows, OfParent
<1>3. others' \in 0 .. MaxOthers
  BY NestedSaveAssumption DEF TypeOK, Other
<1>4. at' \in Done => work' = db'
  BY DEF TypeOK, Other
<1>5. TypeOK'
  BY <1>2, <1>3, <1>4 DEF TypeOK, Other
<1>6. at' = at /\ left' = left /\ toLink' = toLink /\ call' = call /\ seen' = seen /\ schema' = schema
  BY DEF Other
<1>7. Fits(call)' <=> Fits(call)
  BY <1>6, CallSame
<1>8. PlaceInv'
  BY <1>6, <1>7 DEF PlaceInv, LeftFits, Ids
<1> QED BY <1>5, <1>8

LEMMA PutKidKeeps ==
    ASSUME TypeOK, PlaceInv, NEW k \in Kids, NEW p \in Parents \cup {NoParent}, PutKid(k, p)
    PROVE  TypeOK' /\ PlaceInv'
<1>1. \A d \in {db, work} : WithKid(d, k, p) \in Database /\ OnePerKey(schema, WithKid(d, k, p))
  BY WorkIs, PutKidIs DEF OnePerKey
<1>2. Other(WithKid(db, k, p), WithKid(work, k, p), {k})
  BY DEF PutKid
<1> QED BY <1>1, <1>2, OtherTypes

LEMMA TakeKidKeeps ==
    ASSUME TypeOK, PlaceInv, NEW k \in Kids, TakeKid(k)
    PROVE  TypeOK' /\ PlaceInv'
<1>1. \A d \in {db, work} : WithoutKids(d, {k}) \in Database /\ OnePerKey(schema, WithoutKids(d, {k}))
  BY WorkIs, TakeKidsIs DEF OnePerKey
<1>2. Other(WithoutKids(db, {k}), WithoutKids(work, {k}), {k})
  BY DEF TakeKid
<1> QED BY <1>1, <1>2, OtherTypes

LEMMA PutLinkKeeps ==
    ASSUME TypeOK, PlaceInv, NEW p \in Parents, NEW t \in Tags, PutLink(p, t)
    PROVE  TypeOK' /\ PlaceInv'
<1> DEFINE D(d) == [d EXCEPT !.links = @ \cup Linked(d, p, {t})]
<1>1. ASSUME NEW d \in {db, work}
      PROVE  D(d) \in Database /\ OnePerKey(schema, D(d))
  <2>1. d \in Database /\ OnePerKey(schema, d) /\ d.links \subseteq Links
    BY WorkIs, DatabaseIs
  <2> DEFINE new == Linked(d, p, {t})
  <2>2. new \subseteq Links /\ (schema.keyed => \A l \in new : l.n = 1)
    BY <2>1, LinkedIs
  <2> HIDE DEF new
  <2>3. d.links \cup new \in SUBSET Links
    BY <2>1, <2>2
  <2>4. /\ [d EXCEPT !.links = d.links \cup new] \in Database
        /\ OnePerKey(schema, [d EXCEPT !.links = d.links \cup new])
    BY <2>1, <2>2, <2>3, WithLinks DEF OnePerKey
  <2> QED BY <2>4 DEF new
<1>2. Other(D(db), D(work), {<<p, t>>})
  BY DEF PutLink
<1> HIDE DEF D
<1>3. work = db => D(work) = D(db)
  OBVIOUS
<1> QED BY <1>1, <1>2, <1>3, OtherTypes

LEMMA TakeLinkKeeps ==
    ASSUME TypeOK, PlaceInv, NEW l \in Links, TakeLink(l)
    PROVE  TypeOK' /\ PlaceInv'
<1> DEFINE D(d) == [d EXCEPT !.links = @ \ {l}]
<1>1. ASSUME NEW d \in {db, work}
      PROVE  D(d) \in Database /\ OnePerKey(schema, D(d))
  <2>1. d \in Database /\ OnePerKey(schema, d) /\ d.links \ {l} \in SUBSET Links
    BY WorkIs, DatabaseIs
  <2> QED BY <2>1, WithLinks DEF OnePerKey
<1>2. Other(D(db), D(work), {<<l.parent, l.tag>>})
  BY DEF TakeLink
<1> HIDE DEF D
<1>3. work = db => D(work) = D(db)
  OBVIOUS
<1> QED BY <1>1, <1>2, <1>3, OtherTypes

LEMMA TypesInitially == Init => TypeOK /\ PlaceInv
<1> SUFFICES ASSUME Init PROVE TypeOK /\ PlaceInv
  OBVIOUS
<1>1. PICK d \in Databases : schema = d.schema /\ db = d.db
  BY DEF Init
<1>2. schema \in Schema /\ db \in Database /\ Allows(schema, db) /\ OnePerKey(schema, db)
  BY <1>1, NestedSaveAssumption
<1>3. \A e \in {seen, db, work} : e \in Database /\ OnePerKey(schema, e) /\ Consistent(e)
  BY <1>2 DEF Init, Consistent
<1> QED BY <1>2, <1>3, NestedSaveAssumption DEF Init, TypeOK, PlaceInv, LeftFits, Done

LEMMA TypesStep == TypeOK /\ PlaceInv /\ [Next]_vars => TypeOK' /\ PlaceInv'
<1> SUFFICES ASSUME TypeOK, PlaceInv, [Next]_vars PROVE TypeOK' /\ PlaceInv'
  OBVIOUS
<1>1. CASE UNCHANGED vars
  <2>1. call' = call /\ seen' = seen /\ schema' = schema /\ at' = at /\ left' = left
        /\ toLink' = toLink /\ db' = db /\ work' = work /\ others' = others
    BY <1>1 DEF vars
  <2>2. Fits(call)' <=> Fits(call)
    BY <2>1, CallSame
  <2>3. PlaceInv'
    BY <2>1, <2>2 DEF PlaceInv, LeftFits, Ids
  <2>4. \A e \in {seen', db', work'} : e \in Database /\ OnePerKey(schema, e)' /\ Consistent(e)'
    BY <2>1 DEF TypeOK, OnePerKey, Consistent, Allows, OfParent
  <2> QED BY <2>1, <2>3, <2>4 DEF TypeOK
<1>2. CASE Next
  BY <1>2, BeginKeeps, RowKeeps, FindKidsKeeps, FindLinksKeeps, DropLinksKeeps, LinkKeeps,
     OwnerKeeps, KidRowKeeps, UnlinkAllKeeps, DropRowKeeps, TurnKeeps, CommitKeeps, FailsKeeps,
     DropKeeps, KidKeeps, TagKeeps, TakeKidKeeps, PutKidKeeps, PutLinkKeeps, TakeLinkKeeps DEF Next
<1> QED BY <1>1, <1>2

\* Every database a call sees keeps its keys, junctions have no more links than
\* their key allows, and a call that is over leaves nothing behind: for every
\* number of rows, every call and every schema.
THEOREM TypeCorrect == Spec => []TypeOK
<1>1. Init => TypeOK /\ PlaceInv
  BY TypesInitially
<1>2. TypeOK /\ PlaceInv /\ [Next]_vars => TypeOK' /\ PlaceInv'
  BY TypesStep
<1> QED BY <1>1, <1>2, PTL DEF Spec


(***************************************************************************)
(* What a call does, step by step.                                         *)
(***************************************************************************)
LEMMA AtSame ==
    ASSUME call' = call, seen' = seen, schema' = schema, touched' = touched, toLink' = toLink,
           NEW place, NEW d, NEW items, At(place, d, items)
    PROVE  At(place, d, items)'
<1>0. Ids(items)' = Ids(items) /\ Ids(call.tags)' = Ids(call.tags)
  BY DEF Ids
<1>1. ASSUME NEW k \in Kids \ touched
      PROVE  KidAt(place, d, items, k)'
  <2>1. KidAt(place, d, items, k)
    BY DEF At
  <2>2. KidWaits(place, items, k)' <=> KidWaits(place, items, k)
    BY <1>0, CallSame DEF KidWaits
  <2> QED BY <2>1, <2>2, CallSame DEF KidAt, SameKid
<1>2. ASSUME NEW p \in Parents, NEW t \in Tags, <<p, t>> \notin touched
      PROVE  PairAt(place, d, items, p, t)'
  <2>1. PairAt(place, d, items, p, t)
    BY <1>2 DEF At
  <2>2. Pair(d, p, t)' = Pair(d, p, t)
    BY DEF Pair, LinksOf
  <2> QED BY <1>0, <2>1, <2>2, CallSame DEF PairAt
<1>3. RowsAt(place, d, items)'
  <2>1. Ids(call.tags \ items)' = Ids(call.tags \ items)
    BY DEF Ids
  <2>2. RowsAt(place, d, items)
    BY DEF At
  <2> QED BY <1>0, <2>1, <2>2, CallSame DEF RowsAt
<1> QED BY <1>1, <1>2, <1>3 DEF At

LEMMA MovesDone ==
    ASSUME TypeOK, SeenInv, at \notin Done, NEW d, NEW next, NEW items, Moves(d, next, items),
           At(next, d, items)
    PROVE  SeenInv' /\ WorkInv'
<1>1. SeenInv'
  <2>1. at # "ok"
    BY DEF Done
  <2>2. \A p, t : Pair(seen, p, t)' = Pair(seen, p, t) /\ Pair(db, p, t)' = Pair(db, p, t)
    BY DEF Moves, Pair, LinksOf
  <2> QED BY <2>1, <2>2 DEF SeenInv, Moves, SameKid
<1>2. At(next, d, items)'
  BY AtSame DEF Moves
<1>3. at' = next /\ work' = d /\ left' = items
  BY DEF Moves
<1>4. At(at, work, left)'
  BY <1>2, <1>3
<1> QED BY <1>1, <1>4 DEF WorkInv

LEMMA AbortDone ==
    ASSUME TypeOK, SeenInv, at \notin Done, NEW why \in Failed, Abort(why)
    PROVE  SeenInv' /\ WorkInv'
<1>0. /\ work' = db /\ db' = db /\ seen' = seen /\ touched' = touched /\ call' = call /\ at' = why
      /\ at # "ok" /\ why \in Unbegun /\ schema' = schema
  BY DEF Abort, Done, Unbegun
<1>1. \A p, t : Pair(seen, p, t)' = Pair(seen, p, t) /\ Pair(db, p, t)' = Pair(db, p, t)
                /\ Pair(work, p, t)' = Pair(db, p, t)
  BY <1>0 DEF Pair, LinksOf
<1>2. SeenInv'
  BY <1>0, <1>1 DEF SeenInv, SameKid
<1>3. \A k \in Kids \ touched : KidAt(at, work, left, k)'
  BY <1>0 DEF SeenInv, KidAt, SameKid, KidWaits, Failed
<1>4. ASSUME NEW p \in Parents, NEW t \in Tags, <<p, t>> \notin touched
      PROVE  PairAt(at, work, left, p, t)'
  <2>1. Pair(work, p, t)' = Pair(seen, p, t)'
    BY <1>0, <1>1, <1>4 DEF SeenInv
  <2>2. at' \notin {"link", "dropLinks", "dropRow", "commit", "ok"}
    BY <1>0 DEF Failed
  <2> QED BY <2>1, <2>2 DEF PairAt
<1>5. RowsAt(at, work, left)'
  BY <1>0 DEF RowsAt, SeenInv, Unbegun, Failed
<1>6. At(at, work, left)'
  BY <1>0, <1>3, <1>4, <1>5 DEF At
<1> QED BY <1>2, <1>6 DEF WorkInv

LEMMA GoesDone ==
    ASSUME TypeOK, SeenInv, at \notin Done, NEW d, NEW next, NEW items, Goes(d, next, items),
           At(next, d, items)
    PROVE  SeenInv' /\ WorkInv'
BY GoesIs, MovesDone, AbortDone DEF Failed

LEMMA RefusesDone ==
    ASSUME TypeOK, SeenInv, at \notin Done, Abort("constraint")
    PROVE  SeenInv' /\ WorkInv'
BY AbortDone DEF Failed

\* A statement that writes no link, before the links come.
Unlinked(place) == place \notin {"dropLinks", "link", "dropRow", "commit", "ok"}

LEMMA PairsStay ==
    ASSUME WorkInv, Unlinked(at), NEW d, NEW next, NEW items, Unlinked(next),
           d.links = work.links, NEW p \in Parents, NEW t \in Tags, <<p, t>> \notin touched
    PROVE  PairAt(next, d, items, p, t)
<1>1. Pair(work, p, t) = Pair(seen, p, t)
  BY DEF WorkInv, At, PairAt, Unlinked
<1>2. Pair(d, p, t) = Pair(work, p, t)
  BY DEF Pair, LinksOf
<1> QED BY <1>1, <1>2 DEF PairAt, Unlinked

LEMMA RowDone ==
    ASSUME Inv, Row
    PROVE  SeenInv' /\ WorkInv'
<1>0. /\ at = "row" /\ call.kind = "save" /\ at \notin Done
      /\ TypeOK /\ PlaceInv /\ SeenInv /\ WorkInv
  BY DEF Row, Done, Inv
<1>1. call \in Calls /\ Fits(call) /\ call.id \in Parents /\ work \in Database
  BY <1>0, KindAt, CallIs, WorkIs
<1> DEFINE e == [work EXCEPT !.parents = @ \cup {call.id}]
<1>2. /\ e.parents = work.parents \cup {call.id} /\ e.kids = work.kids /\ e.links = work.links
      /\ e.tags = work.tags
  <2>1. work.parents \cup {call.id} \in SUBSET Parents
    BY <1>0, <1>1, WorkIs
  <2> QED BY <1>1, <2>1, WithParents
<1>3. work.parents = seen.parents /\ work.tags = seen.tags
  BY <1>0 DEF WorkInv, At, RowsAt, Unbegun
<1>4. WantedParents = seen.parents \cup {call.id}
  BY <1>0 DEF WantedParents
<1>5. \/ Abort("constraint") \/ Goes(e, "find", {})
      \/ Goes(work, "find", {}) /\ ~call.new
  BY DEF Row
<1> HIDE DEF e
<1>6. ~call.new => call.id \in seen.parents
  BY <1>0, <1>1 DEF Fits
<1>7. ASSUME NEW d, d.kids = work.kids, d.links = work.links, d.tags = work.tags,
             d.parents = WantedParents
      PROVE  At("find", d, {})
  <2>1. \A k \in Kids \ touched : KidAt("find", d, {}, k)
    BY <1>0, <1>7 DEF WorkInv, At, KidAt, KidWaits, Unbegun
  <2>2. \A p \in Parents, t \in Tags : <<p, t>> \notin touched => PairAt("find", d, {}, p, t)
    BY <1>0, <1>7, PairsStay DEF Unlinked
  <2>3. RowsAt("find", d, {})
    BY <1>0, <1>3, <1>7 DEF RowsAt, Unbegun, Failed
  <2> QED BY <2>1, <2>2, <2>3 DEF At
<1>8. At("find", e, {})
  BY <1>2, <1>3, <1>4, <1>7
<1>9. ~call.new => At("find", work, {})
  BY <1>3, <1>4, <1>6, <1>7
<1> QED BY <1>0, <1>5, <1>8, <1>9, GoesDone, RefusesDone


LEMMA PutKidSame ==
    ASSUME NEW d \in Database, NEW k \in Kids, NEW p \in Parents \cup {NoParent}
    PROVE  /\ WithKid(d, k, p).links = d.links /\ WithKid(d, k, p).parents = d.parents
           /\ WithKid(d, k, p).tags = d.tags
           /\ \A j \in Kids \ {k} : SameKid(WithKid(d, k, p).kids, d.kids, j)
           /\ k \in DOMAIN WithKid(d, k, p).kids /\ WithKid(d, k, p).kids[k] = p
<1> DEFINE e == WithKid(d, k, p)
<1>1. /\ e.links = d.links /\ e.parents = d.parents /\ e.tags = d.tags
      /\ DOMAIN e.kids = DOMAIN d.kids \cup {k} /\ e.kids[k] = p
      /\ \A j \in DOMAIN d.kids : j # k => e.kids[j] = d.kids[j]
  BY PutKidIs
<1> HIDE DEF e
<1>2. \A j \in Kids \ {k} : SameKid(e.kids, d.kids, j)
  BY <1>1 DEF SameKid
<1>3. k \in DOMAIN e.kids
  BY <1>1
<1> QED BY <1>1, <1>2, <1>3 DEF e

LEMMA FindKidsDone ==
    ASSUME Inv, FindKids
    PROVE  SeenInv' /\ WorkInv'
<1>0. at = "find" /\ at \notin Done /\ TypeOK /\ PlaceInv /\ SeenInv /\ WorkInv
  BY DEF FindKids, Done, Inv
<1>1. call \in Calls /\ call.kind \in {"save", "delete"}
  BY <1>0, KindAt
<1>2. ASSUME NEW k \in Kids \ touched
      PROVE  KidAt("drop", work, Leavers, k)
  <2>1. SameKid(work.kids, seen.kids, k)
    BY <1>0 DEF WorkInv, At, KidAt, KidWaits, Unbegun
  <2>2. k \in Leavers <=> k \in Going
    <3>1. \A p : k \in OfParent(work, p) <=> k \in OfParent(seen, p)
      BY <2>1 DEF SameKid, OfParent
    <3> QED BY <1>1, <3>1 DEF Leavers, Going
  <2>3. k \notin Mine \cup Going => SameKid(WantedKids, seen.kids, k)
    BY <1>0, WantedIs
  <2> QED BY <2>1, <2>2, <2>3 DEF KidAt, KidWaits, Unbegun, Failed, SameKid
<1>3. \A p \in Parents, t \in Tags : <<p, t>> \notin touched => PairAt("drop", work, Leavers, p, t)
  BY <1>0, PairsStay DEF Unlinked
<1>4. RowsAt("drop", work, Leavers)
  BY <1>0, <1>1 DEF WorkInv, At, RowsAt, Unbegun, Failed
<1>5. At("drop", work, Leavers)
  BY <1>2, <1>3, <1>4 DEF At
<1> QED BY <1>0, <1>5, GoesDone DEF FindKids

LEMMA DropDone ==
    ASSUME Inv, NEW k \in left, Drop(k)
    PROVE  SeenInv' /\ WorkInv'
<1>0. at = "drop" /\ at \notin Done /\ TypeOK /\ PlaceInv /\ SeenInv /\ WorkInv
  BY DEF Drop, Done, Inv
<1>1. work \in Database /\ k \in Kids
  BY <1>0, WorkIs DEF PlaceInv, LeftFits
<1>2. ASSUME NEW d, d.links = work.links, d.parents = work.parents, d.tags = work.tags,
             \A j \in Kids \ {k} : SameKid(d.kids, work.kids, j),
             k \in DOMAIN d.kids <=> schema.nullable, schema.nullable => d.kids[k] = NoParent
      PROVE  At("drop", d, left \ {k})
  <2>1. ASSUME NEW j \in Kids \ touched
        PROVE  KidAt("drop", d, left \ {k}, j)
    <3>1. KidAt("drop", work, left, j)
      BY <1>0 DEF WorkInv, At
    <3>2. CASE j # k
      <4>1. KidWaits("drop", left \ {k}, j) <=> KidWaits("drop", left, j)
        BY <3>2 DEF KidWaits
      <4> QED BY <1>2, <3>1, <3>2, <4>1 DEF KidAt, SameKid
    <3>3. CASE j = k
      <4>1. k \in Going
        BY <3>1, <3>3 DEF KidAt
      <4>2. ~KidWaits("drop", left \ {k}, k)
        BY <1>0, <4>1, WantedIs DEF KidWaits, Unbegun, Failed
      <4>3. SameKid(d.kids, WantedKids, k)
        BY <1>0, <1>2, <4>1, WantedIs DEF SameKid
      <4> QED BY <3>3, <4>2, <4>3 DEF KidAt
    <3> QED BY <3>2, <3>3
  <2>2. \A p \in Parents, t \in Tags : <<p, t>> \notin touched => PairAt("drop", d, left \ {k}, p, t)
    BY <1>0, <1>2, PairsStay DEF Unlinked
  <2>3. RowsAt("drop", d, left \ {k})
    BY <1>0, <1>2 DEF WorkInv, At, RowsAt, Unbegun, Failed
  <2> QED BY <2>1, <2>2, <2>3 DEF At
<1>3. ASSUME ~schema.nullable
      PROVE  At("drop", WithoutKids(work, {k}), left \ {k})
  <2> DEFINE d == WithoutKids(work, {k})
  <2>1. /\ d.links = work.links /\ d.parents = work.parents /\ d.tags = work.tags
        /\ DOMAIN d.kids = DOMAIN work.kids \ {k}
        /\ \A j \in DOMAIN work.kids \ {k} : d.kids[j] = work.kids[j]
    BY <1>1, TakeKidsIs
  <2> HIDE DEF d
  <2>2. \A j \in Kids \ {k} : SameKid(d.kids, work.kids, j)
    BY <2>1 DEF SameKid
  <2>3. At("drop", d, left \ {k})
    BY <1>2, <1>3, <2>1, <2>2
  <2> QED BY <2>3 DEF d
<1>4. ASSUME schema.nullable
      PROVE  At("drop", WithKid(work, k, NoParent), left \ {k})
  <2> DEFINE d == WithKid(work, k, NoParent)
  <2>1. /\ d.links = work.links /\ d.parents = work.parents /\ d.tags = work.tags
        /\ \A j \in Kids \ {k} : SameKid(d.kids, work.kids, j)
        /\ k \in DOMAIN d.kids /\ d.kids[k] = NoParent
    BY <1>1, PutKidSame
  <2> HIDE DEF d
  <2>2. At("drop", d, left \ {k})
    BY <1>2, <1>4, <2>1
  <2> QED BY <2>2 DEF d
<1>5. \/ ~schema.nullable /\ Goes(WithoutKids(work, {k}), "drop", left \ {k})
      \/ schema.nullable /\ Goes(WithKid(work, k, NoParent), "drop", left \ {k})
      \/ Abort("constraint")
  BY DEF Drop
<1> QED BY <1>0, <1>3, <1>4, <1>5, GoesDone, RefusesDone

LEMMA KidDone ==
    ASSUME Inv, NEW i \in left, Kid(i)
    PROVE  SeenInv' /\ WorkInv'
<1>0. at = "kids" /\ at \notin Done /\ TypeOK /\ PlaceInv /\ SeenInv /\ WorkInv
  BY DEF Kid, Done, Inv
<1>1. call.kind = "save" /\ call \in Calls /\ Fits(call) /\ work \in Database
  BY <1>0, KindAt, WorkIs
<1>2. /\ left \subseteq call.kids /\ i \in call.kids /\ call.id \in Parents
      /\ call.kids \in SUBSET Item(Kids)
      /\ \A j \in call.kids : j.id = i.id => j = i
  BY <1>0, <1>1, CallIs DEF PlaceInv, LeftFits, OneEach
<1>3. i.id \in Kids /\ i.id \in Mine /\ i.new \in BOOLEAN
  <2>1. Mine = Ids(call.kids)
    BY <1>1 DEF Mine
  <2> QED BY <1>2, <2>1, ItemsHaveIds DEF Ids
<1>4. WantedKids[i.id] = call.id /\ i.id \in DOMAIN WantedKids
  BY <1>0, <1>1, <1>3, WantedIs DEF KeyOf
<1>5. i.id \notin Ids(left \ {i}) /\ \A k : k # i.id => (k \in Ids(left \ {i}) <=> k \in Ids(left))
  BY <1>2 DEF Ids
<1>6. ASSUME NEW d, d.links = work.links, d.parents = work.parents, d.tags = work.tags,
             \A j \in Kids \ {i.id} : SameKid(d.kids, work.kids, j),
             i.id \notin touched => i.id \in DOMAIN d.kids /\ d.kids[i.id] = call.id
      PROVE  At("kids", d, left \ {i})
  <2>1. ASSUME NEW j \in Kids \ touched
        PROVE  KidAt("kids", d, left \ {i}, j)
    <3>1. KidAt("kids", work, left, j)
      BY <1>0 DEF WorkInv, At
    <3>2. CASE j # i.id
      <4>1. KidWaits("kids", left \ {i}, j) <=> KidWaits("kids", left, j)
        BY <1>5, <3>2 DEF KidWaits
      <4> QED BY <1>6, <3>1, <3>2, <4>1 DEF KidAt, SameKid
    <3>3. CASE j = i.id
      <4>1. ~KidWaits("kids", left \ {i}, j)
        BY <1>5, <3>3 DEF KidWaits, Unbegun, Failed
      <4> QED BY <1>4, <1>6, <3>3, <4>1 DEF KidAt, SameKid
    <3> QED BY <3>2, <3>3
  <2>2. \A p \in Parents, t \in Tags : <<p, t>> \notin touched => PairAt("kids", d, left \ {i}, p, t)
    BY <1>0, <1>6, PairsStay DEF Unlinked
  <2>3. RowsAt("kids", d, left \ {i})
    BY <1>0, <1>6 DEF WorkInv, At, RowsAt, Unbegun, Failed
  <2> QED BY <2>1, <2>2, <2>3 DEF At
<1>7. i.id \notin touched => SameKid(work.kids, seen.kids, i.id)
  <2>1. i.id \in Ids(left)
    BY DEF Ids
  <2> QED BY <1>0, <1>3, <2>1 DEF WorkInv, At, KidAt, KidWaits
<1>8. ~Changed(i) => At("kids", work, left \ {i})
  <2>1. ~Changed(i) => ~i.new /\ Known(i.id) = call.id
    BY DEF Changed
  <2>2. ~i.new => i.id \in DOMAIN seen.kids
    BY <1>1, <1>2, <1>3 DEF Fits
  <2>3. ~Changed(i) => seen.kids[i.id] = call.id
    BY <2>1, <2>2 DEF Known
  <2>4. \A j : SameKid(work.kids, work.kids, j)
    BY DEF SameKid
  <2> QED BY <1>6, <1>7, <2>1, <2>2, <2>3, <2>4 DEF SameKid
<1> DEFINE p == Keyed(i.id, call.id)
<1>9. i.id \notin touched => p = call.id
  <2>1. i.id \notin touched /\ i.id \in DOMAIN work.kids /\ Known(i.id) = call.id
           => work.kids[i.id] = call.id
    BY <1>7 DEF SameKid, Known
  <2> QED BY <2>1 DEF Keyed
<1>10. p \in Parents \cup {NoParent}
  BY <1>0, <1>2, KeyedIs
<1>11. \/ ~Changed(i) /\ Goes(work, "kids", left \ {i})
       \/ Goes(WithKid(work, i.id, p), "kids", left \ {i}) \/ Abort("constraint")
  BY DEF Kid
<1> HIDE DEF p
<1>12. At("kids", WithKid(work, i.id, p), left \ {i})
  <2> DEFINE d == WithKid(work, i.id, p)
  <2>1. /\ d.links = work.links /\ d.parents = work.parents /\ d.tags = work.tags
        /\ \A j \in Kids \ {i.id} : SameKid(d.kids, work.kids, j)
        /\ i.id \in DOMAIN d.kids /\ d.kids[i.id] = p
    BY <1>1, <1>3, <1>10, PutKidSame
  <2> HIDE DEF d
  <2>2. At("kids", d, left \ {i})
    BY <1>6, <1>9, <2>1
  <2> QED BY <2>2 DEF d
<1> QED BY <1>0, <1>8, <1>11, <1>12, GoesDone, RefusesDone

\* The kids have been done with, and stay so.
LEMMA KidsStay ==
    ASSUME WorkInv, NEW k \in Kids \ touched, NEW d, d.kids = work.kids,
           NEW next, NEW items, next # "drop",
           KidWaits(next, items, k) <=> KidWaits(at, left, k)
    PROVE  KidAt(next, d, items, k)
BY DEF WorkInv, At, KidAt

LEMMA TagDone ==
    ASSUME Inv, NEW i \in left, Tag(i)
    PROVE  SeenInv' /\ WorkInv'
<1>0. at = "tags" /\ at \notin Done /\ TypeOK /\ PlaceInv /\ SeenInv /\ WorkInv
  BY DEF Tag, Done, Inv
<1>1. call.kind = "save" /\ call \in Calls /\ Fits(call) /\ work \in Database
  BY <1>0, KindAt, WorkIs
<1>2. /\ left \subseteq call.tags /\ i \in call.tags /\ call.tags \in SUBSET Item(Tags)
      /\ \A j \in call.tags : j.id = i.id => j = i
  BY <1>0, <1>1, CallIs DEF PlaceInv, LeftFits, OneEach
<1>3. i.id \in Tags /\ i.new \in BOOLEAN
  BY <1>2, ItemsHaveIds
<1>4. RowsAt("tags", work, left)
  BY <1>0 DEF WorkInv, At
<1>5. /\ Ids(call.tags \ left) \subseteq work.tags
      /\ \A j \in left : j.id \in work.tags <=> j.id \in seen.tags
  BY <1>1, <1>4 DEF RowsAt, Unbegun, Failed
<1>6. Ids(call.tags \ (left \ {i})) \subseteq Ids(call.tags \ left) \cup {i.id}
  BY DEF Ids
<1>7. ASSUME NEW d, d.links = work.links, d.parents = work.parents, d.kids = work.kids,
             d.tags = work.tags \cup {i.id}
      PROVE  At("tags", d, left \ {i})
  <2>1. \A k \in Kids \ touched : KidAt("tags", d, left \ {i}, k)
    BY <1>0, <1>7, KidsStay DEF KidWaits
  <2>2. \A p \in Parents, t \in Tags : <<p, t>> \notin touched => PairAt("tags", d, left \ {i}, p, t)
    BY <1>0, <1>7, PairsStay DEF Unlinked
  <2>3. RowsAt("tags", d, left \ {i})
    <3>1. Ids(call.tags \ (left \ {i})) \subseteq d.tags
      BY <1>5, <1>6, <1>7
    <3>2. \A j \in left \ {i} : j.id \in d.tags <=> j.id \in seen.tags
      BY <1>2, <1>5, <1>7
    <3> QED BY <1>4, <1>7, <3>1, <3>2 DEF RowsAt, Unbegun, Failed
  <2> QED BY <2>1, <2>2, <2>3 DEF At
<1>8. ~i.new => i.id \in work.tags
  <2>1. ~i.new => i.id \in seen.tags
    BY <1>1, <1>2, <1>3 DEF Fits
  <2> QED BY <1>5, <2>1
<1>9. ~i.new => At("tags", work, left \ {i})
  <2>1. ~i.new => work.tags = work.tags \cup {i.id}
    BY <1>8
  <2> QED BY <1>7, <2>1
<1> DEFINE e == [work EXCEPT !.tags = @ \cup {i.id}]
<1>10. At("tags", e, left \ {i})
  <2>1. work.tags \cup {i.id} \in SUBSET Tags
    BY <1>0, <1>3, WorkIs
  <2>2. /\ e.tags = work.tags \cup {i.id} /\ e.parents = work.parents /\ e.kids = work.kids
        /\ e.links = work.links
    BY <1>1, <2>1, WithTags
  <2> HIDE DEF e
  <2> QED BY <1>7, <2>2
<1>11. \/ ~i.new /\ Goes(work, "tags", left \ {i})
       \/ Goes(e, "tags", left \ {i})
       \/ Abort("constraint")
  BY DEF Tag
<1> HIDE DEF e
<1> QED BY <1>0, <1>9, <1>10, <1>11, GoesDone, RefusesDone

LEMMA TurnDone ==
    ASSUME Inv, Turn
    PROVE  SeenInv' /\ WorkInv'
<1>0. TypeOK /\ PlaceInv /\ SeenInv /\ WorkInv
  BY DEF Inv
<1>1. left = {} /\ at \notin Done
  BY <1>0, TurnIs
<1>2. RowsAt(at, work, left)
  BY <1>0 DEF WorkInv, At
<1>3. ASSUME NEW next, NEW items, Goes(work, next, items), Unlinked(at), Unlinked(next),
             next # "drop", RowsAt(next, work, items),
             \A k : KidWaits(next, items, k) <=> KidWaits(at, left, k)
      PROVE  SeenInv' /\ WorkInv'
  <2>1. \A k \in Kids \ touched : KidAt(next, work, items, k)
    BY <1>0, <1>3, KidsStay
  <2>2. \A p \in Parents, t \in Tags : <<p, t>> \notin touched => PairAt(next, work, items, p, t)
    BY <1>0, <1>3, PairsStay
  <2>3. At(next, work, items)
    BY <1>3, <2>1, <2>2 DEF At
  <2> QED BY <1>0, <1>1, <1>3, <2>3, GoesDone
<1>4. CASE at = "drop" /\ call.kind = "delete" /\ Goes(work, "unlink", {})
  <2>1. RowsAt("unlink", work, {})
    BY <1>2, <1>4 DEF RowsAt, Unbegun, Failed
  <2>2. Mine = {}
    BY <1>4 DEF Mine
  <2>3. \A k : KidWaits("unlink", {}, k) <=> KidWaits(at, left, k)
    BY <1>1, <1>4, <2>2 DEF KidWaits, Unbegun, Failed
  <2> QED BY <1>3, <1>4, <2>1, <2>3 DEF Unlinked
<1>5. CASE at = "drop" /\ call.kind = "save" /\ Goes(work, "kids", call.kids)
  <2>1. RowsAt("kids", work, call.kids)
    BY <1>2, <1>5 DEF RowsAt, Unbegun, Failed
  <2>2. Mine = Ids(call.kids)
    BY <1>5 DEF Mine
  <2>3. \A k : KidWaits("kids", call.kids, k) <=> KidWaits(at, left, k)
    BY <1>1, <1>5, <2>2 DEF KidWaits, Unbegun, Failed
  <2> QED BY <1>3, <1>5, <2>1, <2>3 DEF Unlinked
<1>6. CASE at = "kids" /\ call.kind = "save" /\ Goes(work, "tags", call.tags)
  <2>1. RowsAt("tags", work, call.tags)
    <3>1. Ids(call.tags \ call.tags) = {}
      BY DEF Ids
    <3> QED BY <1>2, <1>6, <3>1 DEF RowsAt, Unbegun, Failed
  <2>2. \A k : KidWaits("tags", call.tags, k) <=> KidWaits(at, left, k)
    BY <1>1, <1>6 DEF KidWaits, Unbegun, Failed, Ids
  <2> QED BY <1>3, <1>6, <2>1, <2>2 DEF Unlinked
<1>7. CASE at = "tags" /\ call.kind = "save" /\ Goes(work, "findLinks", {})
  <2>1. RowsAt("findLinks", work, {})
    <3>1. call.tags \ left = call.tags
      BY <1>1
    <3> QED BY <1>2, <1>7, <3>1 DEF RowsAt, Unbegun, Failed
  <2>2. \A k : KidWaits("findLinks", {}, k) <=> KidWaits(at, left, k)
    BY <1>7 DEF KidWaits, Unbegun, Failed
  <2> QED BY <1>3, <1>7, <2>1, <2>2 DEF Unlinked
<1> QED BY <1>0, <1>4, <1>5, <1>6, <1>7, TurnIs


LEMMA FindLinksDone ==
    ASSUME Inv, FindLinks
    PROVE  SeenInv' /\ WorkInv'
<1>0. at = "findLinks" /\ at \notin Done /\ TypeOK /\ PlaceInv /\ SeenInv /\ WorkInv
  BY DEF FindLinks, Done, Inv
<1>1. call.kind = "save" /\ call \in Calls /\ call.tagsMode \in Modes /\ schema.keyed \in BOOLEAN
  BY <1>0, KindAt, CallIs DEF TypeOK, Schema
<1>2. /\ call' = call /\ seen' = seen /\ schema' = schema /\ touched' = touched /\ work' = work
      /\ db' = db /\ at' = "dropLinks"
  BY DEF FindLinks
<1>3. \A p, t : Pair(seen, p, t)' = Pair(seen, p, t) /\ Pair(db, p, t)' = Pair(db, p, t)
                /\ Pair(work, p, t)' = Pair(work, p, t)
  BY <1>2 DEF Pair, LinksOf
<1>4. SeenInv'
  BY <1>0, <1>2, <1>3 DEF SeenInv, SameKid
<1>5. ASSUME NEW k \in Kids \ touched
      PROVE  KidAt(at, work, left, k)'
  <2>1. SameKid(work.kids, WantedKids, k)
    BY <1>0 DEF WorkInv, At, KidAt, KidWaits, Unbegun, Failed
  <2>2. SameKid(work.kids, WantedKids, k)'
    BY <1>2, <2>1, CallSame DEF SameKid
  <2>3. ~KidWaits(at, left, k)'
    BY <1>2 DEF KidWaits, Unbegun, Failed
  <2> QED BY <1>2, <2>2, <2>3 DEF KidAt
<1>6. ASSUME NEW p \in Parents, NEW t \in Tags, <<p, t>> \notin touched
      PROVE  PairAt(at, work, left, p, t)'
  <2>1. Pair(work, p, t) = Pair(seen, p, t)
    BY <1>0, <1>6 DEF WorkInv, At, PairAt
  <2>2. Pair(work, p, t)' = Pair(seen, p, t)'
    BY <1>3, <2>1
  <2>3. p = call.id => (t \in toLink' <=> Unmet(p, t))
    <3>1. t \in {l.tag : l \in LinksOf(work, p)} <=> Pair(seen, p, t) # {}
      BY <2>1 DEF Pair
    <3>2. t \in Ids(call.tags) => call.tags # {}
      BY DEF Ids
    <3>3. t \in Ids(call.tags) =>
             Leftover = IF call.tagsMode = "Replace" \/ ~schema.keyed THEN LinksOf(work, call.id) ELSE {}
      BY <3>2 DEF Leftover
    <3>4. t \in toLink' <=> t \in Ids(call.tags) /\ t \notin {l.tag : l \in Leftover}
      BY DEF FindLinks
    <3> QED BY <3>1, <3>3, <3>4 DEF Unmet
  <2>4. \A l \in Pair(seen, p, t) : l \in left' <=> Replaced(p, t)
    <3> SUFFICES ASSUME NEW l \in Pair(seen, p, t) PROVE l \in left' <=> Replaced(p, t)
      OBVIOUS
    <3>1. l \in LinksOf(work, p) /\ l.parent = p /\ l.tag = t /\ l \in work.links
      BY <2>1 DEF Pair, LinksOf
    <3>2. l \in LinksOf(work, call.id) <=> p = call.id
      BY <3>1 DEF LinksOf
    <3>3. l \in left' <=> /\ call.tagsMode = "Replace" /\ l \in LinksOf(work, call.id)
                          /\ l.tag \notin Ids(call.tags)
      BY DEF FindLinks, Leftover
    <3> QED BY <3>1, <3>2, <3>3 DEF Replaced
  <2>5. p = call.id => (t \in toLink' <=> Unmet(p, t)')
    BY <1>2, <2>3, CallSame
  <2>6. \A l \in Pair(seen, p, t)' : l \in left' <=> Replaced(p, t)'
    BY <1>2, <1>3, <2>4, CallSame
  <2> QED BY <1>2, <2>2, <2>5, <2>6 DEF PairAt
<1>7. RowsAt(at, work, left)'
  <2>1. RowsAt(at, work, left)
    BY <1>0 DEF WorkInv, At
  <2>2. Ids(call.tags)' = Ids(call.tags)
    BY <1>2 DEF Ids
  <2> QED BY <1>0, <1>1, <1>2, <2>1, <2>2, CallSame DEF RowsAt, Unbegun, Failed
<1>8. At(at, work, left)'
  BY <1>2, <1>5, <1>6, <1>7 DEF At
<1> QED BY <1>4, <1>8 DEF WorkInv

LEMMA DropLinksDone ==
    ASSUME Inv, DropLinks
    PROVE  SeenInv' /\ WorkInv'
<1>0. at = "dropLinks" /\ at \notin Done /\ TypeOK /\ PlaceInv /\ SeenInv /\ WorkInv
  BY DEF DropLinks, Done, Inv
<1>1. work \in Database
  BY <1>0, WorkIs
<1> DEFINE d == [work EXCEPT !.links = @ \ left]
<1>2. /\ d.links = work.links \ left /\ d.parents = work.parents /\ d.kids = work.kids
      /\ d.tags = work.tags
  <2>1. work.links \ left \in SUBSET Links
    BY <1>0, WorkIs
  <2> QED BY <1>1, <2>1, WithLinks
<1>3. Goes(d, "link", {})
  BY DEF DropLinks
<1> HIDE DEF d
<1>4. \A k \in Kids \ touched : KidAt("link", d, {}, k)
  BY <1>0, <1>2, KidsStay DEF KidWaits, Unbegun, Failed
<1>5. ASSUME NEW p \in Parents, NEW t \in Tags, <<p, t>> \notin touched
      PROVE  PairAt("link", d, {}, p, t)
  <2>1. PairAt("dropLinks", work, left, p, t)
    BY <1>0, <1>5 DEF WorkInv, At
  <2>2. Pair(work, p, t) = Pair(seen, p, t) /\ \A l \in Pair(seen, p, t) : l \in left <=> Replaced(p, t)
    BY <2>1 DEF PairAt
  <2>3. Pair(d, p, t) = Pair(work, p, t) \ left
    BY <1>2 DEF Pair, LinksOf
  <2>4. Pair(d, p, t) = IF Replaced(p, t) THEN {} ELSE Pair(seen, p, t)
    BY <2>2, <2>3
  <2> QED BY <2>1, <2>4 DEF PairAt
<1>6. RowsAt("link", d, {})
  BY <1>0, <1>2 DEF WorkInv, At, RowsAt, Unbegun, Failed
<1>7. At("link", d, {})
  BY <1>4, <1>5, <1>6 DEF At
<1> QED BY <1>0, <1>3, <1>7, GoesDone

LEMMA LinkDone ==
    ASSUME Inv, Link
    PROVE  SeenInv' /\ WorkInv'
<1>0. at = "link" /\ at \notin Done /\ TypeOK /\ PlaceInv /\ SeenInv /\ WorkInv
  BY DEF Link, Done, Inv
<1>1. call.kind = "save" /\ call \in Calls /\ call.id \in Parents /\ call.tagsMode \in Modes
      /\ work \in Database /\ schema.keyed \in BOOLEAN
  BY <1>0, KindAt, CallIs, WorkIs DEF TypeOK, Schema
<1> DEFINE new == Linked(work, call.id, toLink)
           d == [work EXCEPT !.links = @ \cup new]
<1>2. new \subseteq Links /\ \A l \in new : l.parent = call.id /\ l.tag \in toLink
  BY <1>0, <1>1, LinkedIs DEF TypeOK
<1>3. Goes(d, "commit", {})
  BY DEF Link
<1>4. ASSUME NEW l \in new
      PROVE  \E k \in 1 .. 2 : KthLink(work, call.id, l.tag, k, l)
  <2>1. l \in Linked(work, call.id, toLink)
    BY <1>4
  <2> HIDE DEF new
  <2>2. PICK t \in toLink, k \in 1 .. 2 : KthLink(work, call.id, t, k, l)
    BY <2>1, LinkedRow
  <2>3. l.tag = t
    BY <2>2 DEF KthLink
  <2> QED BY <2>2, <2>3
<1>5. ASSUME NEW t \in toLink, \A m \in LinksOf(work, call.id) : m.tag # t
      PROVE  [parent |-> call.id, tag |-> t, n |-> 1] \in new
  <2>1. [parent |-> call.id, tag |-> t, n |-> 1] \notin work.links
    BY <1>5, NotLinked
  <2> QED BY <1>5, <2>1 DEF Linked
<1> HIDE DEF new
<1>6. /\ d.links = work.links \cup new /\ d.parents = work.parents /\ d.kids = work.kids
      /\ d.tags = work.tags
  <2>1. work.links \cup new \in SUBSET Links
    BY <1>0, <1>2, WorkIs
  <2> QED BY <1>1, <2>1, WithLinks
<1> HIDE DEF d
<1>7. \A k \in Kids \ touched : KidAt("commit", d, {}, k)
  BY <1>0, <1>6, KidsStay DEF KidWaits, Unbegun, Failed
<1>8. ASSUME NEW p \in Parents, NEW t \in Tags, <<p, t>> \notin touched
      PROVE  PairAt("commit", d, {}, p, t)
  <2>1. PairAt("link", work, left, p, t)
    BY <1>0, <1>8 DEF WorkInv, At
  <2>2. /\ Pair(work, p, t) = IF Replaced(p, t) THEN {} ELSE Pair(seen, p, t)
        /\ p = call.id => (t \in toLink <=> Unmet(p, t))
    BY <2>1 DEF PairAt
  <2> DEFINE N == {l \in new : l.parent = p /\ l.tag = t}
  <2>3. Pair(d, p, t) = Pair(work, p, t) \cup N
    BY <1>6 DEF Pair, LinksOf
  <2>4. t \in WantedTags(p) <=>
           IF p # call.id THEN Pair(seen, p, t) # {}
           ELSE IF call.tagsMode = "Replace" THEN t \in Ids(call.tags)
           ELSE Pair(seen, p, t) # {} \/ t \in Ids(call.tags)
    <3>1. t \in {l.tag : l \in LinksOf(seen, p)} <=> Pair(seen, p, t) # {}
      BY DEF Pair
    <3> QED BY <1>1, <3>1 DEF WantedTags
  <2>5. CASE p # call.id
    <3>1. N = {} /\ ~Replaced(p, t)
      BY <1>2, <2>5 DEF Replaced
    <3>2. Pair(d, p, t) = Pair(seen, p, t)
      BY <2>2, <2>3, <3>1
    <3> QED BY <2>4, <2>5, <3>2 DEF PairAt
  <2>6. CASE p = call.id /\ t \notin toLink
    <3>1. N = {}
      BY <1>2, <2>6
    <3>2. Pair(d, p, t) = IF Replaced(p, t) THEN {} ELSE Pair(seen, p, t)
      BY <2>2, <2>3, <3>1
    <3>3. Pair(d, p, t) # {} <=> t \in WantedTags(p)
      BY <1>1, <2>2, <2>4, <2>6, <3>2 DEF Replaced, Unmet
    <3>4. Pair(d, p, t) \in {Pair(seen, p, t), {}}
      BY <3>2
    <3> QED BY <3>3, <3>4 DEF PairAt
  <2>7. CASE p = call.id /\ t \in toLink /\ Pair(seen, p, t) # {}
    <3>1. schema.keyed /\ t \in Ids(call.tags) /\ call.tagsMode # "Replace" /\ ~Replaced(p, t)
      BY <1>1, <2>2, <2>7 DEF Replaced, Unmet
    <3>2. Pair(work, p, t) = Pair(seen, p, t)
      BY <2>2, <3>1
    <3>3. \E m \in LinksOf(work, call.id) : m.tag = t
      BY <2>7, <3>2 DEF Pair
    <3>4. N = {}
      BY <1>4, <3>1, <3>3 DEF KthLink
    <3>5. Pair(d, p, t) = Pair(seen, p, t) /\ t \in WantedTags(p)
      BY <2>3, <2>4, <2>7, <3>1, <3>2, <3>4
    <3> QED BY <2>7, <3>5 DEF PairAt
  <2>8. CASE p = call.id /\ t \in toLink /\ Pair(seen, p, t) = {}
    <3>1. t \in Ids(call.tags) /\ Pair(work, p, t) = {}
      BY <2>2, <2>8 DEF Unmet
    <3>2. \A m \in LinksOf(work, call.id) : m.tag # t
      BY <2>8, <3>1 DEF Pair
    <3> DEFINE one == [parent |-> p, tag |-> t, n |-> 1]
    <3>3. one \in N
      BY <1>5, <2>8, <3>2
    <3>4. ASSUME NEW l \in N
          PROVE  l = one
      <4>1. l \in new /\ l.tag = t
        BY <3>4
      <4>2. PICK k \in 1 .. 2 :
                /\ l = [parent |-> call.id, tag |-> t, n |-> k]
                /\ k = 2 => [parent |-> call.id, tag |-> t, n |-> 1] \in work.links
        BY <1>4, <4>1 DEF KthLink
      <4>3. k # 2
        <5>1. [parent |-> call.id, tag |-> t, n |-> 1] \notin work.links
          BY <3>2, NotLinked
        <5> QED BY <4>2, <5>1
      <4> QED BY <2>8, <4>2, <4>3
    <3>5. N = {one}
      BY <3>3, <3>4
    <3>6. Pair(d, p, t) = {one}
      BY <2>3, <3>1, <3>5
    <3>7. t \in WantedTags(p)
      BY <2>4, <2>8, <3>1
    <3> QED BY <3>6, <3>7 DEF PairAt
  <2> QED BY <2>5, <2>6, <2>7, <2>8
<1>9. RowsAt("commit", d, {})
  BY <1>0, <1>1, <1>6 DEF WorkInv, At, RowsAt, Unbegun, Failed
<1>10. At("commit", d, {})
  BY <1>7, <1>8, <1>9 DEF At
<1> QED BY <1>0, <1>3, <1>10, GoesDone

LEMMA OwnerDone ==
    ASSUME Inv, Owner
    PROVE  SeenInv' /\ WorkInv'
<1>0. at = "owner" /\ at \notin Done /\ TypeOK /\ PlaceInv /\ SeenInv /\ WorkInv
  BY DEF Owner, Done, Inv
<1>1. call \in Calls /\ Fits(call) /\ call.kind = "saveKid" /\ work \in Database
      /\ call.ownerNew \in BOOLEAN
  BY <1>0, KindAt, CallIs, WorkIs
<1>2. work.parents = seen.parents /\ work.tags = seen.tags
  BY <1>0 DEF WorkInv, At, RowsAt, Unbegun
<1>3. WantedParents = seen.parents \cup ({call.owner} \cap Parents)
  BY <1>1 DEF WantedParents
<1>4. call.owner \in Parents /\ ~call.ownerNew => call.owner \in seen.parents
  BY <1>1 DEF Fits
<1>5. ASSUME NEW d, d.kids = work.kids, d.links = work.links, d.tags = work.tags,
             d.parents = WantedParents
      PROVE  At("row", d, {})
  <2>1. \A k \in Kids \ touched : KidAt("row", d, {}, k)
    BY <1>0, <1>5 DEF WorkInv, At, KidAt, KidWaits, Unbegun
  <2>2. \A p \in Parents, t \in Tags : <<p, t>> \notin touched => PairAt("row", d, {}, p, t)
    BY <1>0, <1>5, PairsStay DEF Unlinked
  <2>3. RowsAt("row", d, {})
    BY <1>1, <1>2, <1>5 DEF RowsAt, Unbegun, Failed
  <2> QED BY <2>1, <2>2, <2>3 DEF At
<1>6. ASSUME call.owner \notin Parents \/ ~call.ownerNew
      PROVE  At("row", work, {})
  <2>1. work.parents = WantedParents
    BY <1>2, <1>3, <1>4, <1>6
  <2> QED BY <1>5, <2>1
<1> DEFINE e == [work EXCEPT !.parents = @ \cup {call.owner}]
<1>7. ASSUME call.owner \in Parents
      PROVE  At("row", e, {})
  <2>1. work.parents \cup {call.owner} \in SUBSET Parents
    BY <1>0, <1>7, WorkIs
  <2>2. /\ e.parents = work.parents \cup {call.owner} /\ e.kids = work.kids /\ e.links = work.links
        /\ e.tags = work.tags
    BY <1>1, <2>1, WithParents
  <2> HIDE DEF e
  <2>3. e.parents = WantedParents
    BY <1>2, <1>3, <1>7, <2>2
  <2> QED BY <1>5, <2>2, <2>3
<1>8. \/ (call.owner \notin Parents \/ ~call.ownerNew) /\ Goes(work, "row", {})
      \/ call.owner \in Parents /\ Goes(e, "row", {})
      \/ Abort("constraint")
  BY DEF Owner
<1> HIDE DEF e
<1> QED BY <1>0, <1>6, <1>7, <1>8, GoesDone, RefusesDone

LEMMA KidRowDone ==
    ASSUME Inv, KidRow
    PROVE  SeenInv' /\ WorkInv'
<1>0. at = "row" /\ call.kind = "saveKid" /\ at \notin Done /\ TypeOK /\ PlaceInv /\ SeenInv /\ WorkInv
  BY DEF KidRow, Done, Inv
<1>1. call \in Calls /\ Fits(call) /\ call.id \in Kids /\ work \in Database /\ call.new \in BOOLEAN
      /\ call.owner \in Parents \cup {NoParent, "NotSet"}
  BY <1>0, KindAt, CallIs, WorkIs
<1>2. Mine = {call.id} /\ Going = {}
  BY <1>0 DEF Mine, Going
<1>3. ASSUME NEW k \in Kids \ touched
      PROVE  SameKid(work.kids, seen.kids, k)
  BY <1>0 DEF WorkInv, At, KidAt, KidWaits, Unbegun
<1>4. call.id \in DOMAIN WantedKids /\ WantedKids[call.id] = KeyOf(call.id)
  BY <1>0, <1>2, WantedIs
<1>5. \A k : k # call.id => SameKid(WantedKids, seen.kids, k)
  BY <1>0, <1>2, WantedIs
<1>6. ASSUME NEW d, d.links = work.links, d.parents = work.parents, d.tags = work.tags,
             \A j \in Kids \ {call.id} : SameKid(d.kids, work.kids, j),
             call.id \notin touched => call.id \in DOMAIN d.kids /\ d.kids[call.id] = KeyOf(call.id)
      PROVE  At("commit", d, {})
  <2>1. ASSUME NEW j \in Kids \ touched
        PROVE  KidAt("commit", d, {}, j)
    <3>1. SameKid(d.kids, WantedKids, j)
      <4>1. CASE j = call.id
        BY <1>4, <1>6, <4>1 DEF SameKid
      <4>2. CASE j # call.id
        BY <1>3, <1>5, <1>6, <4>2 DEF SameKid
      <4> QED BY <4>1, <4>2
    <3> QED BY <3>1 DEF KidAt, KidWaits, Unbegun, Failed
  <2>2. ASSUME NEW p \in Parents, NEW t \in Tags, <<p, t>> \notin touched
        PROVE  PairAt("commit", d, {}, p, t)
    <3>1. Pair(work, p, t) = Pair(seen, p, t)
      BY <1>0, <2>2 DEF WorkInv, At, PairAt
    <3>2. Pair(d, p, t) = Pair(work, p, t)
      BY <1>6 DEF Pair, LinksOf
    <3>3. t \in WantedTags(p) <=> Pair(seen, p, t) # {}
      BY <1>0 DEF WantedTags, Pair
    <3> QED BY <3>1, <3>2, <3>3 DEF PairAt
  <2>3. RowsAt("commit", d, {})
    <3>1. RowsAt("row", work, left)
      BY <1>0 DEF WorkInv, At
    <3> QED BY <1>0, <1>6, <3>1 DEF RowsAt, Unbegun, Failed
  <2> QED BY <2>1, <2>2, <2>3 DEF At
<1>7. KeyOf(call.id) = IF call.owner = "NotSet" THEN Known(call.id) ELSE call.owner
  BY <1>0 DEF KeyOf
<1>8. ASSUME ~OwnChanged
      PROVE  At("commit", work, {})
  <2>1. call.id \in DOMAIN seen.kids /\ KeyOf(call.id) = seen.kids[call.id]
    <3>1. call.id \in DOMAIN seen.kids
      BY <1>0, <1>1, <1>8 DEF OwnChanged, Fits
    <3>2. call.owner \in {"NotSet", Known(call.id)}
      BY <1>8 DEF OwnChanged
    <3> QED BY <1>7, <3>1, <3>2 DEF Known
  <2>2. \A j \in Kids \ {call.id} : SameKid(work.kids, work.kids, j)
    BY DEF SameKid
  <2>3. call.id \notin touched => call.id \in DOMAIN work.kids /\ work.kids[call.id] = KeyOf(call.id)
    BY <1>1, <1>3, <2>1 DEF SameKid
  <2> QED BY <1>6, <2>2, <2>3
<1> DEFINE d == WithKid(work, call.id, OwnKey)
<1>9. At("commit", d, {})
  <2>1. OwnKey \in Parents \cup {NoParent}
    BY <1>0, <1>1, OwnKeyIs
  <2>2. /\ d.links = work.links /\ d.parents = work.parents /\ d.tags = work.tags
        /\ \A j \in Kids \ {call.id} : SameKid(d.kids, work.kids, j)
        /\ call.id \in DOMAIN d.kids /\ d.kids[call.id] = OwnKey
    BY <1>1, <2>1, PutKidSame
  <2> HIDE DEF d
  <2>3. call.id \notin touched /\ call.id \in DOMAIN work.kids => work.kids[call.id] = Known(call.id)
    BY <1>1, <1>3 DEF SameKid, Known
  <2>4. ASSUME call.id \notin touched, NEW p
        PROVE  Keyed(call.id, p) = p
    BY <2>3, <2>4 DEF Keyed
  <2>5. call.id \notin touched => OwnKey = KeyOf(call.id)
    <3>1. CASE call.owner = "NotSet"
      BY <1>7, <2>4, <3>1, NestedSaveAssumption DEF OwnKey
    <3>2. CASE call.owner = NoParent
      BY <1>7, <3>2, NestedSaveAssumption DEF OwnKey
    <3>3. CASE call.owner \notin {NoParent, "NotSet"}
      BY <1>7, <2>4, <3>3 DEF OwnKey
    <3> QED BY <3>1, <3>2, <3>3
  <2> QED BY <1>6, <2>2, <2>5
<1>10. \/ ~OwnChanged /\ Goes(work, "commit", {})
       \/ Goes(d, "commit", {})
       \/ Abort("constraint")
  BY DEF KidRow
<1> HIDE DEF d
<1> QED BY <1>0, <1>8, <1>9, <1>10, GoesDone, RefusesDone

LEMMA UnlinkAllDone ==
    ASSUME Inv, UnlinkAll
    PROVE  SeenInv' /\ WorkInv'
<1>0. at = "unlink" /\ at \notin Done /\ TypeOK /\ PlaceInv /\ SeenInv /\ WorkInv
  BY DEF UnlinkAll, Done, Inv
<1>1. work \in Database /\ call.kind = "delete"
  BY <1>0, WorkIs, KindAt
<1> DEFINE d == [work EXCEPT !.links = @ \ LinksOf(work, call.id)]
<1>2. /\ d.links = work.links \ LinksOf(work, call.id) /\ d.parents = work.parents
      /\ d.kids = work.kids /\ d.tags = work.tags
  <2>1. work.links \ LinksOf(work, call.id) \in SUBSET Links
    BY <1>0, WorkIs
  <2> QED BY <1>1, <2>1, WithLinks
<1>3. Goes(d, "dropRow", {})
  BY DEF UnlinkAll
<1> HIDE DEF d
<1>4. \A k \in Kids \ touched : KidAt("dropRow", d, {}, k)
  BY <1>0, <1>2, KidsStay DEF KidWaits, Unbegun, Failed
<1>5. ASSUME NEW p \in Parents, NEW t \in Tags, <<p, t>> \notin touched
      PROVE  PairAt("dropRow", d, {}, p, t)
  <2>1. Pair(work, p, t) = Pair(seen, p, t)
    BY <1>0, <1>5 DEF WorkInv, At, PairAt
  <2>2. Pair(d, p, t) = IF p = call.id THEN {} ELSE Pair(work, p, t)
    BY <1>2 DEF Pair, LinksOf
  <2>3. t \in WantedTags(p) <=> p # call.id /\ Pair(seen, p, t) # {}
    BY <1>1 DEF WantedTags, Pair
  <2>4. CASE p = call.id
    <3>1. Pair(d, p, t) = {} /\ t \notin WantedTags(p)
      BY <2>2, <2>3, <2>4
    <3> QED BY <3>1 DEF PairAt
  <2>5. CASE p # call.id
    <3>1. Pair(d, p, t) = Pair(seen, p, t) /\ (t \in WantedTags(p) <=> Pair(seen, p, t) # {})
      BY <2>1, <2>2, <2>3, <2>5
    <3> QED BY <3>1 DEF PairAt
  <2> QED BY <2>4, <2>5
<1>6. RowsAt("dropRow", d, {})
  BY <1>0, <1>1, <1>2 DEF WorkInv, At, RowsAt, Unbegun, Failed
<1>7. At("dropRow", d, {})
  BY <1>4, <1>5, <1>6 DEF At
<1> QED BY <1>0, <1>3, <1>7, GoesDone

LEMMA DropRowDone ==
    ASSUME Inv, DropRow
    PROVE  SeenInv' /\ WorkInv'
<1>0. at = "dropRow" /\ at \notin Done /\ TypeOK /\ PlaceInv /\ SeenInv /\ WorkInv
  BY DEF DropRow, Done, Inv
<1>1. work \in Database /\ call.kind = "delete"
  BY <1>0, WorkIs, KindAt
<1> DEFINE d == [work EXCEPT !.parents = @ \ {call.id}]
<1>2. /\ d.parents = work.parents \ {call.id} /\ d.links = work.links
      /\ d.kids = work.kids /\ d.tags = work.tags
  <2>1. work.parents \ {call.id} \in SUBSET Parents
    BY <1>0, WorkIs
  <2> QED BY <1>1, <2>1, WithParents
<1>3. Goes(d, "commit", {})
  BY DEF DropRow
<1> HIDE DEF d
<1>4. \A k \in Kids \ touched : KidAt("commit", d, {}, k)
  BY <1>0, <1>2, KidsStay DEF KidWaits, Unbegun, Failed
<1>5. ASSUME NEW p \in Parents, NEW t \in Tags, <<p, t>> \notin touched
      PROVE  PairAt("commit", d, {}, p, t)
  <2>1. PairAt("dropRow", work, left, p, t)
    BY <1>0, <1>5 DEF WorkInv, At
  <2>2. Pair(d, p, t) = Pair(work, p, t)
    BY <1>2 DEF Pair, LinksOf
  <2> QED BY <2>1, <2>2 DEF PairAt
<1>6. RowsAt("commit", d, {})
  <2>1. work.parents = seen.parents /\ WantedParents = seen.parents \ {call.id}
    BY <1>0, <1>1 DEF WorkInv, At, RowsAt, WantedParents
  <2> QED BY <1>1, <1>2, <2>1 DEF RowsAt, Unbegun, Failed
<1>7. At("commit", d, {})
  BY <1>4, <1>5, <1>6 DEF At
<1> QED BY <1>0, <1>3, <1>7, GoesDone

LEMMA CommitDone ==
    ASSUME Inv, Commit
    PROVE  SeenInv' /\ WorkInv'
<1>0. at = "commit" /\ TypeOK /\ PlaceInv /\ WorkInv
  BY DEF Commit, Inv
<1>1. /\ call' = call /\ seen' = seen /\ schema' = schema /\ touched' = touched /\ work' = work
      /\ at' = "ok"
  BY DEF Commit
<1>2. SeenInv'
  BY <1>1 DEF SeenInv
<1>3. ASSUME NEW k \in Kids \ touched
      PROVE  KidAt(at, work, left, k)'
  <2>1. SameKid(work.kids, WantedKids, k)
    BY <1>0 DEF WorkInv, At, KidAt, KidWaits, Unbegun, Failed
  <2>2. SameKid(work.kids, WantedKids, k)'
    BY <1>1, <2>1, CallSame DEF SameKid
  <2> QED BY <1>1, <2>2 DEF KidAt, KidWaits, Unbegun, Failed
<1>4. ASSUME NEW p \in Parents, NEW t \in Tags, <<p, t>> \notin touched
      PROVE  PairAt(at, work, left, p, t)'
  <2>1. PairAt("commit", work, left, p, t)
    BY <1>0, <1>4 DEF WorkInv, At
  <2>2. Pair(work, p, t)' = Pair(work, p, t)
    BY <1>1 DEF Pair, LinksOf
  <2> QED BY <1>1, <2>1, <2>2, CallSame DEF PairAt
<1>5. RowsAt(at, work, left)'
  <2>1. RowsAt("commit", work, left)
    BY <1>0 DEF WorkInv, At
  <2>2. Ids(call.tags)' = Ids(call.tags)
    BY <1>1 DEF Ids
  <2> QED BY <1>1, <2>1, <2>2, CallSame DEF RowsAt, Unbegun, Failed
<1>6. At(at, work, left)'
  BY <1>1, <1>3, <1>4, <1>5 DEF At
<1> QED BY <1>2, <1>6 DEF WorkInv

LEMMA BeginDone ==
    ASSUME Inv, NEW c \in Calls, Begin(c)
    PROVE  SeenInv' /\ WorkInv'
<1>0. at = "idle" /\ TypeOK /\ PlaceInv /\ SeenInv /\ WorkInv
  BY DEF Begin, Inv
<1>1. /\ call' = c /\ seen' = seen /\ schema' = schema /\ touched' = touched /\ work' = work
      /\ db' = db
  BY DEF Begin
<1>2. at' \in Unbegun \ Failed /\ Unlinked(at')
  BY <1>0, BeginKeeps DEF Unlinked, Unbegun, Failed
<1>3. c.kind \in {"save", "saveKid", "delete"}
  BY CallIs
<1>4. \A p, t : Pair(seen, p, t)' = Pair(seen, p, t) /\ Pair(db, p, t)' = Pair(db, p, t)
                /\ Pair(work, p, t)' = Pair(work, p, t)
  BY <1>1 DEF Pair, LinksOf
<1>5. SeenInv'
  BY <1>0, <1>1, <1>4 DEF SeenInv, SameKid
<1>6. ASSUME NEW k \in Kids \ touched
      PROVE  KidAt(at, work, left, k)'
  <2>1. SameKid(work.kids, seen.kids, k)
    BY <1>0 DEF WorkInv, At, KidAt, KidWaits, Unbegun
  <2> QED BY <1>1, <1>2, <2>1 DEF KidAt, KidWaits, SameKid, Unbegun, Failed
<1>7. ASSUME NEW p \in Parents, NEW t \in Tags, <<p, t>> \notin touched
      PROVE  PairAt(at, work, left, p, t)'
  <2>1. Pair(work, p, t) = Pair(seen, p, t)
    BY <1>0, <1>7 DEF WorkInv, At, PairAt
  <2> QED BY <1>2, <1>4, <2>1 DEF PairAt, Unlinked
<1>8. RowsAt(at, work, left)'
  <2>1. work.parents = seen.parents /\ work.tags = seen.tags
    BY <1>0 DEF WorkInv, At, RowsAt, Unbegun
  <2>2. \/ c.kind = "save" /\ at' = "row"
        \/ c.kind = "saveKid" /\ at' = "owner"
        \/ c.kind = "delete" /\ at' = "find"
    BY <1>3 DEF Begin
  <2> QED BY <1>1, <2>1, <2>2 DEF RowsAt, Unbegun, Failed
<1>9. At(at, work, left)'
  BY <1>1, <1>6, <1>7, <1>8 DEF At
<1> QED BY <1>5, <1>9 DEF WorkInv

LEMMA FailsDone ==
    ASSUME Inv, Fails
    PROVE  SeenInv' /\ WorkInv'
BY AbortDone DEF Failed, Fails, Inv

(***************************************************************************)
(* What others do to a row.                                                *)
(***************************************************************************)
LEMMA OtherDone ==
    ASSUME Inv, NEW d, NEW w, NEW what, Other(d, w, what),
           d.parents = db.parents, d.tags = db.tags, w.parents = work.parents, w.tags = work.tags,
           \A k \in Kids \ what : SameKid(d.kids, db.kids, k) /\ SameKid(w.kids, work.kids, k),
           \A p \in Parents, t \in Tags : <<p, t>> \notin what =>
              Pair(d, p, t) = Pair(db, p, t) /\ Pair(w, p, t) = Pair(work, p, t)
    PROVE  SeenInv' /\ WorkInv'
<1>0. SeenInv /\ WorkInv /\ at # "ok"
  BY DEF Inv, Other, Done
<1>1. /\ call' = call /\ seen' = seen /\ schema' = schema /\ touched' = touched \cup what
      /\ work' = w /\ db' = d /\ at' = at /\ left' = left /\ toLink' = toLink
  BY DEF Other
<1>2. \A p, t : /\ Pair(seen, p, t)' = Pair(seen, p, t) /\ Pair(db, p, t)' = Pair(d, p, t)
                /\ Pair(work, p, t)' = Pair(w, p, t)
  BY <1>1 DEF Pair, LinksOf
<1>3. SeenInv'
  <2>1. \A k \in Kids \ touched' : SameKid(db.kids, seen.kids, k)'
    BY <1>0, <1>1 DEF SeenInv, SameKid
  <2>2. \A p \in Parents, t \in Tags : <<p, t>> \notin touched' => Pair(db, p, t)' = Pair(seen, p, t)'
    BY <1>0, <1>1, <1>2 DEF SeenInv
  <2> QED BY <1>0, <1>1, <2>1, <2>2 DEF SeenInv
<1>4. Ids(left)' = Ids(left) /\ Ids(call.tags)' = Ids(call.tags)
      /\ Ids(call.tags \ left)' = Ids(call.tags \ left)
  BY <1>1 DEF Ids
<1>5. ASSUME NEW k \in Kids \ touched'
      PROVE  KidAt(at, work, left, k)'
  <2>1. KidAt(at, work, left, k) /\ SameKid(w.kids, work.kids, k)
    BY <1>0, <1>1, <1>5 DEF WorkInv, At
  <2>2. KidWaits(at, left, k)' <=> KidWaits(at, left, k)
    BY <1>1, <1>4, CallSame DEF KidWaits
  <2> QED BY <1>1, <2>1, <2>2, CallSame DEF KidAt, SameKid
<1>6. ASSUME NEW p \in Parents, NEW t \in Tags, <<p, t>> \notin touched'
      PROVE  PairAt(at, work, left, p, t)'
  <2>1. PairAt(at, work, left, p, t)
    BY <1>0, <1>1, <1>6 DEF WorkInv, At
  <2>2. Pair(work, p, t)' = Pair(work, p, t)
    BY <1>1, <1>2, <1>6
  <2> QED BY <1>1, <1>4, <2>1, <2>2, CallSame DEF PairAt
<1>7. RowsAt(at, work, left)'
  <2>1. RowsAt(at, work, left)
    BY <1>0 DEF WorkInv, At
  <2> QED BY <1>1, <1>4, <2>1, CallSame DEF RowsAt
<1>8. At(at, work, left)'
  BY <1>5, <1>6, <1>7 DEF At
<1> QED BY <1>3, <1>8 DEF WorkInv

LEMMA PutKidDone ==
    ASSUME Inv, NEW k \in Kids, NEW p \in Parents \cup {NoParent}, PutKid(k, p)
    PROVE  SeenInv' /\ WorkInv'
<1>1. db \in Database /\ work \in Database
  BY WorkIs DEF Inv
<1> DEFINE D(d) == WithKid(d, k, p)
<1>2. ASSUME NEW d \in {db, work}
      PROVE  /\ D(d).parents = d.parents /\ D(d).tags = d.tags
             /\ \A j \in Kids \ {k} : SameKid(D(d).kids, d.kids, j)
             /\ \A q \in Parents, t \in Tags : Pair(D(d), q, t) = Pair(d, q, t)
  <2>1. d \in Database
    BY <1>1
  <2>2. /\ D(d).parents = d.parents /\ D(d).tags = d.tags /\ D(d).links = d.links
        /\ \A j \in Kids \ {k} : SameKid(D(d).kids, d.kids, j)
    BY <2>1, PutKidSame
  <2> HIDE DEF D
  <2> QED BY <2>2 DEF Pair, LinksOf
<1>3. Other(D(db), D(work), {k})
  BY DEF PutKid
<1> HIDE DEF D
<1> QED BY <1>2, <1>3, OtherDone

LEMMA TakeKidDone ==
    ASSUME Inv, NEW k \in Kids, TakeKid(k)
    PROVE  SeenInv' /\ WorkInv'
<1>1. db \in Database /\ work \in Database
  BY WorkIs DEF Inv
<1> DEFINE D(d) == WithoutKids(d, {k})
<1>2. ASSUME NEW d \in {db, work}
      PROVE  /\ D(d).parents = d.parents /\ D(d).tags = d.tags
             /\ \A j \in Kids \ {k} : SameKid(D(d).kids, d.kids, j)
             /\ \A q \in Parents, t \in Tags : Pair(D(d), q, t) = Pair(d, q, t)
  <2>1. d \in Database
    BY <1>1
  <2>2. /\ D(d).parents = d.parents /\ D(d).tags = d.tags /\ D(d).links = d.links
        /\ DOMAIN D(d).kids = DOMAIN d.kids \ {k}
        /\ \A j \in DOMAIN d.kids \ {k} : D(d).kids[j] = d.kids[j]
    BY <2>1, TakeKidsIs
  <2> HIDE DEF D
  <2> QED BY <2>2 DEF Pair, LinksOf, SameKid
<1>3. Other(D(db), D(work), {k})
  BY DEF TakeKid
<1> HIDE DEF D
<1> QED BY <1>2, <1>3, OtherDone

LEMMA PutLinkDone ==
    ASSUME Inv, NEW p \in Parents, NEW t \in Tags, PutLink(p, t)
    PROVE  SeenInv' /\ WorkInv'
<1>0. TypeOK
  BY DEF Inv
<1>1. db \in Database /\ work \in Database
  BY <1>0, WorkIs
<1> DEFINE D(d) == [d EXCEPT !.links = @ \cup Linked(d, p, {t})]
<1>2. ASSUME NEW d \in {db, work}
      PROVE  /\ D(d).parents = d.parents /\ D(d).tags = d.tags
             /\ \A j \in Kids : SameKid(D(d).kids, d.kids, j)
             /\ \A q \in Parents, s \in Tags : <<q, s>> # <<p, t>> => Pair(D(d), q, s) = Pair(d, q, s)
  <2>1. d \in Database /\ d.links \subseteq Links
    BY <1>1, DatabaseIs
  <2> DEFINE new == Linked(d, p, {t})
  <2>2. new \subseteq Links /\ \A l \in new : l.parent = p /\ l.tag = t
    BY <1>0, <2>1, LinkedIs
  <2> DEFINE e == [d EXCEPT !.links = d.links \cup new]
  <2>3. D(d) = e
    OBVIOUS
  <2> HIDE DEF new, D
  <2>4. /\ e.parents = d.parents /\ e.tags = d.tags /\ e.kids = d.kids
        /\ e.links = d.links \cup new
    <3>1. d.links \cup new \in SUBSET Links
      BY <2>1, <2>2
    <3> QED BY <2>1, <3>1, WithLinks
  <2> HIDE DEF e
  <2> QED BY <2>2, <2>3, <2>4 DEF Pair, LinksOf, SameKid
<1>3. Other(D(db), D(work), {<<p, t>>})
  BY DEF PutLink
<1> HIDE DEF D
<1> QED BY <1>2, <1>3, OtherDone

LEMMA TakeLinkDone ==
    ASSUME Inv, NEW m \in Links, TakeLink(m)
    PROVE  SeenInv' /\ WorkInv'
<1>1. db \in Database /\ work \in Database
  BY WorkIs DEF Inv
<1> DEFINE D(d) == [d EXCEPT !.links = @ \ {m}]
<1>2. ASSUME NEW d \in {db, work}
      PROVE  /\ D(d).parents = d.parents /\ D(d).tags = d.tags
             /\ \A j \in Kids : SameKid(D(d).kids, d.kids, j)
             /\ \A q \in Parents, s \in Tags : <<q, s>> # <<m.parent, m.tag>> =>
                   Pair(D(d), q, s) = Pair(d, q, s)
  <2>1. d \in Database /\ d.links \ {m} \in SUBSET Links
    BY <1>1, DatabaseIs
  <2>2. /\ D(d).parents = d.parents /\ D(d).tags = d.tags /\ D(d).kids = d.kids
        /\ D(d).links = d.links \ {m}
    BY <2>1, WithLinks
  <2> HIDE DEF D
  <2> QED BY <2>2 DEF Pair, LinksOf, SameKid
<1>3. Other(D(db), D(work), {<<m.parent, m.tag>>})
  BY DEF TakeLink
<1> HIDE DEF D
<1> QED BY <1>2, <1>3, OtherDone

LEMMA DoneInitially == Init => Inv
<1> SUFFICES ASSUME Init PROVE Inv
  OBVIOUS
<1>1. TypeOK /\ PlaceInv
  BY TypesInitially
<1>2. at = "idle" /\ seen = db /\ work = db
  BY DEF Init
<1>3. SeenInv
  BY <1>2 DEF SeenInv, SameKid
<1>4. \A k \in Kids : KidAt(at, work, left, k)
  BY <1>2 DEF KidAt, KidWaits, SameKid, Unbegun
<1>5. \A p \in Parents, t \in Tags : PairAt(at, work, left, p, t)
  BY <1>2 DEF PairAt
<1>6. RowsAt(at, work, left)
  BY <1>2 DEF RowsAt, Unbegun
<1>7. At(at, work, left)
  BY <1>4, <1>5, <1>6 DEF At
<1> QED BY <1>1, <1>3, <1>7 DEF Inv, WorkInv

LEMMA DoneStep == Inv /\ [Next]_vars => Inv'
<1> SUFFICES ASSUME Inv, [Next]_vars PROVE Inv'
  OBVIOUS
<1>1. TypeOK' /\ PlaceInv'
  BY TypesStep DEF Inv
<1>2. CASE UNCHANGED vars
  <2>1. /\ call' = call /\ seen' = seen /\ schema' = schema /\ at' = at /\ left' = left
        /\ toLink' = toLink /\ db' = db /\ work' = work /\ touched' = touched
    BY <1>2 DEF vars
  <2>2. \A p, t : Pair(seen, p, t)' = Pair(seen, p, t) /\ Pair(db, p, t)' = Pair(db, p, t)
    BY <2>1 DEF Pair, LinksOf
  <2>3. SeenInv'
    BY <2>1, <2>2 DEF Inv, SeenInv, SameKid
  <2>4. WorkInv'
    <3>1. PICK a, w, i : a = at /\ w = work /\ i = left
      OBVIOUS
    <3>2. At(a, w, i)
      BY <3>1 DEF Inv, WorkInv
    <3>3. At(a, w, i)'
      BY <2>1, <3>2, AtSame
    <3>4. a = at' /\ w = work' /\ i = left'
      BY <2>1, <3>1
    <3> QED BY <3>3, <3>4 DEF WorkInv
  <2> QED BY <1>1, <2>3, <2>4 DEF Inv
<1>3. CASE Next
  <2>1. SeenInv' /\ WorkInv'
    BY <1>3, BeginDone, RowDone, FindKidsDone, FindLinksDone, DropLinksDone, LinkDone, OwnerDone,
       KidRowDone, UnlinkAllDone, DropRowDone, TurnDone, CommitDone, FailsDone, DropDone, KidDone,
       TagDone, TakeKidDone, PutKidDone, PutLinkDone, TakeLinkDone DEF Next
  <2> QED BY <1>1, <2>1 DEF Inv
<1> QED BY <1>2, <1>3

LEMMA PairsFinite ==
    ASSUME NEW p \in Parents, NEW t \in Tags
    PROVE  /\ Cardinality({}) = 0
           /\ Cardinality({[parent |-> p, tag |-> t, n |-> 1]}) = 1
BY FS_EmptySet, FS_Singleton

LEMMA DoneIsSaved == Inv => SavedAsAsked
<1> SUFFICES ASSUME Inv, at = "ok" PROVE SavedAsAsked
  BY DEF SavedAsAsked
<1>1. work = db
  BY DEF Inv, TypeOK, Done
<1>2. At("ok", db, left)
  BY <1>1 DEF Inv, WorkInv
<1>3. \A k \in Kids \ touched : SameKid(db.kids, WantedKids, k)
  BY <1>2 DEF At, KidAt, KidWaits, Unbegun, Failed
<1>4. ASSUME NEW p \in Parents, NEW t \in Tags, <<p, t>> \notin touched
      PROVE  /\ Pair(db, p, t) # {} <=> t \in WantedTags(p)
             /\ Cardinality(Pair(db, p, t)) > 1 => Cardinality(Pair(seen, p, t)) > 1
  <2>1. PairAt("ok", db, left, p, t)
    BY <1>2, <1>4 DEF At
  <2>2. /\ Pair(db, p, t) # {} <=> t \in WantedTags(p)
        /\ Pair(db, p, t) \in {Pair(seen, p, t), {}, {[parent |-> p, tag |-> t, n |-> 1]}}
    BY <2>1 DEF PairAt
  <2>3. CASE Pair(db, p, t) = Pair(seen, p, t)
    BY <2>2, <2>3
  <2>4. CASE Pair(db, p, t) = {}
    <3>1. Cardinality(Pair(db, p, t)) = 0
      BY <2>4, PairsFinite
    <3> QED BY <2>2, <3>1
  <2>5. CASE Pair(db, p, t) = {[parent |-> p, tag |-> t, n |-> 1]}
    <3>1. Cardinality(Pair(db, p, t)) = 1
      BY <2>5, PairsFinite
    <3> QED BY <2>2, <3>1
  <2> QED BY <2>2, <2>3, <2>4, <2>5
<1>5. db.parents = WantedParents
  BY <1>2 DEF At, RowsAt, Failed
<1> QED BY <1>3, <1>4, <1>5 DEF SavedAsAsked

\* What others leave alone, a call that ends well leaves as it was asked to.
THEOREM AlwaysSavedAsAsked == Spec => []SavedAsAsked
<1>1. Init => Inv
  BY DoneInitially
<1>2. Inv /\ [Next]_vars => Inv'
  BY DoneStep
<1>3. Inv => SavedAsAsked
  BY DoneIsSaved
<1> QED BY <1>1, <1>2, <1>3, PTL DEF Spec


(***************************************************************************)
(* A call that nobody disturbs.                                            *)
(***************************************************************************)
LEMMA FitGoes ==
    ASSUME at \notin Done, NEW d, NEW next, NEW items, Goes(d, next, items), next \notin Failed,
           touched = {} => Consistent(d) \/ Mistaken,
           touched = {} /\ Consistent(d) => FitAt(next, items)
    PROVE  FitInv'
<1> SUFFICES ASSUME touched' = {}
             PROVE  (at = "constraint" => Mistaken)' /\ (at \notin Failed => FitAt(at, left))'
  BY DEF FitInv
<1>1. CASE Moves(d, next, items)
  <2>1. /\ call' = call /\ seen' = seen /\ schema' = schema /\ at' = next /\ left' = items
        /\ touched = {} /\ Consistent(d)
    BY <1>1 DEF Moves
  <2>2. FitAt(next, items)
    BY <2>1
  <2>3. FitAt(at, left)'
    BY <2>1, <2>2, CallSame DEF FitAt
  <2> QED BY <2>1, <2>3 DEF Failed
<1>2. CASE ~Consistent(d) /\ Abort("constraint")
  <2>1. call' = call /\ seen' = seen /\ schema' = schema /\ at' = "constraint" /\ touched = {}
    BY <1>2 DEF Abort
  <2>2. Mistaken'
    BY <1>2, <2>1, CallSame
  <2> QED BY <2>1, <2>2 DEF Failed
<1> QED BY <1>1, <1>2, GoesIs

LEMMA FitRefuses ==
    ASSUME Abort("constraint"), touched = {} => Mistaken
    PROVE  FitInv'
<1>1. call' = call /\ seen' = seen /\ schema' = schema /\ at' = "constraint" /\ touched' = touched
  BY DEF Abort
<1>2. Mistaken' <=> Mistaken
  BY <1>1, CallSame
<1> QED BY <1>1, <1>2 DEF FitInv, Failed

\* Where a row is there unless it is new, the action is all that can be wrong.
LEMMA WritesFitting ==
    ASSUME call \in Calls, NEW new \in BOOLEAN, NEW x, NEW rows, x \in rows <=> ~new
    PROVE  Writes(new, x \in rows) <=> ~Misfit(new)
<1>1. call.action \in Actions
  BY CallIs
<1> QED BY <1>1 DEF Writes, Misfit, Actions

\* Fewer kids and links, more parents and tags break no key.
LEMMA LessIsConsistent ==
    ASSUME NEW d \in Database, NEW e \in Database, Consistent(d),
           DOMAIN e.kids \subseteq DOMAIN d.kids,
           \A k \in DOMAIN e.kids : e.kids[k] = d.kids[k] \/ (e.kids[k] = NoParent /\ schema.nullable),
           d.parents \subseteq e.parents, d.tags \subseteq e.tags, e.links \subseteq d.links
    PROVE  Consistent(e)
<1>1. /\ \A k \in DOMAIN d.kids :
            IF d.kids[k] = NoParent THEN schema.nullable ELSE d.kids[k] \in d.parents
      /\ schema.one => \A j, k \in DOMAIN d.kids :
                          d.kids[j] = d.kids[k] /\ d.kids[j] # NoParent => j = k
      /\ \A l \in d.links : l.parent \in d.parents /\ l.tag \in d.tags
  BY ConsistentMeans
<1>2. \A k \in DOMAIN e.kids :
         IF e.kids[k] = NoParent THEN schema.nullable ELSE e.kids[k] \in e.parents
  BY <1>1
<1>3. schema.one => \A j, k \in DOMAIN e.kids :
                       e.kids[j] = e.kids[k] /\ e.kids[j] # NoParent => j = k
  BY <1>1
<1>4. \A l \in e.links : l.parent \in e.parents /\ l.tag \in e.tags
  BY <1>1
<1> QED BY <1>2, <1>3, <1>4, ConsistentMeans

LEMMA Standing ==
    ASSUME Inv
    PROVE  /\ TypeOK /\ PlaceInv /\ SeenInv /\ At(at, work, left)
           /\ \A d \in {seen, db, work} : d \in Database /\ Consistent(d)
BY WorkIs DEF Inv, WorkInv

LEMMA RowFits ==
    ASSUME Inv, FitInv, Row
    PROVE  FitInv'
<1>0. at = "row" /\ call.kind = "save" /\ at \notin Done /\ TypeOK /\ PlaceInv
  BY Standing DEF Row, Done
<1>1. call \in Calls /\ Fits(call) /\ call.id \in Parents /\ work \in Database /\ call.new \in BOOLEAN
      /\ call.changed \in BOOLEAN /\ Consistent(work) /\ work.parents \subseteq Parents
  BY <1>0, KindAt, CallIs, Standing, WorkIs
<1>2. work.parents = seen.parents
  BY <1>0, Standing DEF At, RowsAt, Unbegun
<1>3. call.id \in work.parents <=> ~call.new
  BY <1>0, <1>1, <1>2 DEF Fits
<1>4. Writes(call.new, call.id \in work.parents) <=> ~Misfit(call.new)
  BY <1>1, <1>3, WritesFitting
<1> DEFINE e == [work EXCEPT !.parents = @ \cup {call.id}]
<1>5. Consistent(e)
  <2>1. work.parents \cup {call.id} \in SUBSET Parents
    BY <1>1
  <2>2. /\ e \in Database /\ e.parents = work.parents \cup {call.id} /\ e.kids = work.kids
        /\ e.links = work.links /\ e.tags = work.tags
    BY <1>1, <2>1, WithParents
  <2> HIDE DEF e
  <2> QED BY <1>1, <2>2, LessIsConsistent
<1>6. (call.new \/ call.changed => ~Misfit(call.new)) => FitAt("find", {})
  BY <1>0 DEF FitAt, Unbegun
<1>7. \/ ~call.new /\ ~call.changed /\ Goes(work, "find", {})
      \/ (call.new \/ call.changed) /\ ~Writes(call.new, call.id \in work.parents) /\ Abort("constraint")
      \/ Writes(call.new, call.id \in work.parents) /\ Goes(e, "find", {})
  BY <1>1 DEF Row
<1> HIDE DEF e
<1>8. (call.new \/ call.changed) /\ Misfit(call.new) => Mistaken
  BY <1>0 DEF Mistaken
<1>9. "find" \notin Failed
  BY DEF Failed
<1>10. CASE ~call.new /\ ~call.changed /\ Goes(work, "find", {})
  BY <1>0, <1>1, <1>6, <1>9, <1>10, FitGoes
<1>11. CASE /\ call.new \/ call.changed
            /\ ~Writes(call.new, call.id \in work.parents) /\ Abort("constraint")
  BY <1>4, <1>8, <1>11, FitRefuses
<1>12. CASE Writes(call.new, call.id \in work.parents) /\ Goes(e, "find", {})
  BY <1>0, <1>4, <1>5, <1>6, <1>9, <1>12, FitGoes
<1> QED BY <1>7, <1>10, <1>11, <1>12

LEMMA FindKidsFits ==
    ASSUME Inv, FitInv, FindKids
    PROVE  FitInv'
<1>0. at = "find" /\ at \notin Done /\ at \notin Failed /\ Consistent(work)
  BY Standing DEF FindKids, Done, Failed
<1>1. touched = {} => FitAt("drop", Leavers)
  BY <1>0 DEF FitInv, FitAt, Unbegun
<1> QED BY <1>0, <1>1, FitGoes DEF FindKids, Failed

LEMMA DropFits ==
    ASSUME Inv, FitInv, NEW k \in left, Drop(k)
    PROVE  FitInv'
<1>0. at = "drop" /\ at \notin Done /\ at \notin Failed /\ TypeOK /\ PlaceInv
  BY Standing DEF Drop, Done, Failed
<1>1. work \in Database /\ Consistent(work) /\ k \in Kids /\ "drop" \notin Failed
  BY <1>0, Standing DEF PlaceInv, LeftFits
<1>2. touched = {} => FitAt("drop", left \ {k})
  BY <1>0 DEF FitInv, FitAt, Unbegun
<1>3. Consistent(WithoutKids(work, {k}))
  <2> DEFINE d == WithoutKids(work, {k})
  <2>1. /\ d \in Database /\ d.links = work.links /\ d.parents = work.parents /\ d.tags = work.tags
        /\ DOMAIN d.kids = DOMAIN work.kids \ {k}
        /\ \A j \in DOMAIN work.kids \ {k} : d.kids[j] = work.kids[j]
    BY <1>1, TakeKidsIs
  <2> HIDE DEF d
  <2>2. Consistent(d)
    BY <1>1, <2>1, LessIsConsistent
  <2> QED BY <2>2 DEF d
<1>4. schema.nullable /\ k \in DOMAIN work.kids => Consistent(WithKid(work, k, NoParent))
  <2> DEFINE d == WithKid(work, k, NoParent)
  <2>1. /\ d \in Database /\ d.links = work.links /\ d.parents = work.parents /\ d.tags = work.tags
        /\ DOMAIN d.kids = DOMAIN work.kids \cup {k} /\ d.kids[k] = NoParent
        /\ \A j \in DOMAIN work.kids : j # k => d.kids[j] = work.kids[j]
    BY <1>1, PutKidIs
  <2> HIDE DEF d
  <2>2. schema.nullable /\ k \in DOMAIN work.kids => Consistent(d)
    BY <1>1, <2>1, LessIsConsistent
  <2> QED BY <2>2 DEF d
<1>5. touched = {} => k \in DOMAIN work.kids
  <2> SUFFICES ASSUME touched = {} PROVE k \in DOMAIN work.kids
    OBVIOUS
  <2>1. KidAt("drop", work, left, k)
    BY <1>0, <1>1, Standing DEF At
  <2>2. SameKid(work.kids, seen.kids, k) /\ k \in Going
    BY <2>1 DEF KidAt, KidWaits
  <2> QED BY <1>0, <2>2, WantedIs DEF SameKid
<1>6. \/ Goes(WithoutKids(work, {k}), "drop", left \ {k})
      \/ schema.nullable /\ k \in DOMAIN work.kids /\ Goes(WithKid(work, k, NoParent), "drop", left \ {k})
      \/ k \notin DOMAIN work.kids /\ Abort("constraint")
  BY DEF Drop
<1> QED BY <1>0, <1>1, <1>2, <1>3, <1>4, <1>5, <1>6, FitGoes, FitRefuses

LEMMA TurnFits ==
    ASSUME Inv, FitInv, Turn
    PROVE  FitInv'
<1>0. TypeOK /\ PlaceInv /\ Consistent(work)
  BY Standing
<1>1. left = {} /\ at \notin Done
  BY <1>0, TurnIs
<1>2. at \in {"drop", "kids", "tags"} /\ at \notin Failed
  BY DEF Turn, Failed
<1>3. CASE at = "drop" /\ call.kind = "delete" /\ Goes(work, "unlink", {})
  BY <1>0, <1>1, <1>3, FitGoes DEF FitAt, Failed
<1>4. CASE at = "drop" /\ call.kind = "save" /\ Goes(work, "kids", call.kids)
  <2>1. touched = {} => FitAt("kids", call.kids)
    BY <1>2, <1>4 DEF FitInv, FitAt, Unbegun
  <2> QED BY <1>0, <1>1, <1>4, <2>1, FitGoes DEF Failed
<1>5. CASE at = "kids" /\ call.kind = "save" /\ Goes(work, "tags", call.tags)
  <2>1. touched = {} => FitAt("tags", call.tags)
    BY <1>1, <1>2, <1>5 DEF FitInv, FitAt, Unbegun, Failed
  <2> QED BY <1>0, <1>1, <1>5, <2>1, FitGoes DEF Failed
<1>6. CASE at = "tags" /\ call.kind = "save" /\ Goes(work, "findLinks", {})
  <2>1. touched = {} => FitAt("findLinks", {})
    BY <1>1, <1>2, <1>6 DEF FitInv, FitAt, Unbegun, Failed
  <2> QED BY <1>0, <1>1, <1>6, <2>1, FitGoes DEF Failed
<1> QED BY <1>0, <1>3, <1>4, <1>5, <1>6, TurnIs

LEMMA TagFits ==
    ASSUME Inv, FitInv, NEW i \in left, Tag(i)
    PROVE  FitInv'
<1>0. at = "tags" /\ at \notin Done /\ at \notin Failed /\ TypeOK /\ PlaceInv
  BY Standing DEF Tag, Done, Failed
<1>1. call.kind = "save" /\ call \in Calls /\ Fits(call) /\ work \in Database /\ Consistent(work)
      /\ work.tags \subseteq Tags
  BY <1>0, KindAt, Standing, WorkIs
<1>2. left \subseteq call.tags /\ i \in call.tags /\ call.tags \in SUBSET Item(Tags)
  BY <1>0, <1>1, CallIs DEF PlaceInv, LeftFits
<1>3. i.id \in Tags /\ i.new \in BOOLEAN /\ i.changed \in BOOLEAN
  BY <1>2, ItemsHaveIds
<1>4. i.id \in work.tags <=> ~i.new
  <2>1. i.id \in work.tags <=> i.id \in seen.tags
    BY <1>0, Standing DEF At, RowsAt
  <2> QED BY <1>1, <1>2, <2>1 DEF Fits
<1>5. Writes(i.new, i.id \in work.tags) <=> ~Misfit(i.new)
  BY <1>1, <1>3, <1>4, WritesFitting
<1> DEFINE e == [work EXCEPT !.tags = @ \cup {i.id}]
<1>6. Consistent(e)
  <2>1. work.tags \cup {i.id} \in SUBSET Tags
    BY <1>1, <1>3
  <2>2. /\ e \in Database /\ e.tags = work.tags \cup {i.id} /\ e.kids = work.kids
        /\ e.links = work.links /\ e.parents = work.parents
    BY <1>1, <2>1, WithTags
  <2> HIDE DEF e
  <2> QED BY <1>1, <2>2, LessIsConsistent
<1>7. touched = {} /\ (i.new \/ i.changed => ~Misfit(i.new)) => FitAt("tags", left \ {i})
  BY <1>0, <1>1 DEF FitInv, FitAt, Unbegun, Failed
<1>8. (i.new \/ i.changed) /\ Misfit(i.new) => Mistaken
  BY <1>1, <1>2 DEF Mistaken
<1>9. \/ ~(i.new \/ i.changed) /\ Goes(work, "tags", left \ {i})
      \/ (i.new \/ i.changed) /\ ~Writes(i.new, i.id \in work.tags) /\ Abort("constraint")
      \/ Writes(i.new, i.id \in work.tags) /\ Goes(e, "tags", left \ {i})
  BY <1>3 DEF Tag
<1> HIDE DEF e
<1>10. "tags" \notin Failed
  BY DEF Failed
<1>11. CASE ~(i.new \/ i.changed) /\ Goes(work, "tags", left \ {i})
  BY <1>0, <1>1, <1>7, <1>10, <1>11, FitGoes
<1>12. CASE (i.new \/ i.changed) /\ ~Writes(i.new, i.id \in work.tags) /\ Abort("constraint")
  BY <1>5, <1>8, <1>12, FitRefuses
<1>13. CASE Writes(i.new, i.id \in work.tags) /\ Goes(e, "tags", left \ {i})
  BY <1>0, <1>5, <1>6, <1>7, <1>10, <1>13, FitGoes
<1> QED BY <1>9, <1>11, <1>12, <1>13

\* The place of a kid: none but those of the call has it.
LEMMA PlaceIsFree ==
    ASSUME Inv, touched = {}, at = "kids", call.kind = "save", schema.one, NEW i \in left,
           NEW j \in DOMAIN work.kids, work.kids[j] = call.id
    PROVE  j = i.id
<1>0. TypeOK /\ PlaceInv /\ at \notin Done
  BY Standing DEF Done
<1>1. call \in Calls /\ Fits(call) /\ j \in Kids
  BY <1>0, KindAt, WorkIs
<1>2. /\ call.id \in Parents /\ call.kidsMode \in Modes /\ IsFiniteSet(call.kids)
      /\ call.kidsMode = "NotSet" => call.kids = {}
  BY <1>1, CallIs DEF OneEach
<1>3. left \subseteq call.kids /\ i \in call.kids
  BY <1>0 DEF PlaceInv, LeftFits
<1>4. call.kidsMode = "Replace" /\ \A a \in call.kids : a = i
  <2>1. call.kidsMode # "Append" /\ Cardinality(call.kids) <= 1
    BY <1>1 DEF Fits
  <2> QED BY <1>2, <1>3, <2>1, AtMostOne DEF Modes
<1>5. j \in Ids(call.kids) => j = i.id
  BY <1>4 DEF Ids
<1>6. Mine = Ids(call.kids) /\ Going = OfParent(seen, call.id) \ Ids(call.kids)
  BY <1>4 DEF Mine, Going
<1>7. KidAt("kids", work, left, j)
  BY <1>1, Standing DEF At
<1>8. CASE KidWaits("kids", left, j)
  BY <1>3, <1>5, <1>8 DEF KidWaits, Unbegun, Failed, Ids
<1>9. CASE ~KidWaits("kids", left, j)
  <2>1. j \in DOMAIN WantedKids /\ WantedKids[j] = call.id
    BY <1>7, <1>9 DEF KidAt, SameKid
  <2>2. j \notin Going
    BY <1>0, <1>2, <2>1, WantedIs, NestedSaveAssumption
  <2>3. j \notin Mine => j \in OfParent(seen, call.id)
    <3>1. j \notin Mine => SameKid(WantedKids, seen.kids, j)
      BY <1>0, <2>2, WantedIs
    <3> QED BY <2>1, <3>1 DEF SameKid, OfParent
  <2> QED BY <1>5, <1>6, <2>2, <2>3
<1> QED BY <1>8, <1>9

LEMMA KidFits ==
    ASSUME Inv, FitInv, NEW i \in left, Kid(i)
    PROVE  FitInv'
<1>0. at = "kids" /\ at \notin Done /\ at \notin Failed /\ TypeOK /\ PlaceInv
  BY Standing DEF Kid, Done, Failed
<1>1. call.kind = "save" /\ call \in Calls /\ Fits(call) /\ work \in Database /\ Consistent(work)
  BY <1>0, KindAt, Standing
<1>2. left \subseteq call.kids /\ i \in call.kids /\ call.kids \in SUBSET Item(Kids) /\ call.id \in Parents
  BY <1>0, <1>1, CallIs DEF PlaceInv, LeftFits
<1>3. i.id \in Kids /\ i.new \in BOOLEAN
  BY <1>2, ItemsHaveIds
<1>4. touched = {} => SameKid(work.kids, seen.kids, i.id)
  <2>1. i.id \in Ids(left)
    BY DEF Ids
  <2> QED BY <1>0, <1>3, <2>1, Standing DEF At, KidAt, KidWaits
<1>5. touched = {} => (i.id \in DOMAIN work.kids <=> ~i.new)
  <2>1. i.new <=> i.id \notin DOMAIN seen.kids
    BY <1>1, <1>2 DEF Fits
  <2> QED BY <1>4, <2>1 DEF SameKid
<1>6. touched = {} => (Writes(i.new, i.id \in DOMAIN work.kids) <=> ~Misfit(i.new))
  BY <1>1, <1>3, <1>5, WritesFitting
<1> DEFINE p == Keyed(i.id, call.id)
           d == WithKid(work, i.id, p)
<1>7. p \in Parents \cup {NoParent} /\ (touched = {} => p = call.id)
  <2>1. p \in Parents \cup {NoParent}
    BY <1>0, <1>2, KeyedIs
  <2>2. touched = {} /\ i.id \in DOMAIN work.kids /\ Known(i.id) = call.id
           => work.kids[i.id] = call.id
    BY <1>4 DEF SameKid, Known
  <2> QED BY <2>1, <2>2 DEF Keyed
<1> HIDE DEF p
<1>8. /\ d \in Database /\ DOMAIN d.kids = DOMAIN work.kids \cup {i.id} /\ d.kids[i.id] = p
      /\ \A j \in DOMAIN work.kids : j # i.id => d.kids[j] = work.kids[j]
      /\ d.parents = work.parents /\ d.tags = work.tags /\ d.links = work.links
  BY <1>1, <1>3, <1>7, PutKidIs
<1>9. \/ ~Changed(i) /\ Goes(work, "kids", left \ {i})
      \/ Changed(i) /\ ~Writes(i.new, i.id \in DOMAIN work.kids) /\ Abort("constraint")
      \/ Writes(i.new, i.id \in DOMAIN work.kids) /\ Goes(d, "kids", left \ {i})
  BY DEF Kid, p
<1> HIDE DEF d
<1>10. touched = {} => Consistent(d)
  <2> SUFFICES ASSUME touched = {} PROVE Consistent(d)
    OBVIOUS
  <2>1. call.id \in work.parents
    <3>1. work.parents = WantedParents
      BY <1>0, <1>1, Standing DEF At, RowsAt, Failed
    <3> QED BY <1>1, <3>1 DEF WantedParents
  <2>2. /\ \A k \in DOMAIN work.kids :
              IF work.kids[k] = NoParent THEN schema.nullable ELSE work.kids[k] \in work.parents
        /\ schema.one => \A j, k \in DOMAIN work.kids :
                            work.kids[j] = work.kids[k] /\ work.kids[j] # NoParent => j = k
        /\ \A l \in work.links : l.parent \in work.parents /\ l.tag \in work.tags
    BY <1>1, ConsistentMeans
  <2>3. call.id # NoParent /\ p = call.id
    BY <1>2, <1>7, NestedSaveAssumption
  <2>4. \A k \in DOMAIN d.kids :
           IF d.kids[k] = NoParent THEN schema.nullable ELSE d.kids[k] \in d.parents
    BY <1>8, <2>1, <2>2, <2>3
  <2>5. schema.one => \A j \in DOMAIN work.kids : work.kids[j] = call.id => j = i.id
    BY <1>0, <1>1, PlaceIsFree
  <2>6. schema.one => \A j, k \in DOMAIN d.kids :
                         d.kids[j] = d.kids[k] /\ d.kids[j] # NoParent => j = k
    BY <1>8, <2>2, <2>3, <2>5
  <2>7. \A l \in d.links : l.parent \in d.parents /\ l.tag \in d.tags
    BY <1>8, <2>2
  <2> QED BY <1>8, <2>4, <2>6, <2>7, ConsistentMeans
<1>11. touched = {} /\ (Changed(i) => ~Misfit(i.new)) => FitAt("kids", left \ {i})
  BY <1>0, <1>1 DEF FitInv, FitAt, Unbegun, Failed
<1>12. Changed(i) /\ Misfit(i.new) => Mistaken
  BY <1>1, <1>2 DEF Mistaken
<1>13. "kids" \notin Failed
  BY DEF Failed
<1>14. CASE ~Changed(i) /\ Goes(work, "kids", left \ {i})
  BY <1>0, <1>1, <1>11, <1>13, <1>14, FitGoes
<1>15. CASE Changed(i) /\ ~Writes(i.new, i.id \in DOMAIN work.kids) /\ Abort("constraint")
  BY <1>6, <1>12, <1>15, FitRefuses
<1>16. CASE Writes(i.new, i.id \in DOMAIN work.kids) /\ Goes(d, "kids", left \ {i})
  BY <1>0, <1>6, <1>10, <1>11, <1>13, <1>16, FitGoes
<1> QED BY <1>9, <1>14, <1>15, <1>16


LEMMA FindLinksFits ==
    ASSUME Inv, FitInv, FindLinks
    PROVE  FitInv'
<1>0. /\ at = "findLinks" /\ at' = "dropLinks" /\ call' = call /\ seen' = seen /\ schema' = schema
      /\ touched' = touched
  BY DEF FindLinks
<1>1. TypeOK /\ PlaceInv /\ at \notin Done
  BY <1>0, Standing DEF Done
<1>2. call.kind = "save"
  BY <1>0, <1>1, KindAt
<1> SUFFICES ASSUME touched' = {} PROVE FitAt(at, left)'
  BY <1>0 DEF FitInv, Failed
<1>3. FitAt(at, left)
  BY <1>0 DEF FitInv, Failed
<1> QED BY <1>0, <1>2, <1>3, CallSame DEF FitAt, Unbegun, Failed

LEMMA DropLinksFits ==
    ASSUME Inv, FitInv, DropLinks
    PROVE  FitInv'
<1>0. at = "dropLinks" /\ at \notin Done /\ at \notin Failed /\ "link" \notin Failed
  BY DEF DropLinks, Done, Failed
<1>1. TypeOK /\ PlaceInv /\ work \in Database /\ Consistent(work) /\ work.links \subseteq Links
  BY Standing, WorkIs
<1>2. call.kind = "save"
  BY <1>0, <1>1, KindAt
<1> DEFINE d == [work EXCEPT !.links = @ \ left]
<1>3. Consistent(d)
  <2>1. work.links \ left \in SUBSET Links
    BY <1>1
  <2>2. /\ d \in Database /\ d.links = work.links \ left /\ d.kids = work.kids
        /\ d.parents = work.parents /\ d.tags = work.tags
    BY <1>1, <2>1, WithLinks
  <2> HIDE DEF d
  <2> QED BY <1>1, <2>2, LessIsConsistent
<1>4. Goes(d, "link", {})
  BY DEF DropLinks
<1> HIDE DEF d
<1>5. touched = {} => FitAt("link", {})
  BY <1>0, <1>2 DEF FitInv, FitAt, Unbegun, Failed
<1> QED BY <1>0, <1>3, <1>4, <1>5, FitGoes

LEMMA LinkFits ==
    ASSUME Inv, FitInv, Link
    PROVE  FitInv'
<1>0. at = "link" /\ at \notin Done /\ at \notin Failed /\ "commit" \notin Failed
  BY DEF Link, Done, Failed
<1>1. TypeOK /\ PlaceInv /\ work \in Database /\ Consistent(work) /\ work.links \subseteq Links
  BY Standing, WorkIs
<1>2. call.kind = "save" /\ call \in Calls /\ call.id \in Parents
  BY <1>0, <1>1, KindAt, CallIs
<1> DEFINE new == Linked(work, call.id, toLink)
           d == [work EXCEPT !.links = work.links \cup new]
<1>3. toLink \subseteq Ids(call.tags) /\ toLink \in SUBSET Tags
  BY <1>0, <1>1 DEF PlaceInv, TypeOK
<1>4. new \subseteq Links /\ \A l \in new : l.parent = call.id /\ l.tag \in toLink
  BY <1>1, <1>2, <1>3, LinkedIs
<1>5. Goes(d, "commit", {})
  BY DEF Link
<1>6. /\ d \in Database /\ d.links = work.links \cup new /\ d.kids = work.kids
      /\ d.parents = work.parents /\ d.tags = work.tags
  <2> HIDE DEF new
  <2>1. work.links \cup new \in SUBSET Links
    BY <1>1, <1>4
  <2> QED BY <1>1, <2>1, WithLinks
<1> HIDE DEF new, d
<1>7. call.id \in work.parents /\ Ids(call.tags) \subseteq work.tags
  <2>1. RowsAt("link", work, left)
    BY <1>0, Standing DEF At
  <2>2. work.parents = WantedParents /\ Ids(call.tags) \subseteq work.tags
    BY <1>2, <2>1 DEF RowsAt, Unbegun, Failed
  <2> QED BY <1>2, <2>2 DEF WantedParents
<1>8. Consistent(d)
  <2>1. /\ \A k \in DOMAIN work.kids :
              IF work.kids[k] = NoParent THEN schema.nullable ELSE work.kids[k] \in work.parents
        /\ schema.one => \A j, k \in DOMAIN work.kids :
                            work.kids[j] = work.kids[k] /\ work.kids[j] # NoParent => j = k
        /\ \A l \in work.links : l.parent \in work.parents /\ l.tag \in work.tags
    BY <1>1, ConsistentMeans
  <2>2. \A l \in d.links : l.parent \in d.parents /\ l.tag \in d.tags
    BY <1>3, <1>4, <1>6, <1>7, <2>1
  <2> QED BY <1>6, <2>1, <2>2, ConsistentMeans
<1>9. touched = {} => FitAt("commit", {})
  BY <1>0, <1>2 DEF FitInv, FitAt, Unbegun, Failed
<1> QED BY <1>0, <1>5, <1>8, <1>9, FitGoes

LEMMA OwnerFits ==
    ASSUME Inv, FitInv, Owner
    PROVE  FitInv'
<1>0. at = "owner" /\ at \notin Done /\ TypeOK /\ PlaceInv /\ "row" \notin Failed
  BY Standing DEF Owner, Done, Failed
<1>1. call \in Calls /\ Fits(call) /\ call.kind = "saveKid" /\ work \in Database /\ Consistent(work)
      /\ work.parents \subseteq Parents /\ call.ownerNew \in BOOLEAN /\ call.changed \in BOOLEAN
  BY <1>0, KindAt, CallIs, Standing, WorkIs
<1> DEFINE wrong == call.owner \in Parents /\ (call.ownerNew \/ call.changed) /\ Misfit(call.ownerNew)
<1>2. wrong => Mistaken
  BY <1>1 DEF Mistaken
<1>3. ~wrong => FitAt("row", {})
  BY <1>1 DEF FitAt
<1>4. call.owner \in Parents => (Writes(call.ownerNew, call.owner \in work.parents) <=> ~Misfit(call.ownerNew))
  <2>1. work.parents = seen.parents
    BY <1>0, Standing DEF At, RowsAt
  <2>2. call.owner \in Parents => (call.owner \in work.parents <=> ~call.ownerNew)
    BY <1>1, <2>1 DEF Fits
  <2> QED BY <1>1, <2>2, WritesFitting
<1> DEFINE e == [work EXCEPT !.parents = @ \cup {call.owner}]
<1>5. call.owner \in Parents => Consistent(e)
  <2> SUFFICES ASSUME call.owner \in Parents PROVE Consistent(e)
    OBVIOUS
  <2>1. work.parents \cup {call.owner} \in SUBSET Parents
    BY <1>1
  <2>2. /\ e \in Database /\ e.parents = work.parents \cup {call.owner} /\ e.kids = work.kids
        /\ e.links = work.links /\ e.tags = work.tags
    BY <1>1, <2>1, WithParents
  <2> HIDE DEF e
  <2> QED BY <1>1, <2>2, LessIsConsistent
<1>6. \/ ~(call.owner \in Parents /\ (call.ownerNew \/ call.changed)) /\ Goes(work, "row", {})
      \/ /\ call.owner \in Parents /\ (call.ownerNew \/ call.changed)
         /\ ~Writes(call.ownerNew, call.owner \in work.parents) /\ Abort("constraint")
      \/ /\ call.owner \in Parents
         /\ Writes(call.ownerNew, call.owner \in work.parents) /\ Goes(e, "row", {})
  BY DEF Owner
<1> HIDE DEF e
<1>7. CASE ~(call.owner \in Parents /\ (call.ownerNew \/ call.changed)) /\ Goes(work, "row", {})
  BY <1>0, <1>1, <1>3, <1>7, FitGoes
<1>8. CASE /\ call.owner \in Parents /\ (call.ownerNew \/ call.changed)
           /\ ~Writes(call.ownerNew, call.owner \in work.parents) /\ Abort("constraint")
  BY <1>2, <1>4, <1>8, FitRefuses
<1>9. CASE /\ call.owner \in Parents
           /\ Writes(call.ownerNew, call.owner \in work.parents) /\ Goes(e, "row", {})
  BY <1>0, <1>3, <1>4, <1>5, <1>9, FitGoes
<1> QED BY <1>6, <1>7, <1>8, <1>9

\* The kid's own statement breaks a key exactly where its place is taken.
LEMMA KidRowBreaks ==
    ASSUME Inv, touched = {}, at = "row", call.kind = "saveKid"
    PROVE  /\ call.id \in DOMAIN work.kids <=> ~call.new
           /\ Consistent(WithKid(work, call.id, OwnKey)) <=> ~Taken
           /\ ~OwnChanged => ~Taken
<1>0. at \notin Done /\ TypeOK /\ PlaceInv
  BY Standing DEF Done
<1>1. call \in Calls /\ Fits(call) /\ call.id \in Kids /\ call.owner \in Parents \cup {NoParent, "NotSet"}
  BY <1>0, KindAt, CallIs
<1>2. work \in Database /\ seen \in Database /\ Consistent(work) /\ Consistent(seen)
  BY Standing
<1>3. NoParent \notin Parents /\ NoParent # "NotSet" /\ "NotSet" \notin Parents
  BY NestedSaveAssumption
<1>4. \A k \in Kids : SameKid(work.kids, seen.kids, k)
  <2>1. \A k \in Kids : KidAt("row", work, left, k)
    BY Standing DEF At
  <2> QED BY <2>1 DEF KidAt, KidWaits, Unbegun
<1>5. DOMAIN work.kids = DOMAIN seen.kids /\ \A k \in DOMAIN seen.kids : work.kids[k] = seen.kids[k]
  BY <1>2, <1>4, DatabaseIs DEF SameKid
<1>6. /\ \A k \in DOMAIN seen.kids :
            IF seen.kids[k] = NoParent THEN schema.nullable ELSE seen.kids[k] \in seen.parents
      /\ schema.one => \A j, k \in DOMAIN seen.kids :
                          seen.kids[j] = seen.kids[k] /\ seen.kids[j] # NoParent => j = k
  BY <1>2, ConsistentMeans
<1>7. \A k \in DOMAIN work.kids :
         IF work.kids[k] = NoParent THEN schema.nullable ELSE work.kids[k] \in work.parents
  BY <1>2, ConsistentMeans
<1>8. \A l \in work.links : l.parent \in work.parents /\ l.tag \in work.tags
  BY <1>2, ConsistentMeans
<1>9. work.parents = seen.parents \cup ({call.owner} \cap Parents)
  <2>1. RowsAt("row", work, left)
    BY Standing DEF At
  <2>2. work.parents = WantedParents
    BY <2>1 DEF RowsAt, Failed
  <2> QED BY <2>2 DEF WantedParents
<1>10. call.new <=> call.id \notin DOMAIN seen.kids
  BY <1>1 DEF Fits
<1>11. call.id \in DOMAIN work.kids <=> ~call.new
  BY <1>5, <1>10
<1> DEFINE p == OwnKey
           d == WithKid(work, call.id, p)
<1>12. p = IF call.owner = "NotSet" THEN Known(call.id) ELSE call.owner
  <2>1. call.id \in DOMAIN work.kids => work.kids[call.id] = Known(call.id)
    BY <1>5 DEF Known
  <2>2. ASSUME NEW q PROVE Keyed(call.id, q) = q
    BY <2>1 DEF Keyed
  <2> QED BY <1>3, <2>2 DEF OwnKey
<1>13. p \in Parents \cup {NoParent}
  BY <1>0, <1>1, OwnKeyIs
<1> HIDE DEF p
<1>14. /\ d \in Database /\ DOMAIN d.kids = DOMAIN seen.kids \cup {call.id} /\ d.kids[call.id] = p
       /\ \A j \in DOMAIN seen.kids : j # call.id => d.kids[j] = seen.kids[j]
       /\ d.parents = work.parents /\ d.tags = work.tags /\ d.links = work.links
  BY <1>1, <1>2, <1>5, <1>13, PutKidIs
<1> HIDE DEF d
<1>15. IF p = NoParent THEN schema.nullable ELSE p \in work.parents
  <2>1. CASE call.owner = "NotSet" /\ call.id \in DOMAIN seen.kids
    BY <1>3, <1>6, <1>9, <1>12, <2>1 DEF Known
  <2>2. CASE call.owner = "NotSet" /\ call.id \notin DOMAIN seen.kids
    BY <1>1, <1>10, <1>12, <2>2 DEF Known, Fits
  <2>3. CASE call.owner = NoParent
    BY <1>1, <1>3, <1>12, <2>3 DEF Fits
  <2>4. CASE call.owner \in Parents
    BY <1>3, <1>9, <1>12, <2>4
  <2> QED BY <1>1, <2>1, <2>2, <2>3, <2>4
<1>16. \A k \in DOMAIN d.kids : IF d.kids[k] = NoParent THEN schema.nullable ELSE d.kids[k] \in d.parents
  <2>1. \A k \in DOMAIN seen.kids :
           IF seen.kids[k] = NoParent THEN schema.nullable ELSE seen.kids[k] \in work.parents
    BY <1>5, <1>7
  <2> QED BY <1>14, <1>15, <2>1
<1>17. \A l \in d.links : l.parent \in d.parents /\ l.tag \in d.tags
  BY <1>8, <1>14
<1>18. Taken <=> /\ schema.one /\ call.owner \in Parents
                 /\ \E j \in DOMAIN seen.kids : j # call.id /\ seen.kids[j] = call.owner
  BY DEF Taken, OfParent
<1>19. ASSUME Taken
       PROVE  ~Consistent(d)
  <2>1. PICK j \in DOMAIN seen.kids : j # call.id /\ seen.kids[j] = call.owner
    BY <1>18, <1>19
  <2>2. schema.one /\ call.owner # NoParent /\ p = call.owner
    BY <1>3, <1>12, <1>18, <1>19
  <2>3. d.kids[j] = d.kids[call.id] /\ d.kids[j] # NoParent /\ j \in DOMAIN d.kids
    BY <1>14, <2>1, <2>2
  <2> QED BY <1>14, <2>1, <2>2, <2>3, ConsistentMeans
<1>20. ASSUME ~Taken
       PROVE  Consistent(d)
  <2>1. schema.one /\ p # NoParent => \A j \in DOMAIN seen.kids : seen.kids[j] = p => j = call.id
    <3>1. CASE call.owner = "NotSet"
      <4>1. p # NoParent => call.id \in DOMAIN seen.kids /\ seen.kids[call.id] = p
        BY <1>12, <3>1 DEF Known
      <4> QED BY <1>6, <4>1
    <3>2. CASE call.owner = NoParent
      BY <1>3, <1>12, <3>2
    <3>3. CASE call.owner \in Parents
      BY <1>3, <1>12, <1>18, <1>20, <3>3
    <3> QED BY <1>1, <3>1, <3>2, <3>3
  <2>2. schema.one => \A j, k \in DOMAIN d.kids :
                         d.kids[j] = d.kids[k] /\ d.kids[j] # NoParent => j = k
    BY <1>6, <1>14, <2>1
  <2> QED BY <1>14, <1>16, <1>17, <2>2, ConsistentMeans
<1>21. ~OwnChanged => ~Taken
  <2> SUFFICES ASSUME ~OwnChanged, Taken PROVE FALSE
    OBVIOUS
  <2>1. call.owner = Known(call.id) /\ call.owner \in Parents
    BY <1>3, <1>18 DEF OwnChanged
  <2>2. call.id \in DOMAIN seen.kids /\ seen.kids[call.id] = call.owner
    BY <1>3, <2>1 DEF Known
  <2> QED BY <1>3, <1>6, <1>18, <2>1, <2>2
<1> QED BY <1>11, <1>19, <1>20, <1>21 DEF d, p

LEMMA KidRowFits ==
    ASSUME Inv, FitInv, KidRow
    PROVE  FitInv'
<1>0. at = "row" /\ call.kind = "saveKid" /\ at \notin Done /\ at \notin Failed /\ "commit" \notin Failed
      /\ TypeOK /\ PlaceInv /\ Consistent(work)
  BY Standing DEF KidRow, Done, Failed
<1>1. call \in Calls /\ call.new \in BOOLEAN
  BY <1>0, KindAt, CallIs
<1>2. touched = {} /\ (OwnChanged => ~Misfit(call.new)) /\ ~Taken => FitAt("commit", {})
  BY <1>0 DEF FitInv, FitAt
<1>3. (OwnChanged /\ Misfit(call.new)) \/ Taken => Mistaken
  BY <1>0 DEF Mistaken
<1>4. touched = {} => (Writes(call.new, call.id \in DOMAIN work.kids) <=> ~Misfit(call.new))
  BY <1>0, <1>1, KidRowBreaks, WritesFitting
<1> DEFINE d == WithKid(work, call.id, OwnKey)
<1>5. touched = {} => (Consistent(d) <=> ~Taken) /\ (~OwnChanged => ~Taken)
  BY <1>0, KidRowBreaks
<1>6. \/ ~OwnChanged /\ Goes(work, "commit", {})
      \/ OwnChanged /\ ~Writes(call.new, call.id \in DOMAIN work.kids) /\ Abort("constraint")
      \/ Writes(call.new, call.id \in DOMAIN work.kids) /\ Goes(d, "commit", {})
  BY DEF KidRow
<1> HIDE DEF d
<1>7. CASE ~OwnChanged /\ Goes(work, "commit", {})
  BY <1>0, <1>2, <1>5, <1>7, FitGoes
<1>8. CASE OwnChanged /\ ~Writes(call.new, call.id \in DOMAIN work.kids) /\ Abort("constraint")
  BY <1>3, <1>4, <1>8, FitRefuses
<1>9. CASE Writes(call.new, call.id \in DOMAIN work.kids) /\ Goes(d, "commit", {})
  BY <1>0, <1>2, <1>3, <1>4, <1>5, <1>9, FitGoes
<1> QED BY <1>6, <1>7, <1>8, <1>9

LEMMA UnlinkAllFits ==
    ASSUME Inv, FitInv, UnlinkAll
    PROVE  FitInv'
<1>0. at = "unlink" /\ at \notin Done /\ at \notin Failed /\ "dropRow" \notin Failed
  BY DEF UnlinkAll, Done, Failed
<1>1. TypeOK /\ PlaceInv /\ work \in Database /\ Consistent(work) /\ work.links \subseteq Links
  BY Standing, WorkIs
<1>2. call.kind = "delete"
  BY <1>0, <1>1, KindAt
<1> DEFINE d == [work EXCEPT !.links = @ \ LinksOf(work, call.id)]
<1>3. Consistent(d)
  <2>1. work.links \ LinksOf(work, call.id) \in SUBSET Links
    BY <1>1
  <2>2. /\ d \in Database /\ d.links = work.links \ LinksOf(work, call.id) /\ d.kids = work.kids
        /\ d.parents = work.parents /\ d.tags = work.tags
    BY <1>1, <2>1, WithLinks
  <2> HIDE DEF d
  <2> QED BY <1>1, <2>2, LessIsConsistent
<1>4. Goes(d, "dropRow", {})
  BY DEF UnlinkAll
<1> HIDE DEF d
<1> QED BY <1>0, <1>2, <1>3, <1>4, FitGoes DEF FitAt

\* The kids have gone and the links: nothing refers to the row any more.
LEMMA DropRowFits ==
    ASSUME Inv, FitInv, DropRow
    PROVE  FitInv'
<1>0. at = "dropRow" /\ at \notin Done /\ at \notin Failed /\ "commit" \notin Failed
  BY DEF DropRow, Done, Failed
<1>1. TypeOK /\ PlaceInv /\ work \in Database /\ Consistent(work) /\ work.parents \subseteq Parents
      /\ work.links \subseteq Links /\ DOMAIN work.kids \subseteq Kids
  BY Standing, WorkIs
<1>2. call.kind = "delete" /\ call.id \in Parents
  BY <1>0, <1>1, KindAt, CallIs
<1> DEFINE d == [work EXCEPT !.parents = @ \ {call.id}]
<1>3. /\ d \in Database /\ d.parents = work.parents \ {call.id} /\ d.kids = work.kids
      /\ d.links = work.links /\ d.tags = work.tags
  <2>1. work.parents \ {call.id} \in SUBSET Parents
    BY <1>1
  <2> QED BY <1>1, <2>1, WithParents
<1>4. Goes(d, "commit", {})
  BY DEF DropRow
<1> HIDE DEF d
<1>5. ASSUME touched = {}
      PROVE  Consistent(d)
  <2>1. /\ \A k \in DOMAIN work.kids :
              IF work.kids[k] = NoParent THEN schema.nullable ELSE work.kids[k] \in work.parents
        /\ schema.one => \A j, k \in DOMAIN work.kids :
                            work.kids[j] = work.kids[k] /\ work.kids[j] # NoParent => j = k
        /\ \A l \in work.links : l.parent \in work.parents /\ l.tag \in work.tags
    BY <1>1, ConsistentMeans
  <2>2. ASSUME NEW k \in DOMAIN work.kids
        PROVE  work.kids[k] # call.id
    <3> SUFFICES ASSUME work.kids[k] = call.id PROVE FALSE
      OBVIOUS
    <3>1. KidAt("dropRow", work, left, k)
      BY <1>0, <1>1, <1>5, Standing DEF At
    <3>2. k \in DOMAIN WantedKids /\ WantedKids[k] = call.id
      BY <3>1 DEF KidAt, KidWaits, SameKid, Unbegun, Failed
    <3>3. k \notin Mine /\ Going = OfParent(seen, call.id)
      BY <1>2 DEF Mine, Going
    <3>4. k \notin Going
      BY <1>1, <1>2, <3>2, WantedIs, NestedSaveAssumption
    <3>5. k \in DOMAIN seen.kids /\ seen.kids[k] = call.id
      BY <1>1, <3>2, <3>3, <3>4, WantedIs DEF SameKid
    <3> QED BY <3>3, <3>4, <3>5 DEF OfParent
  <2>3. ASSUME NEW l \in work.links
        PROVE  l.parent # call.id
    <3> SUFFICES ASSUME l.parent = call.id PROVE FALSE
      OBVIOUS
    <3>1. l.tag \in Tags /\ l \in Pair(work, call.id, l.tag)
      BY <1>1 DEF Links, Pair, LinksOf
    <3>2. PairAt("dropRow", work, left, call.id, l.tag)
      BY <1>0, <1>2, <1>5, <3>1, Standing DEF At
    <3>3. l.tag \in WantedTags(call.id)
      BY <3>1, <3>2 DEF PairAt
    <3> QED BY <1>2, <3>3 DEF WantedTags
  <2>4. /\ \A k \in DOMAIN d.kids :
              IF d.kids[k] = NoParent THEN schema.nullable ELSE d.kids[k] \in d.parents
        /\ schema.one => \A j, k \in DOMAIN d.kids :
                            d.kids[j] = d.kids[k] /\ d.kids[j] # NoParent => j = k
        /\ \A l \in d.links : l.parent \in d.parents /\ l.tag \in d.tags
    BY <1>3, <2>1, <2>2, <2>3
  <2> QED BY <1>3, <2>4, ConsistentMeans
<1> QED BY <1>0, <1>2, <1>4, <1>5, FitGoes DEF FitAt

LEMMA CommitFits ==
    ASSUME Inv, FitInv, Commit
    PROVE  FitInv'
<1>0. at = "commit" /\ at' = "ok" /\ call' = call /\ seen' = seen /\ schema' = schema
      /\ touched' = touched
  BY DEF Commit
<1>1. touched = {} => FitAt("commit", left)
  BY <1>0 DEF FitInv, Failed
<1>2. touched = {} => FitAt("ok", {})
  BY <1>1 DEF FitAt, Unbegun, Failed
<1>3. left' = {}
  BY DEF Commit
<1>4. touched = {} => FitAt(at, left)'
  BY <1>0, <1>2, <1>3, CallSame DEF FitAt
<1> QED BY <1>0, <1>4 DEF FitInv, Failed

LEMMA BeginFits ==
    ASSUME Inv, NEW c \in Calls, Begin(c)
    PROVE  FitInv'
<1>1. c.kind \in {"save", "saveKid", "delete"} /\ call' = c
  BY CallIs DEF Begin
<1>2. \/ c.kind = "save" /\ at' = "row"
      \/ c.kind = "saveKid" /\ at' = "owner"
      \/ c.kind = "delete" /\ at' = "find"
  BY <1>1 DEF Begin
<1> QED BY <1>1, <1>2 DEF FitInv, FitAt, Unbegun, Failed

LEMMA FailsFits ==
    ASSUME Fails
    PROVE  FitInv'
BY DEF Fails, Abort, FitInv, Failed

\* Where others write there is nothing to show.
LEMMA OtherFits ==
    ASSUME NEW d, NEW w, NEW what, Other(d, w, what), what # {}
    PROVE  FitInv'
BY DEF Other, FitInv

LEMMA FitStep == Inv /\ FitInv /\ [Next]_vars => FitInv'
<1> SUFFICES ASSUME Inv, FitInv, [Next]_vars PROVE FitInv'
  OBVIOUS
<1>1. CASE UNCHANGED vars
  <2>1. /\ call' = call /\ seen' = seen /\ schema' = schema /\ at' = at /\ left' = left
        /\ touched' = touched
    BY <1>1 DEF vars
  <2>2. FitAt(at, left)' <=> FitAt(at, left)
    BY <2>1, CallSame DEF FitAt
  <2>3. Mistaken' <=> Mistaken
    BY <2>1, CallSame
  <2> QED BY <2>1, <2>2, <2>3 DEF FitInv
<1>2. ASSUME NEW k \in Kids, TakeKid(k) \/ \E p \in Parents \cup {NoParent} : PutKid(k, p)
      PROVE  FitInv'
  BY <1>2, OtherFits DEF TakeKid, PutKid
<1>3. ASSUME \/ \E p \in Parents, t \in Tags : PutLink(p, t)
             \/ \E l \in Links : TakeLink(l)
      PROVE  FitInv'
  BY <1>3, OtherFits DEF TakeLink, PutLink
<1>4. CASE Next
  BY <1>2, <1>3, <1>4, BeginFits, RowFits, FindKidsFits, FindLinksFits, DropLinksFits, LinkFits,
     OwnerFits, KidRowFits, UnlinkAllFits, DropRowFits, TurnFits, CommitFits, FailsFits, DropFits,
     KidFits, TagFits DEF Next
<1> QED BY <1>1, <1>4

LEMMA FitIsDone == Inv /\ FitInv => CallsStandAlone
<1> SUFFICES ASSUME FitInv, touched = {}, at \in {"ok", "constraint"}
             PROVE  at = "ok" <=> ~Mistaken
  BY DEF CallsStandAlone
<1>1. CASE at = "constraint"
  BY <1>1 DEF FitInv
<1>2. CASE at = "ok"
  <2>1. FitAt("ok", left)
    BY <1>2 DEF FitInv, Failed
  <2> QED BY <1>2, <2>1 DEF FitAt, Mistaken, Unbegun, Failed
<1> QED BY <1>1, <1>2

\* A call nobody disturbs ends well, unless its action does not fit a row or
\* the kid takes a place that is taken: in every database, whatever it holds,
\* and for every call, its statements come in an order that breaks no key.
THEOREM AlwaysStandAlone == Spec => []CallsStandAlone
<1>1. Init => Inv /\ FitInv
  <2>1. Init => at = "idle" /\ call = NoCall
    BY DEF Init
  <2>2. Init => FitInv
    BY <2>1 DEF FitInv, FitAt, NoCall, Failed
  <2> QED BY <2>2, DoneInitially
<1>2. Inv /\ FitInv /\ [Next]_vars => Inv' /\ FitInv'
  BY DoneStep, FitStep
<1>3. Inv /\ FitInv => CallsStandAlone
  BY FitIsDone
<1> QED BY <1>1, <1>2, <1>3, PTL DEF Spec


(***************************************************************************)
(* Sequences picked from sequences.                                        *)
(***************************************************************************)
List(q) == Len(q) \in Nat /\ DOMAIN q = 1 .. Len(q) /\ q = [k \in DOMAIN q |-> q[k]]
Once(q) == \A i, j \in DOMAIN q : q[i] = q[j] => i = j

\* A set of numbers that has any has a least: the library's well-foundedness.
LEMMA LeastOf ==
    ASSUME NEW T \in SUBSET Nat, T # {}
    PROVE  \E k \in T : \A j \in T : k <= j
<1> DEFINE R == OpToRel(<, Nat)
<1>1. IsWellFoundedOn(R, Nat)
  BY NatLessThanWellFounded
<1>2. \A x, y \in Nat : <<x, y>> \in R <=> x < y
  BY DEF OpToRel
<1> HIDE DEF R
<1>3. PICK k \in T : \A j \in T : ~ (<<j, k>> \in R)
  BY <1>1, WFMin
<1>4. ASSUME NEW j \in T PROVE k <= j
  <2>1. j \in Nat /\ k \in Nat /\ <<j, k>> \notin R
    BY <1>3
  <2> QED BY <1>2, <2>1
<1> QED BY <1>4

\* How many indexes come before one.
Before(I, i) == Cardinality({j \in I : j < i})

\* Fewer come before an index than there are, and the more the later it is.
LEMMA BeforeGrows ==
    ASSUME NEW I \in SUBSET Nat, IsFiniteSet(I), NEW i \in I
    PROVE  /\ Before(I, i) \in 0 .. Cardinality(I) - 1
           /\ \A j \in I : j < i => Before(I, j) < Before(I, i)
<1>1. \A k \in I : /\ IsFiniteSet({j \in I : j < k}) /\ Before(I, k) \in Nat
                   /\ Before(I, k) = Cardinality({j \in I : j < k})
  <2> SUFFICES ASSUME NEW k \in I
               PROVE  IsFiniteSet({j \in I : j < k}) /\ Cardinality({j \in I : j < k}) \in Nat
    BY DEF Before
  <2> QED BY FS_Subset, FS_CardinalityType
<1>2. Before(I, i) \in 0 .. Cardinality(I) - 1
  <2> DEFINE B == {j \in I : j < i}
  <2>1. B \in SUBSET I /\ i \notin B
    OBVIOUS
  <2>2. Before(I, i) = Cardinality(B) /\ Before(I, i) \in Nat
    BY <1>1
  <2> HIDE DEF B
  <2>3. Cardinality(B) <= Cardinality(I) /\ Cardinality(B) # Cardinality(I)
    BY <2>1, FS_Subset
  <2>4. Cardinality(I) \in Nat
    BY FS_CardinalityType
  <2> QED BY <2>2, <2>3, <2>4
<1>3. ASSUME NEW j \in I, j < i PROVE Before(I, j) < Before(I, i)
  <2> DEFINE B == {k \in I : k < j}
             C == {k \in I : k < i}
  <2>1. B \in SUBSET C /\ j \in C /\ j \notin B
    <3>1. \A k \in I : k \in Nat
      OBVIOUS
    <3>2. \A k \in I : k < j => k < i
      BY <1>3, <3>1
    <3>3. ~(j < j)
      BY <3>1
    <3> QED BY <1>3, <3>2, <3>3
  <2>2. /\ IsFiniteSet(C) /\ Before(I, j) = Cardinality(B) /\ Before(I, i) = Cardinality(C)
        /\ Before(I, j) \in Nat /\ Before(I, i) \in Nat
    BY <1>1
  <2> HIDE DEF B, C
  <2>3. Cardinality(B) <= Cardinality(C) /\ Cardinality(B) # Cardinality(C)
    BY <2>1, <2>2, FS_Subset
  <2> QED BY <2>2, <2>3
<1> QED BY <1>2, <1>3

\* Ascending lists a finite set of indexes, each once: Before, plus one, is a
\* bijection of the set and 1 .. its cardinality, so that every CHOOSE has its one.
LEMMA AscendingIs ==
    ASSUME NEW I \in SUBSET Nat, IsFiniteSet(I)
    PROVE  /\ Cardinality(I) \in Nat
           /\ DOMAIN Ascending(I) = 1 .. Cardinality(I)
           /\ \A k \in 1 .. Cardinality(I) : Ascending(I)[k] \in I
           /\ \A i \in I : \E k \in 1 .. Cardinality(I) : Ascending(I)[k] = i
           /\ \A k, l \in 1 .. Cardinality(I) : Ascending(I)[k] = Ascending(I)[l] => k = l
<1> DEFINE n == Cardinality(I)
           rank == [i \in I |-> Before(I, i) + 1]
<1>1. n \in Nat
  BY FS_CardinalityType
<1>2. \A i, j \in I : Before(I, i) \in Nat /\ (Before(I, i) = Before(I, j) => i = j)
  <2> SUFFICES ASSUME NEW i \in I, NEW j \in I
               PROVE  Before(I, i) \in Nat /\ (Before(I, i) = Before(I, j) => i = j)
    OBVIOUS
  <2>1. Before(I, i) \in Nat /\ Before(I, j) \in Nat
    BY BeforeGrows
  <2>2. i < j => Before(I, i) < Before(I, j)
    BY BeforeGrows
  <2>3. j < i => Before(I, j) < Before(I, i)
    BY BeforeGrows
  <2>4. i < j \/ j < i \/ i = j
    OBVIOUS
  <2> QED BY <2>1, <2>2, <2>3, <2>4
<1>3. rank \in Injection(I, 1 .. n)
  <2>1. ASSUME NEW i \in I PROVE Before(I, i) + 1 \in 1 .. n
    <3>1. Before(I, i) \in 0 .. n - 1
      BY BeforeGrows
    <3> HIDE DEF n
    <3> QED BY <1>1, <3>1
  <2>2. rank \in [I -> 1 .. n]
    BY <2>1
  <2>3. ASSUME NEW i \in I, NEW j \in I, rank[i] = rank[j] PROVE i = j
    <3>1. Before(I, i) + 1 = Before(I, j) + 1
      BY <2>3
    <3> QED BY <1>2, <3>1
  <2> HIDE DEF rank
  <2> QED BY <2>2, <2>3 DEF Injection, IsInjective
<1>4. rank \in Surjection(I, 1 .. n)
  <2>1. IsFiniteSet(1 .. n) /\ Cardinality(1 .. n) = n
    BY <1>1, FS_Interval
  <2> HIDE DEF rank
  <2> QED BY <1>3, <2>1, FS_Injection
<1>5. ASSUME NEW k \in 1 .. n PROVE \E i \in I : Before(I, i) = k - 1
  <2>1. PICK i \in I : rank[i] = k
    BY <1>4 DEF Surjection
  <2>2. Before(I, i) + 1 = k /\ Before(I, i) \in Nat
    BY <1>2, <2>1
  <2> QED BY <2>2
<1>6. Ascending(I) = [k \in 1 .. n |-> CHOOSE i \in I : Before(I, i) = k - 1]
  BY DEF Ascending, Before
<1>7. ASSUME NEW k \in 1 .. n
      PROVE  Ascending(I)[k] \in I /\ Before(I, Ascending(I)[k]) = k - 1
  BY <1>5, <1>6
<1>8. ASSUME NEW i \in I PROVE \E k \in 1 .. n : Ascending(I)[k] = i
  <2>1. rank[i] \in 1 .. n /\ rank[i] = Before(I, i) + 1
    BY <1>3 DEF Injection
  <2> HIDE DEF rank
  <2>2. PICK k \in 1 .. n : k = Before(I, i) + 1
    BY <2>1
  <2>3. Ascending(I)[k] \in I /\ Before(I, Ascending(I)[k]) = k - 1
    BY <1>7
  <2>4. Before(I, Ascending(I)[k]) = Before(I, i)
    BY <1>2, <2>2, <2>3
  <2> QED BY <1>2, <2>3, <2>4
<1>9. ASSUME NEW k \in 1 .. n, NEW l \in 1 .. n, Ascending(I)[k] = Ascending(I)[l] PROVE k = l
  <2>1. k - 1 = l - 1
    BY <1>7, <1>9
  <2> QED BY <2>1
<1> QED BY <1>1, <1>6, <1>7, <1>8, <1>9

\* What a sequence has at some indexes, once if it has it at one of them only.
LEMMA OnlyIs ==
    ASSUME NEW s, NEW I \in SUBSET Nat, IsFiniteSet(I)
    PROVE  /\ List(Only(s, I)) /\ Len(Only(s, I)) = Cardinality(I)
           /\ Inside(Only(s, I)) = {s[i] : i \in I}
           /\ (\A i, j \in I : s[i] = s[j] => i = j) => Once(Only(s, I))
<1> DEFINE n == Cardinality(I)
           up == Ascending(I)
           q == Only(s, I)
<1>1. /\ n \in Nat /\ DOMAIN up = 1 .. n
      /\ \A k \in 1 .. n : up[k] \in I
      /\ \A i \in I : \E k \in 1 .. n : up[k] = i
      /\ \A k, l \in 1 .. n : up[k] = up[l] => k = l
  BY AscendingIs
<1>2. q = [k \in 1 .. n |-> s[up[k]]]
  BY <1>1 DEF Only
<1> HIDE DEF n, up, q
<1>3. DOMAIN q = 1 .. n /\ \A k \in 1 .. n : q[k] = s[up[k]]
  BY <1>2
<1>4. Len(q) = n
  <2>1. q \in Seq({s[up[k]] : k \in 1 .. n})
    BY <1>1, <1>2
  <2> QED BY <1>1, <1>3, <2>1
<1>5. List(q)
  BY <1>1, <1>2, <1>3, <1>4 DEF List
<1>6. Inside(q) = {s[i] : i \in I}
  <2>1. \A v : v \in Inside(q) <=> \E k \in 1 .. n : v = s[up[k]]
    BY <1>3 DEF Inside
  <2>2. \A v : (\E k \in 1 .. n : v = s[up[k]]) <=> \E i \in I : v = s[i]
    BY <1>1
  <2> QED BY <2>1, <2>2
<1>7. ASSUME \A i, j \in I : s[i] = s[j] => i = j PROVE Once(q)
  <2> SUFFICES ASSUME NEW k \in 1 .. n, NEW l \in 1 .. n, q[k] = q[l] PROVE k = l
    BY <1>3 DEF Once
  <2>1. up[k] \in I /\ up[l] \in I /\ s[up[k]] = s[up[l]]
    BY <1>1, <1>3
  <2>2. up[k] = up[l]
    BY <1>7, <2>1
  <2> QED BY <1>1, <2>2
<1> QED BY <1>4, <1>5, <1>6, <1>7 DEF q, n

\* A sequence that has each thing once has as many as it has things.
LEMMA OnceHolds ==
    ASSUME NEW q, List(q), Once(q)
    PROVE  IsFiniteSet(Inside(q)) /\ Cardinality(Inside(q)) = Len(q) /\ Holds(q, Inside(q))
<1> DEFINE n == Len(q)
           S == Inside(q)
<1>1. n \in Nat /\ DOMAIN q = 1 .. n /\ q = [k \in 1 .. n |-> q[k]]
  BY DEF List
<1>2. q \in [1 .. n -> S]
  BY <1>1 DEF Inside
<1>3. \A v \in S : \E k \in 1 .. n : q[k] = v
  BY <1>1 DEF Inside
<1>4. \A i, j \in 1 .. n : q[i] = q[j] => i = j
  BY <1>1 DEF Once
<1> HIDE DEF n, S
<1>5. q \in Bijection(1 .. n, S)
  BY <1>2, <1>3, <1>4 DEF Bijection, Injection, Surjection, IsInjective
<1>6. IsFiniteSet(1 .. n) /\ Cardinality(1 .. n) = n
  BY <1>1, FS_Interval
<1>7. IsFiniteSet(S) /\ Cardinality(S) = n
  BY <1>5, <1>6, FS_Bijection DEF ExistsBijection
<1> QED BY <1>7 DEF n, S, Holds

\* A column, row by row.
LEMMA ColumnIs ==
    ASSUME NEW rows, List(rows), NEW n
    PROVE  /\ List(Column(rows, n)) /\ Len(Column(rows, n)) = Len(rows)
           /\ DOMAIN Column(rows, n) = DOMAIN rows
           /\ \A i \in DOMAIN rows : Column(rows, n)[i] = rows[i][n]
           /\ Inside(Column(rows, n)) = {rows[i][n] : i \in DOMAIN rows}
<1> DEFINE q == Column(rows, n)
<1>1. q = [i \in 1 .. Len(rows) |-> rows[i][n]] /\ Len(rows) \in Nat /\ DOMAIN rows = 1 .. Len(rows)
  BY DEF List, Column
<1> HIDE DEF q
<1>2. q \in Seq({rows[i][n] : i \in 1 .. Len(rows)})
  BY <1>1
<1>3. Len(q) = Len(rows)
  BY <1>1, <1>2
<1> QED BY <1>1, <1>3 DEF q, List, Inside

\* retain_unique_models keeps each thing once and loses none.
LEMMA UniqueIs ==
    ASSUME NEW s, List(s)
    PROVE  List(Unique(s)) /\ Once(Unique(s)) /\ Inside(Unique(s)) = Inside(s)
<1> DEFINE I == Firsts(s)
<1>1. Len(s) \in Nat /\ DOMAIN s = 1 .. Len(s)
  BY DEF List
<1>2. I \in SUBSET (1 .. Len(s)) /\ I \in SUBSET Nat
  BY <1>1 DEF Firsts
<1>3. IsFiniteSet(I)
  <2>1. IsFiniteSet(1 .. Len(s))
    BY <1>1, FS_Interval
  <2> HIDE DEF I
  <2> QED BY <1>2, <2>1, FS_Subset
<1>4. \A i \in I : \A j \in 1 .. i - 1 : s[j] # s[i]
  BY DEF Firsts
<1>5. ASSUME NEW i \in I, NEW j \in I, s[i] = s[j] PROVE i = j
  <2>1. i \in 1 .. Len(s) /\ j \in 1 .. Len(s) /\ i \notin 1 .. j - 1 /\ j \notin 1 .. i - 1
    BY <1>2, <1>4, <1>5
  <2> QED BY <1>1, <2>1
<1>6. ASSUME NEW i \in DOMAIN s PROVE \E j \in I : s[j] = s[i]
  <2> DEFINE T == {j \in 1 .. Len(s) : s[j] = s[i]}
  <2>1. T \in SUBSET Nat /\ i \in T
    BY <1>1, <1>6
  <2>2. PICK j \in T : \A k \in T : j <= k
    BY <2>1, LeastOf
  <2>3. j \in 1 .. Len(s) /\ s[j] = s[i]
    OBVIOUS
  <2>4. ASSUME NEW k \in 1 .. j - 1 PROVE s[k] # s[j]
    <3>1. k \in 1 .. Len(s) /\ ~(j <= k)
      BY <1>1, <2>3
    <3>2. k \notin T
      BY <2>2, <3>1
    <3> QED BY <2>3, <3>1, <3>2
  <2>5. j \in I
    BY <1>1, <2>3, <2>4 DEF Firsts
  <2> QED BY <2>3, <2>5
<1> HIDE DEF I
<1>7. {s[i] : i \in I} = Inside(s)
  BY <1>1, <1>2, <1>6 DEF Inside
<1>8. Unique(s) = Only(s, I)
  BY DEF Unique, I
<1>9. List(Only(s, I)) /\ Inside(Only(s, I)) = {s[i] : i \in I}
  BY <1>2, <1>3, OnlyIs
<1>10. Once(Only(s, I))
  BY <1>2, <1>3, <1>5, OnlyIs
<1> QED BY <1>7, <1>8, <1>9, <1>10

\* What the rows of a key have in a column.
LEMMA OfIs ==
    ASSUME NEW rows, List(rows), NEW key, NEW n
    PROVE  /\ List(Of(rows, key, n))
           /\ Inside(Of(rows, key, n)) = {rows[i][n] : i \in Its(rows, key, n)}
           /\ (\A i, j \in Its(rows, key, n) : rows[i][n] = rows[j][n] => i = j)
                => Once(Of(rows, key, n))
<1> DEFINE I == Its(rows, key, n)
           s == Column(rows, n)
<1>1. Len(rows) \in Nat /\ DOMAIN rows = 1 .. Len(rows)
  BY DEF List
<1>2. I \in SUBSET DOMAIN rows
  BY DEF Its
<1>3. I \in SUBSET Nat /\ IsFiniteSet(I)
  <2>1. IsFiniteSet(1 .. Len(rows)) /\ 1 .. Len(rows) \in SUBSET Nat
    BY <1>1, FS_Interval
  <2> HIDE DEF I
  <2> QED BY <1>1, <1>2, <2>1, FS_Subset
<1>4. \A i \in I : s[i] = rows[i][n]
  BY <1>2, ColumnIs
<1>5. Of(rows, key, n) = Only(s, I)
  BY DEF Of
<1> HIDE DEF I, s
<1>6. {s[i] : i \in I} = {rows[i][n] : i \in I}
  BY <1>4
<1>7. List(Only(s, I)) /\ Inside(Only(s, I)) = {s[i] : i \in I}
  BY <1>3, OnlyIs
<1>8. ASSUME \A i, j \in I : rows[i][n] = rows[j][n] => i = j
      PROVE  Once(Only(s, I))
  <2>1. \A i, j \in I : s[i] = s[j] => i = j
    BY <1>4, <1>8
  <2> QED BY <1>3, <2>1, OnlyIs
<1> QED BY <1>5, <1>6, <1>7, <1>8 DEF I

\* An order of a finite set has each of its members once.
LEMMA OrderIs ==
    ASSUME NEW S, IsFiniteSet(S), NEW s \in InARow(S)
    PROVE  List(s) /\ Once(s) /\ Inside(s) = S /\ Len(s) = Cardinality(S)
<1> DEFINE n == Cardinality(S)
<1>1. n \in Nat
  BY FS_CardinalityType
<1>2. s \in [1 .. n -> S] /\ Once(s)
  BY DEF InARow, Once
<1> HIDE DEF n
<1>3. s \in Seq(S) /\ Len(s) = n /\ DOMAIN s = 1 .. n
  BY <1>1, <1>2
<1>4. List(s)
  BY <1>1, <1>2, <1>3 DEF List
<1>5. Inside(s) \in SUBSET S
  BY <1>2 DEF Inside
<1>6. Cardinality(Inside(s)) = n
  BY <1>2, <1>3, <1>4, OnceHolds
<1>7. Inside(s) = S
  BY <1>5, <1>6, FS_Subset DEF n
<1> QED BY <1>2, <1>3, <1>4, <1>7 DEF n


(***************************************************************************)
(* Groups in one row.                                                      *)
(***************************************************************************)
Until(groups, g) == UNION {{h} \X DOMAIN groups[h] : h \in 1 .. g - 1}

Grouped(groups) == List(groups) /\ \A g \in DOMAIN groups : List(groups[g])

\* A function on 1 .. n is a sequence of n.
LEMMA FunctionList ==
    ASSUME NEW n \in Nat, NEW f, f = [k \in 1 .. n |-> f[k]]
    PROVE  List(f) /\ Len(f) = n /\ DOMAIN f = 1 .. n
<1>1. f \in [1 .. n -> {f[k] : k \in 1 .. n}]
  OBVIOUS
<1>2. f \in Seq({f[k] : k \in 1 .. n}) /\ DOMAIN f = 1 .. n
  BY <1>1
<1>3. Len(f) = n
  BY <1>2
<1> QED BY <1>2, <1>3 DEF List

\* The items of the groups before one, and those before the next.
LEMMA UntilNext ==
    ASSUME NEW groups, NEW g \in Nat \ {0}
    PROVE  /\ Until(groups, g + 1) = Until(groups, g) \cup ({g} \X DOMAIN groups[g])
           /\ Until(groups, g) \cap ({g} \X DOMAIN groups[g]) = {}
<1>1. 1 .. (g + 1) - 1 = (1 .. g - 1) \cup {g}
  OBVIOUS
<1>2. \A x : x \in Until(groups, g + 1)
               <=> \E h \in (1 .. g - 1) \cup {g} : x \in {h} \X DOMAIN groups[h]
  BY <1>1 DEF Until
<1>3. \A x : x \in Until(groups, g) <=> \E h \in 1 .. g - 1 : x \in {h} \X DOMAIN groups[h]
  BY DEF Until
<1>4. Until(groups, g + 1) = Until(groups, g) \cup ({g} \X DOMAIN groups[g])
  BY <1>2, <1>3
<1>5. ASSUME NEW x \in Until(groups, g), x \in {g} \X DOMAIN groups[g] PROVE FALSE
  <2>1. PICK h \in 1 .. g - 1 : x \in {h} \X DOMAIN groups[h]
    BY <1>3
  <2>2. x[1] = h /\ x[1] = g
    BY <1>5, <2>1
  <2> QED BY <2>2
<1> QED BY <1>4, <1>5

\* A group starts where the one before it ends.
LEMMA StartNext ==
    ASSUME NEW groups, Grouped(groups), NEW g \in 1 .. Len(groups), IsFiniteSet(Until(groups, g))
    PROVE  /\ IsFiniteSet(Until(groups, g + 1))
           /\ Start(groups, g) \in Nat
           /\ Start(groups, g + 1) = Start(groups, g) + Len(groups[g])
<1> DEFINE U == Until(groups, g)
           V == {g} \X DOMAIN groups[g]
<1>0. g \in Nat \ {0} /\ g \in DOMAIN groups
  BY DEF Grouped, List
<1>1. Until(groups, g + 1) = U \cup V /\ U \cap V = {}
  BY <1>0, UntilNext
<1>2. Len(groups[g]) \in Nat /\ DOMAIN groups[g] = 1 .. Len(groups[g])
  BY <1>0 DEF Grouped, List
<1>3. IsFiniteSet(V) /\ Cardinality(V) = Len(groups[g])
  <2>1. IsFiniteSet(1 .. Len(groups[g])) /\ Cardinality(1 .. Len(groups[g])) = Len(groups[g])
    <3>1. \A n \in Nat : IsFiniteSet(1 .. n) /\ Cardinality(1 .. n) = n
      BY FS_Interval
    <3> QED BY <1>2, <3>1
  <2>2. IsFiniteSet({g}) /\ Cardinality({g}) = 1
    BY FS_Singleton
  <2>3. IsFiniteSet(V) /\ Cardinality(V) = Cardinality({g}) * Cardinality(DOMAIN groups[g])
    BY <1>2, <2>1, <2>2, FS_Product
  <2> QED BY <1>2, <2>1, <2>2, <2>3
<1>4. Start(groups, g) = Cardinality(U) /\ Start(groups, g + 1) = Cardinality(Until(groups, g + 1))
  BY DEF Start, Until
<1>5. IsFiniteSet(U)
  OBVIOUS
<1> HIDE DEF U, V
<1>6. IsFiniteSet(U \cup V) /\ Cardinality(U \cup V) = Cardinality(U) + Cardinality(V) - Cardinality({})
  BY <1>1, <1>3, <1>5, FS_Union
<1>7. Cardinality(U) \in Nat /\ Cardinality({}) = 0
  BY <1>5, FS_CardinalityType, FS_EmptySet
<1>8. Cardinality(Until(groups, g + 1)) = Cardinality(U) + Len(groups[g])
  <2>1. PICK l \in Nat : l = Len(groups[g]) /\ Cardinality(V) = l
    BY <1>2, <1>3
  <2>2. Cardinality(U \cup V) = Cardinality(U) + l
    BY <1>6, <1>7, <2>1
  <2> QED BY <1>1, <2>1, <2>2
<1>9. IsFiniteSet(Until(groups, g + 1))
  BY <1>1, <1>6
<1> QED BY <1>4, <1>7, <1>8, <1>9

\* By induction, as the least group for which it fails: the items of the groups
\* before any are finitely many.
LEMMA UntilFinite ==
    ASSUME NEW groups, Grouped(groups), NEW g \in 1 .. Len(groups) + 1
    PROVE  IsFiniteSet(Until(groups, g))
<1> DEFINE T == {h \in 1 .. Len(groups) + 1 : ~IsFiniteSet(Until(groups, h))}
<1>1. Len(groups) \in Nat
  BY DEF Grouped, List
<1>2. SUFFICES ASSUME T # {} PROVE FALSE
  OBVIOUS
<1>3. T \in SUBSET Nat
  BY <1>1
<1> HIDE DEF T
<1>4. PICK h \in T : \A k \in T : h <= k
  BY <1>2, <1>3, LeastOf
<1>5. h \in 1 .. Len(groups) + 1 /\ ~IsFiniteSet(Until(groups, h))
  BY DEF T
<1>6. CASE h = 1
  <2>1. Until(groups, 1) = {}
    BY DEF Until
  <2> QED BY <1>5, <1>6, <2>1, FS_EmptySet
<1>7. CASE h # 1
  <2>1. h - 1 \in 1 .. Len(groups) /\ h - 1 \in 1 .. Len(groups) + 1 /\ (h - 1) + 1 = h
        /\ ~(h <= h - 1)
    BY <1>1, <1>5, <1>7
  <2>2. h - 1 \notin T
    BY <1>4, <2>1
  <2>3. IsFiniteSet(Until(groups, h - 1))
    BY <2>1, <2>2 DEF T
  <2>4. IsFiniteSet(Until(groups, (h - 1) + 1))
    BY <2>1, <2>3, StartNext
  <2> QED BY <1>5, <2>1, <2>4
<1> QED BY <1>6, <1>7

\* Groups do not overlap.
LEMMA StartIs ==
    ASSUME NEW groups, Grouped(groups)
    PROVE  /\ \A g \in 1 .. Len(groups) + 1 : Start(groups, g) \in Nat
           /\ \A g \in 1 .. Len(groups), h \in 1 .. Len(groups) + 1 :
                 g < h => Start(groups, g) + Len(groups[g]) <= Start(groups, h)
<1>1. Len(groups) \in Nat
  BY DEF Grouped, List
<1>2. ASSUME NEW g \in 1 .. Len(groups) + 1
      PROVE  IsFiniteSet(Until(groups, g)) /\ Start(groups, g) \in Nat
             /\ Start(groups, g) = Cardinality(Until(groups, g))
  <2>1. Start(groups, g) = Cardinality(Until(groups, g))
    BY DEF Start, Until
  <2> QED BY <2>1, UntilFinite, FS_CardinalityType
<1>3. ASSUME NEW g \in 1 .. Len(groups), NEW h \in 1 .. Len(groups) + 1, g < h
      PROVE  Start(groups, g) + Len(groups[g]) <= Start(groups, h)
  <2>1. g \in 1 .. Len(groups) + 1 /\ g + 1 \in 1 .. Len(groups) + 1
    BY <1>1
  <2>2. Start(groups, g + 1) = Start(groups, g) + Len(groups[g])
    BY <1>2, <2>1, StartNext
  <2>3. Until(groups, g + 1) \in SUBSET Until(groups, h)
    <3>1. 1 .. (g + 1) - 1 \subseteq 1 .. h - 1
      BY <1>1, <1>3
    <3> QED BY <3>1 DEF Until
  <2>4. Cardinality(Until(groups, g + 1)) <= Cardinality(Until(groups, h))
    BY <1>2, <2>3, FS_Subset
  <2> QED BY <1>2, <2>1, <2>2, <2>4
<1> QED BY <1>2, <1>3

\* Each item of each group is in the row, where the groups before it end.
LEMMA FlatIs ==
    ASSUME NEW groups, Grouped(groups)
    PROVE  /\ List(Flat(groups))
           /\ \A g \in DOMAIN groups : \A i \in DOMAIN groups[g] :
                 /\ Start(groups, g) + i \in DOMAIN Flat(groups)
                 /\ Flat(groups)[Start(groups, g) + i] = groups[g][i]
<1> DEFINE N == Len(groups)
           total == Start(groups, N + 1)
           of(n) == CHOOSE h \in DOMAIN groups : n - Start(groups, h) \in DOMAIN groups[h]
<1>1. /\ N \in Nat /\ DOMAIN groups = 1 .. N
      /\ \A g \in 1 .. N : Len(groups[g]) \in Nat /\ DOMAIN groups[g] = 1 .. Len(groups[g])
  BY DEF Grouped, List
<1>2. /\ total \in Nat /\ \A g \in 1 .. N : Start(groups, g) \in Nat
      /\ \A g, h \in 1 .. N : g < h => Start(groups, g) + Len(groups[g]) <= Start(groups, h)
      /\ \A g \in 1 .. N : Start(groups, g) + Len(groups[g]) <= total
  BY <1>1, StartIs
<1>3. Flat(groups) = [n \in 1 .. total |-> groups[of(n)][n - Start(groups, of(n))]]
  BY DEF Flat
<1>4. List(Flat(groups)) /\ DOMAIN Flat(groups) = 1 .. total
  <2>1. Flat(groups) = [n \in 1 .. total |-> Flat(groups)[n]]
    BY <1>3
  <2> QED BY <1>2, <2>1, FunctionList
<1>5. ASSUME NEW g \in 1 .. N, NEW i \in 1 .. Len(groups[g])
      PROVE  /\ Start(groups, g) + i \in 1 .. total
             /\ Flat(groups)[Start(groups, g) + i] = groups[g][i]
  <2> DEFINE n == Start(groups, g) + i
  <2>1. n \in 1 .. total /\ n - Start(groups, g) = i
    BY <1>1, <1>2
  <2>2. ASSUME NEW h \in 1 .. N, n - Start(groups, h) \in 1 .. Len(groups[h])
        PROVE  h = g
    <3>1. /\ Start(groups, h) \in Nat /\ Start(groups, g) \in Nat
          /\ Len(groups[h]) \in Nat /\ Len(groups[g]) \in Nat
      BY <1>1, <1>2
    <3>2. h < g => Start(groups, h) + Len(groups[h]) <= Start(groups, g)
      BY <1>2
    <3>3. g < h => Start(groups, g) + Len(groups[g]) <= Start(groups, h)
      BY <1>2
    <3> QED BY <1>1, <2>2, <3>1, <3>2, <3>3
  <2>3. n - Start(groups, g) \in 1 .. Len(groups[g])
    BY <2>1
  <2> HIDE DEF n, total
  <2>4. of(n) \in 1 .. N /\ n - Start(groups, of(n)) \in DOMAIN groups[of(n)]
    BY <1>1, <2>3
  <2>5. of(n) = g
    <3>1. n - Start(groups, of(n)) \in 1 .. Len(groups[of(n)])
      BY <1>1, <2>4
    <3> HIDE DEF of
    <3> QED BY <2>2, <2>4, <3>1
  <2>6. Flat(groups)[n] = groups[of(n)][n - Start(groups, of(n))]
    BY <1>3, <2>1
  <2> HIDE DEF of
  <2> QED BY <2>1, <2>5, <2>6 DEF n
<1> HIDE DEF total
<1> QED BY <1>1, <1>4, <1>5


(***************************************************************************)
(* The ways to read, by what the rows are and not by where they are.       *)
(***************************************************************************)
\* A function on the indexes of a sequence is one as long.
LEMMA MapIs ==
    ASSUME NEW rows, List(rows), NEW f, f = [i \in DOMAIN rows |-> f[i]]
    PROVE  List(f) /\ Len(f) = Len(rows) /\ DOMAIN f = DOMAIN rows
<1>1. Len(rows) \in Nat /\ DOMAIN rows = 1 .. Len(rows)
  BY DEF List
<1>2. f = [k \in 1 .. Len(rows) |-> f[k]]
  BY <1>1
<1> QED BY <1>1, <1>2, FunctionList

LEMMA InsideIs ==
    ASSUME NEW s
    PROVE  \A x : x \in Inside(s) <=> \E i \in DOMAIN s : x = s[i]
BY DEF Inside

\* A column has what the rows have there.
LEMMA ColumnHas ==
    ASSUME NEW rows, List(rows), NEW n
    PROVE  /\ List(Column(rows, n))
           /\ \A x : x \in Inside(Column(rows, n)) <=> \E r \in Inside(rows) : x = r[n]
<1>1. List(Column(rows, n)) /\ Inside(Column(rows, n)) = {rows[i][n] : i \in DOMAIN rows}
  BY ColumnIs
<1>2. \A x : x \in {rows[i][n] : i \in DOMAIN rows} <=> \E i \in DOMAIN rows : x = rows[i][n]
  OBVIOUS
<1>3. \A x : (\E i \in DOMAIN rows : x = rows[i][n]) <=> \E r \in Inside(rows) : x = r[n]
  BY InsideIs
<1> QED BY <1>1, <1>2, <1>3

\* The related rows of a key are those of the rows of that key, nulls left out.
LEMMA OfHas ==
    ASSUME NEW rows, List(rows), NEW key, NEW n
    PROVE  /\ List(Of(rows, key, n))
           /\ \A x : x \in Inside(Of(rows, key, n))
                       <=> \E r \in Inside(rows) : r[1] = key /\ x = r[n] /\ x # Nothing
<1>1. /\ List(Of(rows, key, n))
      /\ Inside(Of(rows, key, n)) = {rows[i][n] : i \in Its(rows, key, n)}
  BY OfIs
<1>2. \A x : x \in {rows[i][n] : i \in Its(rows, key, n)}
               <=> \E i \in DOMAIN rows : rows[i][1] = key /\ x = rows[i][n] /\ x # Nothing
  BY DEF Its
<1>3. \A x : (\E i \in DOMAIN rows : rows[i][1] = key /\ x = rows[i][n] /\ x # Nothing)
               <=> \E r \in Inside(rows) : r[1] = key /\ x = r[n] /\ x # Nothing
  BY InsideIs
<1> QED BY <1>1, <1>2, <1>3

\* No row is given twice if no two rows of the key have the same there.
LEMMA OfOnce ==
    ASSUME NEW rows, List(rows), Once(rows), NEW key, NEW n,
           \A q, r \in Inside(rows) :
              q[1] = key /\ r[1] = key /\ q[n] = r[n] /\ q[n] # Nothing => q = r
    PROVE  Once(Of(rows, key, n))
<1>1. ASSUME NEW i \in Its(rows, key, n), NEW j \in Its(rows, key, n), rows[i][n] = rows[j][n]
      PROVE  i = j
  <2>1. /\ i \in DOMAIN rows /\ j \in DOMAIN rows /\ rows[i][1] = key /\ rows[j][1] = key
        /\ rows[i][n] # Nothing
    BY DEF Its
  <2>2. PICK q \in Inside(rows) : q = rows[i]
    BY <2>1, InsideIs
  <2>3. PICK r \in Inside(rows) : r = rows[j]
    BY <2>1, InsideIs
  <2>4. q = r
    BY <1>1, <2>1, <2>2, <2>3
  <2> QED BY <2>1, <2>2, <2>3, <2>4 DEF Once
<1> QED BY <1>1, OfIs

\* find_with_related: each left model once, with the rows of its key.
LEMMA ConsolidateHas ==
    ASSUME NEW rows, List(rows)
    PROVE  /\ List(Consolidate(rows)) /\ List(Column(Consolidate(rows), 1))
           /\ Once(Column(Consolidate(rows), 1))
           /\ Len(Column(Consolidate(rows), 1)) = Len(Consolidate(rows))
           /\ Inside(Column(Consolidate(rows), 1)) = Inside(Column(rows, 1))
           /\ \A g \in DOMAIN Consolidate(rows) :
                 /\ Consolidate(rows)[g][1] \in Inside(Column(rows, 1))
                 /\ Consolidate(rows)[g][2] = Of(rows, Consolidate(rows)[g][1], 2)
<1> DEFINE lefts == Unique(Column(rows, 1))
           got == Consolidate(rows)
<1>1. List(Column(rows, 1))
  BY ColumnHas
<1>2. List(lefts) /\ Once(lefts) /\ Inside(lefts) = Inside(Column(rows, 1))
  BY <1>1, UniqueIs
<1>3. got = [g \in DOMAIN lefts |-> <<lefts[g], Of(rows, lefts[g], 2)>>]
  BY DEF Consolidate
<1> HIDE DEF lefts, got
<1>4. \A g \in DOMAIN lefts : got[g] = <<lefts[g], Of(rows, lefts[g], 2)>>
  BY <1>3
<1>5. List(got) /\ Len(got) = Len(lefts) /\ DOMAIN got = DOMAIN lefts
  <2>1. got = [g \in DOMAIN lefts |-> got[g]]
    BY <1>3
  <2> QED BY <1>2, <2>1, MapIs
<1>6. Column(got, 1) = lefts
  <2>1. Column(got, 1) = [g \in DOMAIN lefts |-> lefts[g]]
    BY <1>4, <1>5 DEF Column
  <2> QED BY <1>2, <2>1 DEF List
<1>7. \A g \in DOMAIN got :
         /\ got[g][1] = lefts[g] /\ got[g][2] = Of(rows, lefts[g], 2)
         /\ lefts[g] \in Inside(lefts)
  BY <1>4, <1>5, InsideIs
<1> QED BY <1>2, <1>5, <1>6, <1>7 DEF got

\* A star of relations: each left model once, each of its relations made unique.
LEMMA StarHas ==
    ASSUME NEW rows, List(rows)
    PROVE  /\ List(Column(Star(rows, 4), 1)) /\ Once(Column(Star(rows, 4), 1))
           /\ Inside(Column(Star(rows, 4), 1)) = Inside(Column(rows, 1))
           /\ \A g \in DOMAIN Star(rows, 4) :
                 /\ Star(rows, 4)[g][1] \in Inside(Column(rows, 1))
                 /\ \A n \in 2 .. 4 :
                       Star(rows, 4)[g][2][n] = Unique(Of(rows, Star(rows, 4)[g][1], n))
<1> DEFINE lefts == Unique(Column(rows, 1))
           got == Star(rows, 4)
<1>1. List(Column(rows, 1))
  BY ColumnHas
<1>2. List(lefts) /\ Once(lefts) /\ Inside(lefts) = Inside(Column(rows, 1))
  BY <1>1, UniqueIs
<1>3. got = [g \in DOMAIN lefts |->
               <<lefts[g], [n \in 2 .. 4 |-> Unique(Of(rows, lefts[g], n))]>>]
  BY DEF Star
<1> HIDE DEF lefts, got
<1>4. /\ DOMAIN got = DOMAIN lefts
      /\ \A g \in DOMAIN lefts :
           got[g] = <<lefts[g], [n \in 2 .. 4 |-> Unique(Of(rows, lefts[g], n))]>>
  BY <1>3
<1>5. Column(got, 1) = lefts
  <2>1. Column(got, 1) = [g \in DOMAIN lefts |-> lefts[g]]
    BY <1>4 DEF Column
  <2> QED BY <1>2, <2>1 DEF List
<1>6. \A g \in DOMAIN got : lefts[g] \in Inside(lefts)
  BY <1>4, InsideIs
<1>7. \A g \in DOMAIN got :
         got[g][1] = lefts[g] /\ \A n \in 2 .. 4 : got[g][2][n] = Unique(Of(rows, lefts[g], n))
  BY <1>4
<1> QED BY <1>2, <1>5, <1>6, <1>7 DEF got

\* A chain: each left model once, with what its rows say below it.
LEMMA ChainHas ==
    ASSUME NEW rows, List(rows)
    PROVE  /\ List(Chain(rows))
           /\ List(Column(Chain(rows), 1)) /\ Once(Column(Chain(rows), 1))
           /\ DOMAIN Column(Chain(rows), 1) = DOMAIN Chain(rows)
           /\ Inside(Column(Chain(rows), 1)) = Inside(Column(rows, 1))
           /\ \A g \in DOMAIN Chain(rows) :
                 /\ Column(Chain(rows), 1)[g] = Chain(rows)[g][1]
                 /\ Chain(rows)[g][1] \in Inside(Column(rows, 1))
                 /\ Chain(rows)[g][2] = Below(rows, Chain(rows)[g][1])
<1> DEFINE lefts == Unique(Column(rows, 1))
           got == Chain(rows)
<1>1. List(Column(rows, 1))
  BY ColumnHas
<1>2. List(lefts) /\ Once(lefts) /\ Inside(lefts) = Inside(Column(rows, 1))
  BY <1>1, UniqueIs
<1>3. got = [g \in DOMAIN lefts |-> <<lefts[g], Below(rows, lefts[g])>>]
  BY DEF Chain
<1> HIDE DEF lefts, got
<1>4. /\ \A g \in DOMAIN lefts : got[g] = <<lefts[g], Below(rows, lefts[g])>>
      /\ got = [g \in DOMAIN lefts |-> got[g]]
  BY <1>3
<1>5. List(got) /\ DOMAIN got = DOMAIN lefts
  BY <1>2, <1>4, MapIs
<1>6. Column(got, 1) = lefts
  <2>1. Column(got, 1) = [g \in DOMAIN lefts |-> lefts[g]]
    BY <1>4, <1>5 DEF Column
  <2> QED BY <1>2, <2>1 DEF List
<1>7. \A g \in DOMAIN got :
         /\ got[g][1] = lefts[g] /\ got[g][2] = Below(rows, lefts[g])
         /\ lefts[g] \in Inside(lefts)
  BY <1>4, <1>5, InsideIs
<1> QED BY <1>2, <1>5, <1>6, <1>7 DEF got

\* The rows of one tag, without it.
Cut(rows, l) == Only([i \in DOMAIN rows |-> <<rows[i][2], rows[i][3]>>], Its(rows, l, 2))

\* The second pass of a chain is a consolidation of those rows.
LEMMA CutHas ==
    ASSUME NEW rows, List(rows), NEW l
    PROVE  /\ List(Cut(rows, l)) /\ Below(rows, l) = Consolidate(Cut(rows, l))
           /\ \A x : x \in Inside(Cut(rows, l))
                       <=> \E r \in Inside(rows) : r[1] = l /\ r[2] # Nothing /\ x = <<r[2], r[3]>>
           /\ Once(rows) /\ (\A q, r \in Inside(rows) :
                               q[1] = l /\ r[1] = l /\ q[2] = r[2] /\ q[3] = r[3]
                               /\ q[2] # Nothing => q = r)
                => Once(Cut(rows, l))
<1> DEFINE s == [i \in DOMAIN rows |-> <<rows[i][2], rows[i][3]>>]
           I == Its(rows, l, 2)
<1>1. Len(rows) \in Nat /\ DOMAIN rows = 1 .. Len(rows)
  BY DEF List
<1>2. I \in SUBSET DOMAIN rows /\ \A i \in DOMAIN rows : i \in I <=> rows[i][1] = l /\ rows[i][2] # Nothing
  BY DEF Its
<1>3. \A i \in I : s[i] = <<rows[i][2], rows[i][3]>>
  BY <1>2
<1>4. Cut(rows, l) = Only(s, I) /\ Below(rows, l) = Consolidate(Cut(rows, l))
  BY DEF Cut, Below
<1> HIDE DEF s, I
<1>5. I \in SUBSET Nat /\ IsFiniteSet(I)
  <2>1. IsFiniteSet(1 .. Len(rows)) /\ 1 .. Len(rows) \in SUBSET Nat
    BY <1>1, FS_Interval
  <2> QED BY <1>1, <1>2, <2>1, FS_Subset
<1>6. List(Only(s, I)) /\ Inside(Only(s, I)) = {s[i] : i \in I}
  BY <1>5, OnlyIs
<1>7. \A x : x \in {s[i] : i \in I}
               <=> \E i \in DOMAIN rows : rows[i][1] = l /\ rows[i][2] # Nothing
                                            /\ x = <<rows[i][2], rows[i][3]>>
  BY <1>2, <1>3
<1>8. \A x : (\E i \in DOMAIN rows : rows[i][1] = l /\ rows[i][2] # Nothing
                                       /\ x = <<rows[i][2], rows[i][3]>>)
               <=> \E r \in Inside(rows) : r[1] = l /\ r[2] # Nothing /\ x = <<r[2], r[3]>>
  BY InsideIs
<1>9. ASSUME Once(rows),
             \A q, r \in Inside(rows) :
                q[1] = l /\ r[1] = l /\ q[2] = r[2] /\ q[3] = r[3] /\ q[2] # Nothing => q = r
      PROVE  Once(Only(s, I))
  <2>1. ASSUME NEW i \in I, NEW j \in I, s[i] = s[j] PROVE i = j
    <3>1. /\ i \in DOMAIN rows /\ j \in DOMAIN rows
          /\ rows[i][1] = l /\ rows[j][1] = l /\ rows[i][2] # Nothing
          /\ rows[i][2] = rows[j][2] /\ rows[i][3] = rows[j][3]
      BY <1>2, <1>3, <2>1
    <3>2. rows[i] \in Inside(rows) /\ rows[j] \in Inside(rows)
      BY <3>1, InsideIs
    <3>3. rows[i] = rows[j]
      BY <1>9, <3>1, <3>2
    <3> QED BY <1>9, <3>1, <3>3 DEF Once
  <2> QED BY <1>5, <2>1, OnlyIs
<1> QED BY <1>4, <1>6, <1>7, <1>8, <1>9


(***************************************************************************)
(* The rows of the joins.                                                  *)
(***************************************************************************)
\* What a database relates is of the type it should be.
LEMMA RelatedAre ==
    ASSUME NEW d \in Database
    PROVE  /\ d.parents \subseteq Parents /\ d.tags \subseteq Tags
           /\ \A l \in d.links : l.parent \in Parents /\ l.tag \in Tags /\ l.n \in 1 .. 2
                                 /\ l = [parent |-> l.parent, tag |-> l.tag, n |-> l.n]
           /\ \A p : OfParent(d, p) \subseteq Kids
           /\ \A p : Outer(OfParent(d, p)) \subseteq Kids \cup {Nothing}
           /\ \A p : Outer(OfParent(d, p)) # {}
           /\ \A p, k : k # Nothing => (k \in Outer(OfParent(d, p)) <=> k \in OfParent(d, p))
           /\ \A p, k : k \in OfParent(d, p) => k # Nothing
<1>1. d.links \subseteq Links /\ DOMAIN d.kids \subseteq Kids
  BY DatabaseIs
<1>2. \A l \in d.links : l.parent \in Parents /\ l.tag \in Tags /\ l.n \in 1 .. 2
                         /\ l = [parent |-> l.parent, tag |-> l.tag, n |-> l.n]
  BY <1>1 DEF Links
<1>3. \A p : OfParent(d, p) \subseteq Kids
  BY <1>1 DEF OfParent
<1>4. Nothing \notin Kids
  BY RelationsAssumption
<1> QED BY <1>2, <1>3, <1>4, DatabaseIs DEF Outer

LEMMA SidesFinite ==
    /\ IsFiniteSet(1 .. 2) /\ IsFiniteSet(Parents) /\ IsFiniteSet(Tags)
    /\ IsFiniteSet(Kids \cup {Nothing}) /\ IsFiniteSet(Tags \cup {Nothing})
    /\ IsFiniteSet(Parents \cup {Nothing})
<1>1. \A n \in Nat : IsFiniteSet(1 .. n)
  BY FS_Interval
<1>2. IsFiniteSet(1 .. 2)
  BY <1>1
<1>3. IsFiniteSet(Parents) /\ IsFiniteSet(Tags) /\ IsFiniteSet(Kids)
  BY RelationsAssumption, NestedSaveAssumption
<1> QED BY <1>2, <1>3, FS_AddElement

\* The rows of the join of parents and kids are finitely many, and which they are.
LEMMA ParentKidsRows ==
    ASSUME NEW d \in Database
    PROVE  /\ IsFiniteSet(ParentKids(d))
           /\ \A r : r \in ParentKids(d)
                       <=> \E p \in d.parents : \E k \in Outer(OfParent(d, p)) : r = <<p, k>>
<1>1. \A r : r \in ParentKids(d)
               <=> \E p \in d.parents : \E k \in Outer(OfParent(d, p)) : r = <<p, k>>
  BY DEF ParentKids
<1>2. ParentKids(d) \in SUBSET (Parents \X (Kids \cup {Nothing}))
  BY <1>1, RelatedAre
<1>3. IsFiniteSet(Kids \cup {Nothing}) /\ IsFiniteSet(Parents)
  BY SidesFinite
<1>4. IsFiniteSet(Parents \X (Kids \cup {Nothing}))
  BY <1>3, FS_Product
<1> QED BY <1>1, <1>2, <1>4, FS_Subset

\* The rows of the junction table.
LEMMA LinkRowsAre ==
    ASSUME NEW d \in Database
    PROVE  /\ IsFiniteSet(LinkRows(d))
           /\ \A r : r \in LinkRows(d) <=> \E l \in d.links : r = <<l.parent, l.tag, l.n>>
<1>1. \A r : r \in LinkRows(d) <=> \E l \in d.links : r = <<l.parent, l.tag, l.n>>
  BY DEF LinkRows
<1> DEFINE f == [r \in LinkRows(d) |-> <<r[1], <<r[2], r[3]>>>>]
           T == Parents \X (Tags \X (1 .. 2))
<1>2. f \in Injection(LinkRows(d), T)
  <2>1. ASSUME NEW r \in LinkRows(d) PROVE f[r] \in T
    <3>1. PICK l \in d.links : r = <<l.parent, l.tag, l.n>>
      BY <1>1
    <3>2. f[r] = <<l.parent, <<l.tag, l.n>>>>
      BY <3>1
    <3> QED BY <3>2, RelatedAre
  <2>2. ASSUME NEW q \in LinkRows(d), NEW r \in LinkRows(d), f[q] = f[r] PROVE q = r
    <3>1. PICK l \in d.links : q = <<l.parent, l.tag, l.n>>
      BY <1>1
    <3>2. PICK m \in d.links : r = <<m.parent, m.tag, m.n>>
      BY <1>1
    <3>3. f[q] = <<l.parent, <<l.tag, l.n>>>> /\ f[r] = <<m.parent, <<m.tag, m.n>>>>
      BY <3>1, <3>2
    <3>4. l.parent = m.parent /\ <<l.tag, l.n>> = <<m.tag, m.n>>
      BY <2>2, <3>3
    <3> QED BY <3>1, <3>2, <3>4
  <2>3. f \in [LinkRows(d) -> T]
    BY <2>1
  <2> HIDE DEF f, T
  <2> QED BY <2>2, <2>3 DEF Injection, IsInjective
<1>3. IsFiniteSet(T)
  <2>1. IsFiniteSet(Tags \X (1 .. 2))
    BY SidesFinite, FS_Product
  <2> QED BY <2>1, SidesFinite, FS_Product
<1> HIDE DEF f, T
<1>4. IsFiniteSet(LinkRows(d))
  BY <1>2, <1>3, FS_Injection
<1> QED BY <1>1, <1>4

\* What a row of the join of a parent with all its relations has.
StarRow(d, r, p, k, t, j, n) ==
    /\ p \in d.parents /\ k \in Outer(OfParent(d, p)) /\ j \in Outer(OfParent(d, p))
    /\ IF LinksOf(d, p) = {} THEN t = Nothing /\ n = 1
       ELSE \E l \in LinksOf(d, p) : t = l.tag /\ n = l.n
    /\ r = <<p, k, t, j, n>>

\* The rows of the join of a parent with all its relations.
LEMMA ParentStarRows ==
    ASSUME NEW d \in Database
    PROVE  /\ IsFiniteSet(ParentStar(d))
           /\ \A r : r \in ParentStar(d) <=> \E p, k, t, j, n : StarRow(d, r, p, k, t, j, n)
<1> DEFINE tags(p) == {<<m.tag, m.n>> : m \in LinksOf(d, p)} \cup
                         (IF LinksOf(d, p) = {} THEN {<<Nothing, 1>>} ELSE {})
<1>1. \A r : r \in ParentStar(d)
               <=> \E p \in d.parents : \E k \in Outer(OfParent(d, p)), j \in Outer(OfParent(d, p)) :
                      \E l \in tags(p) : r = <<p, k, l[1], j, l[2]>>
  BY DEF ParentStar
<1>2. \A p, l : l \in tags(p)
         <=> IF LinksOf(d, p) = {} THEN l = <<Nothing, 1>>
             ELSE \E m \in LinksOf(d, p) : l = <<m.tag, m.n>>
  OBVIOUS
<1> HIDE DEF tags
<1>3. ASSUME NEW r \in ParentStar(d) PROVE \E p, k, t, j, n : StarRow(d, r, p, k, t, j, n)
  <2>1. PICK p \in d.parents : \E k \in Outer(OfParent(d, p)), j \in Outer(OfParent(d, p)) :
           \E l \in tags(p) : r = <<p, k, l[1], j, l[2]>>
    BY <1>1
  <2>2. PICK k \in Outer(OfParent(d, p)), j \in Outer(OfParent(d, p)), l \in tags(p) :
           r = <<p, k, l[1], j, l[2]>>
    BY <2>1
  <2>3. IF LinksOf(d, p) = {} THEN l[1] = Nothing /\ l[2] = 1
        ELSE \E m \in LinksOf(d, p) : l[1] = m.tag /\ l[2] = m.n
    BY <1>2
  <2>4. StarRow(d, r, p, k, l[1], j, l[2])
    BY <2>2, <2>3 DEF StarRow
  <2> QED BY <2>4
<1>4. ASSUME NEW r, NEW p, NEW k, NEW t, NEW j, NEW n, StarRow(d, r, p, k, t, j, n)
      PROVE  r \in ParentStar(d)
  <2>1. <<t, n>> \in tags(p)
    BY <1>2, <1>4 DEF StarRow
  <2>2. /\ p \in d.parents /\ k \in Outer(OfParent(d, p)) /\ j \in Outer(OfParent(d, p))
        /\ r = <<p, k, t, j, n>>
    BY <1>4 DEF StarRow
  <2>3. \E l \in tags(p) : r = <<p, k, l[1], j, l[2]>>
    BY <2>1, <2>2
  <2> QED BY <1>1, <2>2, <2>3
<1> DEFINE T == (Parents \X (Kids \cup {Nothing})) \X ((Kids \cup {Nothing}) \X ((Tags \cup {Nothing}) \X (1 .. 2)))
           f == [r \in ParentStar(d) |-> <<<<r[1], r[2]>>, <<r[4], <<r[3], r[5]>>>>>>]
<1>5. ASSUME NEW r \in ParentStar(d)
      PROVE  /\ r[1] \in Parents /\ r[2] \in Kids \cup {Nothing} /\ r[3] \in Tags \cup {Nothing}
             /\ r[4] \in Kids \cup {Nothing} /\ r[5] \in 1 .. 2
             /\ r = <<r[1], r[2], r[3], r[4], r[5]>>
  <2>1. PICK p, k, t, j, n : StarRow(d, r, p, k, t, j, n)
    BY <1>3
  <2>2. /\ p \in Parents /\ k \in Kids \cup {Nothing} /\ j \in Kids \cup {Nothing}
    BY <2>1, RelatedAre DEF StarRow
  <2>3. t \in Tags \cup {Nothing} /\ n \in 1 .. 2
    <3>1. CASE LinksOf(d, p) = {}
      BY <2>1, <3>1 DEF StarRow
    <3>2. CASE LinksOf(d, p) # {}
      <4>1. PICK l \in d.links : t = l.tag /\ n = l.n
        BY <2>1, <3>2 DEF StarRow, LinksOf
      <4> QED BY <4>1, RelatedAre
    <3> QED BY <3>1, <3>2
  <2>4. r = <<p, k, t, j, n>>
    BY <2>1 DEF StarRow
  <2> QED BY <2>2, <2>3, <2>4
<1>6. f \in Injection(ParentStar(d), T)
  <2>1. ASSUME NEW r \in ParentStar(d) PROVE f[r] \in T
    BY <1>5
  <2>2. ASSUME NEW q \in ParentStar(d), NEW r \in ParentStar(d), f[q] = f[r] PROVE q = r
    <3>1. /\ <<q[1], q[2]>> = <<r[1], r[2]>>
          /\ <<q[4], <<q[3], q[5]>>>> = <<r[4], <<r[3], r[5]>>>>
      BY <2>2
    <3>2. q[1] = r[1] /\ q[2] = r[2] /\ q[4] = r[4] /\ q[3] = r[3] /\ q[5] = r[5]
      BY <3>1
    <3>3. q = <<q[1], q[2], q[3], q[4], q[5]>> /\ r = <<r[1], r[2], r[3], r[4], r[5]>>
      BY <1>5
    <3> QED BY <3>2, <3>3
  <2>3. f \in [ParentStar(d) -> T]
    BY <2>1
  <2> HIDE DEF f, T
  <2> QED BY <2>2, <2>3 DEF Injection, IsInjective
<1>7. IsFiniteSet(T)
  <2>1. IsFiniteSet(1 .. 2) /\ IsFiniteSet(Kids \cup {Nothing}) /\ IsFiniteSet(Tags \cup {Nothing})
        /\ IsFiniteSet(Parents)
    BY SidesFinite
  <2>2. IsFiniteSet((Tags \cup {Nothing}) \X (1 .. 2))
    BY <2>1, FS_Product
  <2>3. IsFiniteSet((Kids \cup {Nothing}) \X ((Tags \cup {Nothing}) \X (1 .. 2)))
    BY <2>1, <2>2, FS_Product
  <2>4. IsFiniteSet(Parents \X (Kids \cup {Nothing}))
    BY <2>1, FS_Product
  <2> QED BY <2>3, <2>4, FS_Product
<1> HIDE DEF f, T
<1>8. IsFiniteSet(ParentStar(d))
  BY <1>6, <1>7, FS_Injection
<1> QED BY <1>3, <1>4, <1>8

\* What a row of the chain of joins has.
ChainRow(d, r, t, p, k, n) ==
    /\ t \in d.tags /\ r = <<t, p, k, n>>
    /\ IF {l \in d.links : l.tag = t} = {} THEN p = Nothing /\ k = Nothing /\ n = 1
       ELSE \E l \in d.links : l.tag = t /\ p = l.parent /\ n = l.n /\ k \in Outer(OfParent(d, p))

\* The rows of the chain of joins.
LEMMA TagChainRows ==
    ASSUME NEW d \in Database
    PROVE  /\ IsFiniteSet(TagChain(d))
           /\ \A r : r \in TagChain(d) <=> \E t, p, k, n : ChainRow(d, r, t, p, k, n)
<1> DEFINE of(t) == {l \in d.links : l.tag = t}
           below(t) == IF of(t) = {} THEN {<<t, Nothing, Nothing, 1>>}
                       ELSE UNION {{<<t, l.parent, k, l.n>> : k \in Outer(OfParent(d, l.parent))}
                                     : l \in of(t)}
<1>1. \A r : r \in TagChain(d) <=> \E t \in d.tags : r \in below(t)
  BY DEF TagChain
<1>2. \A r, t : r \in below(t)
         <=> IF of(t) = {} THEN r = <<t, Nothing, Nothing, 1>>
             ELSE \E l \in of(t) : \E k \in Outer(OfParent(d, l.parent)) : r = <<t, l.parent, k, l.n>>
  <2> HIDE DEF of
  <2> QED OBVIOUS
<1>3. \A l, t : l \in of(t) <=> l \in d.links /\ l.tag = t
  OBVIOUS
<1> HIDE DEF below
<1>4. ASSUME NEW r \in TagChain(d) PROVE \E t, p, k, n : ChainRow(d, r, t, p, k, n)
  <2>1. PICK t \in d.tags : r \in below(t)
    BY <1>1
  <2>2. CASE of(t) = {}
    <3>1. ChainRow(d, r, t, Nothing, Nothing, 1)
      BY <1>2, <2>1, <2>2 DEF ChainRow
    <3> QED BY <3>1
  <2>3. CASE of(t) # {}
    <3>1. PICK l \in of(t) : \E k \in Outer(OfParent(d, l.parent)) : r = <<t, l.parent, k, l.n>>
      BY <1>2, <2>1, <2>3
    <3>2. PICK k \in Outer(OfParent(d, l.parent)) : r = <<t, l.parent, k, l.n>>
      BY <3>1
    <3>3. ChainRow(d, r, t, l.parent, k, l.n)
      BY <1>3, <2>3, <3>2 DEF ChainRow
    <3> QED BY <3>3
  <2> QED BY <2>2, <2>3
<1>5. ASSUME NEW r, NEW t, NEW p, NEW k, NEW n, ChainRow(d, r, t, p, k, n)
      PROVE  r \in TagChain(d)
  <2>1. t \in d.tags /\ r = <<t, p, k, n>>
    BY <1>5 DEF ChainRow
  <2>2. CASE of(t) = {}
    <3>1. r = <<t, Nothing, Nothing, 1>>
      BY <1>5, <2>2 DEF ChainRow
    <3> QED BY <1>1, <1>2, <2>1, <2>2, <3>1
  <2>3. CASE of(t) # {}
    <3>1. PICK l \in d.links : l.tag = t /\ p = l.parent /\ n = l.n /\ k \in Outer(OfParent(d, p))
      BY <1>5, <2>3 DEF ChainRow
    <3>2. l \in of(t) /\ k \in Outer(OfParent(d, l.parent)) /\ r = <<t, l.parent, k, l.n>>
      BY <1>3, <2>1, <3>1
    <3>3. r \in below(t)
      BY <1>2, <2>3, <3>2
    <3> QED BY <1>1, <2>1, <3>3
  <2> QED BY <2>2, <2>3
<1> HIDE DEF of
<1> DEFINE T == (Tags \X (Parents \cup {Nothing})) \X ((Kids \cup {Nothing}) \X (1 .. 2))
           f == [r \in TagChain(d) |-> <<<<r[1], r[2]>>, <<r[3], r[4]>>>>]
<1>6. ASSUME NEW r \in TagChain(d)
      PROVE  /\ r[1] \in Tags /\ r[2] \in Parents \cup {Nothing} /\ r[3] \in Kids \cup {Nothing}
             /\ r[4] \in 1 .. 2 /\ r = <<r[1], r[2], r[3], r[4]>>
  <2>1. PICK t, p, k, n : ChainRow(d, r, t, p, k, n)
    BY <1>4
  <2>2. t \in Tags /\ r = <<t, p, k, n>>
    BY <2>1, RelatedAre DEF ChainRow
  <2>3. p \in Parents \cup {Nothing} /\ k \in Kids \cup {Nothing} /\ n \in 1 .. 2
    BY <2>1, RelatedAre DEF ChainRow
  <2> QED BY <2>2, <2>3
<1>7. f \in Injection(TagChain(d), T)
  <2>1. ASSUME NEW r \in TagChain(d) PROVE f[r] \in T
    BY <1>6
  <2>2. ASSUME NEW q \in TagChain(d), NEW r \in TagChain(d), f[q] = f[r] PROVE q = r
    <3>1. <<q[1], q[2]>> = <<r[1], r[2]>> /\ <<q[3], q[4]>> = <<r[3], r[4]>>
      BY <2>2
    <3>2. q[1] = r[1] /\ q[2] = r[2] /\ q[3] = r[3] /\ q[4] = r[4]
      BY <3>1
    <3>3. q = <<q[1], q[2], q[3], q[4]>> /\ r = <<r[1], r[2], r[3], r[4]>>
      BY <1>6
    <3> QED BY <3>2, <3>3
  <2>3. f \in [TagChain(d) -> T]
    BY <2>1
  <2> HIDE DEF f, T
  <2> QED BY <2>2, <2>3 DEF Injection, IsInjective
<1>8. IsFiniteSet(T)
  <2>1. IsFiniteSet(1 .. 2) /\ IsFiniteSet(Kids \cup {Nothing}) /\ IsFiniteSet(Parents \cup {Nothing})
        /\ IsFiniteSet(Tags)
    BY SidesFinite
  <2>2. IsFiniteSet((Kids \cup {Nothing}) \X (1 .. 2))
    BY <2>1, FS_Product
  <2>3. IsFiniteSet(Tags \X (Parents \cup {Nothing}))
    BY <2>1, FS_Product
  <2> QED BY <2>2, <2>3, FS_Product
<1> HIDE DEF f, T
<1>9. IsFiniteSet(TagChain(d))
  BY <1>7, <1>8, FS_Injection
<1> QED BY <1>4, <1>5, <1>9


(***************************************************************************)
(* The ways to read agree.                                                 *)
(***************************************************************************)
LEMMA OrdersAre ==
    ASSUME NEW S, IsFiniteSet(S), NEW s \in Orders(S)
    PROVE  List(s) /\ Once(s) /\ Inside(s) = S
<1>1. s \in InARow(S)
  BY DEF Orders
<1> QED BY <1>1, OrderIs

LEMMA HoldsIs ==
    ASSUME NEW s, List(s), Once(s), NEW S, \A x : x \in Inside(s) <=> x \in S
    PROVE  Holds(s, S) /\ Len(s) = Cardinality(S) /\ Inside(s) = S
<1>1. Inside(s) = S
  BY Zenon
<1> QED BY <1>1, OnceHolds

\* What the rows of a parent in its join with kids say: its kids, each once.
LEMMA KidsRead ==
    ASSUME NEW d \in Database, NEW rows \in Orders(ParentKids(d)), NEW p \in d.parents
    PROVE  /\ List(Of(rows, p, 2)) /\ Once(Of(rows, p, 2))
           /\ Inside(Of(rows, p, 2)) = OfParent(d, p) /\ Holds(Of(rows, p, 2), OfParent(d, p))
<1>1. /\ List(rows) /\ Once(rows) /\ Inside(rows) = ParentKids(d)
  BY ParentKidsRows, OrdersAre
<1>2. \A r \in Inside(rows) :
         \E q \in d.parents : \E k \in Outer(OfParent(d, q)) : r = <<q, k>>
  BY <1>1, ParentKidsRows
<1>3. \A q, r \in Inside(rows) :
         q[1] = p /\ r[1] = p /\ q[2] = r[2] /\ q[2] # Nothing => q = r
  BY <1>2
<1>4. List(Of(rows, p, 2)) /\ Once(Of(rows, p, 2))
  BY <1>1, <1>3, OfHas, OfOnce
<1>5. ASSUME NEW k PROVE k \in Inside(Of(rows, p, 2)) <=> k \in OfParent(d, p)
  <2>1. k \in Inside(Of(rows, p, 2))
          <=> \E r \in Inside(rows) : r[1] = p /\ k = r[2] /\ k # Nothing
    BY <1>1, OfHas
  <2>2. ASSUME NEW r \in Inside(rows), r[1] = p, k = r[2], k # Nothing
        PROVE  k \in OfParent(d, p)
    <3>1. k \in Outer(OfParent(d, p))
      BY <1>2, <2>2
    <3> QED BY <2>2, <3>1, RelatedAre
  <2>3. ASSUME k \in OfParent(d, p)
        PROVE  \E r \in Inside(rows) : r[1] = p /\ k = r[2] /\ k # Nothing
    <3>1. k # Nothing
      BY <2>3, RelatedAre
    <3>2. k \in Outer(OfParent(d, p))
      BY <2>3, <3>1, RelatedAre
    <3>3. <<p, k>> \in Inside(rows)
      BY <1>1, <3>2, ParentKidsRows
    <3> QED BY <3>1, <3>3
  <2> QED BY <2>1, <2>2, <2>3
<1> QED BY <1>4, <1>5, HoldsIs

\* Every parent has a row in that join.
LEMMA ParentsRead ==
    ASSUME NEW d \in Database, NEW rows \in Orders(ParentKids(d))
    PROVE  /\ List(rows) /\ \A p : p \in Inside(Column(rows, 1)) <=> p \in d.parents
<1>1. List(rows) /\ Inside(rows) = ParentKids(d)
  BY ParentKidsRows, OrdersAre
<1>2. ASSUME NEW p PROVE p \in Inside(Column(rows, 1)) <=> p \in d.parents
  <2>1. p \in Inside(Column(rows, 1)) <=> \E r \in Inside(rows) : p = r[1]
    BY <1>1, ColumnHas
  <2>2. ASSUME NEW r \in Inside(rows), p = r[1] PROVE p \in d.parents
    BY <1>1, <2>2, ParentKidsRows
  <2>3. ASSUME p \in d.parents PROVE \E r \in Inside(rows) : p = r[1]
    <3>1. PICK k \in Outer(OfParent(d, p)) : TRUE
      BY RelatedAre
    <3>2. <<p, k>> \in Inside(rows)
      BY <1>1, <2>3, ParentKidsRows
    <3> QED BY <3>2
  <2> QED BY <2>1, <2>2, <2>3
<1> QED BY <1>1, <1>2

\* find_with_related gives every parent once, with its kids.
LEMMA JoinAgrees ==
    ASSUME NEW d \in Database, NEW rows \in Orders(ParentKids(d))
    PROVE  /\ Holds(Column(Consolidate(rows), 1), d.parents)
           /\ \A g \in DOMAIN Consolidate(rows) :
                 Holds(Consolidate(rows)[g][2], OfParent(d, Consolidate(rows)[g][1]))
<1> DEFINE got == Consolidate(rows)
<1>1. List(rows) /\ \A p : p \in Inside(Column(rows, 1)) <=> p \in d.parents
  BY ParentsRead
<1>2. /\ List(Column(got, 1)) /\ Once(Column(got, 1))
      /\ Inside(Column(got, 1)) = Inside(Column(rows, 1))
      /\ \A g \in DOMAIN got : /\ got[g][1] \in Inside(Column(rows, 1))
                               /\ got[g][2] = Of(rows, got[g][1], 2)
  BY <1>1, ConsolidateHas
<1> HIDE DEF got
<1>3. Holds(Column(got, 1), d.parents)
  BY <1>1, <1>2, HoldsIs
<1>4. ASSUME NEW g \in DOMAIN got PROVE Holds(got[g][2], OfParent(d, got[g][1]))
  <2>1. got[g][1] \in d.parents /\ got[g][2] = Of(rows, got[g][1], 2)
    BY <1>1, <1>2
  <2> QED BY <2>1, KidsRead
<1> QED BY <1>3, <1>4 DEF got

\* load_many gives the kids of each model, load_one the one there is.
LEMMA LoadersAgree ==
    ASSUME NEW d \in Database, Consistent(d), NEW rows \in Orders(ParentKids(d)),
           NEW ps \in InARow(d.parents), NEW i \in DOMAIN ps
    PROVE  /\ Holds(LoadMany(ps, rows)[i], OfParent(d, ps[i]))
           /\ schema.one => Outer(OfParent(d, ps[i])) = {LoadOne(ps, rows)[i]}
<1> DEFINE p == ps[i]
           found == Of(rows, ps[i], 2)
<1>1. p \in d.parents
  BY DEF InARow
<1>2. List(found) /\ Inside(found) = OfParent(d, p) /\ Holds(found, OfParent(d, p))
  BY <1>1, KidsRead
<1>3. LoadMany(ps, rows)[i] = found
  BY DEF LoadMany
<1>4. LoadOne(ps, rows)[i] = IF found = <<>> THEN Nothing ELSE found[Len(found)]
  BY DEF LoadOne
<1> HIDE DEF p, found
<1>5. ASSUME schema.one PROVE Outer(OfParent(d, p)) = {LoadOne(ps, rows)[i]}
  <2>0. Len(found) \in Nat /\ DOMAIN found = 1 .. Len(found)
    BY <1>2 DEF List
  <2>1. CASE OfParent(d, p) = {}
    <3>1. DOMAIN found = {}
      BY <1>2, <2>1 DEF Inside
    <3>2. found = <<>>
      <4>1. found = [k \in {} |-> found[k]]
        BY <1>2, <3>1 DEF List
      <4>2. <<>> = [k \in {} |-> found[k]]
        OBVIOUS
      <4> QED BY <4>1, <4>2, Zenon
    <3> QED BY <1>4, <2>1, <3>2 DEF Outer
  <2>2. CASE OfParent(d, p) # {}
    <3>1. DOMAIN found # {}
      BY <1>2, <2>2 DEF Inside
    <3>2. found # <<>> /\ Len(found) \in DOMAIN found
      BY <2>0, <3>1
    <3>3. found[Len(found)] \in OfParent(d, p)
      BY <1>2, <3>2 DEF Inside
    <3>4. \A a, b \in OfParent(d, p) : a = b
      <4>1. \A j, k \in DOMAIN d.kids : d.kids[j] = d.kids[k] /\ d.kids[j] # NoParent => j = k
        BY <1>5, ConsistentMeans
      <4>2. p # NoParent
        BY <1>1, DatabaseIs, NestedSaveAssumption
      <4> QED BY <4>1, <4>2 DEF OfParent
    <3>5. OfParent(d, p) = {found[Len(found)]}
      BY <3>3, <3>4
    <3> QED BY <1>4, <2>2, <3>2, <3>5 DEF Outer
  <2> QED BY <2>1, <2>2
<1> QED BY <1>2, <1>3, <1>5 DEF p

\* The columns of a parent's rows in the star, made unique, are its relations.
LEMMA StarColumn ==
    ASSUME NEW d \in Database, NEW rows \in Orders(ParentStar(d)), NEW p \in d.parents
    PROVE  /\ Holds(Unique(Of(rows, p, 2)), OfParent(d, p))
           /\ Holds(Unique(Of(rows, p, 3)), TagsOf(d, p))
           /\ Holds(Unique(Of(rows, p, 4)), OfParent(d, p))
<1>1. List(rows) /\ Inside(rows) = ParentStar(d)
  BY ParentStarRows, OrdersAre
<1>2. \A n : /\ List(Unique(Of(rows, p, n))) /\ Once(Unique(Of(rows, p, n)))
             /\ Inside(Unique(Of(rows, p, n))) = Inside(Of(rows, p, n))
  BY <1>1, OfHas, UniqueIs
<1>3. \A n, x : x \in Inside(Of(rows, p, n))
                  <=> \E r \in Inside(rows) : r[1] = p /\ x = r[n] /\ x # Nothing
  BY <1>1, OfHas
<1>4. \A r \in Inside(rows) : \E q, k, t, j, n : StarRow(d, r, q, k, t, j, n)
  BY <1>1, ParentStarRows
<1>5. \E t, n : IF LinksOf(d, p) = {} THEN t = Nothing /\ n = 1
                ELSE \E l \in LinksOf(d, p) : t = l.tag /\ n = l.n
  <2>1. CASE LinksOf(d, p) = {}
    BY <2>1
  <2>2. CASE LinksOf(d, p) # {}
    <3>1. PICK l \in LinksOf(d, p) : TRUE
      BY <2>2
    <3> QED BY <2>2, <3>1
  <2> QED BY <2>1, <2>2
<1>6. PICK t, n : IF LinksOf(d, p) = {} THEN t = Nothing /\ n = 1
                  ELSE \E l \in LinksOf(d, p) : t = l.tag /\ n = l.n
  BY <1>5
<1>7. ASSUME NEW k \in Outer(OfParent(d, p)), NEW j \in Outer(OfParent(d, p))
      PROVE  <<p, k, t, j, n>> \in Inside(rows)
  <2>1. StarRow(d, <<p, k, t, j, n>>, p, k, t, j, n)
    BY <1>6 DEF StarRow
  <2> QED BY <1>1, <2>1, ParentStarRows
<1>8. PICK o \in Outer(OfParent(d, p)) : TRUE
  BY RelatedAre
<1>9. ASSUME NEW k PROVE k \in Inside(Of(rows, p, 2)) <=> k \in OfParent(d, p)
  <2>1. ASSUME NEW r \in Inside(rows), r[1] = p, k = r[2], k # Nothing PROVE k \in OfParent(d, p)
    <3>1. k \in Outer(OfParent(d, p))
      BY <1>4, <2>1 DEF StarRow
    <3> QED BY <2>1, <3>1, RelatedAre
  <2>2. ASSUME k \in OfParent(d, p) PROVE \E r \in Inside(rows) : r[1] = p /\ k = r[2] /\ k # Nothing
    <3>1. k # Nothing /\ k \in Outer(OfParent(d, p))
      BY <2>2, RelatedAre
    <3>2. <<p, k, t, o, n>> \in Inside(rows)
      BY <1>7, <1>8, <3>1
    <3> QED BY <3>1, <3>2
  <2> QED BY <1>3, <2>1, <2>2
<1>10. ASSUME NEW k PROVE k \in Inside(Of(rows, p, 4)) <=> k \in OfParent(d, p)
  <2>1. ASSUME NEW r \in Inside(rows), r[1] = p, k = r[4], k # Nothing PROVE k \in OfParent(d, p)
    <3>1. k \in Outer(OfParent(d, p))
      BY <1>4, <2>1 DEF StarRow
    <3> QED BY <2>1, <3>1, RelatedAre
  <2>2. ASSUME k \in OfParent(d, p) PROVE \E r \in Inside(rows) : r[1] = p /\ k = r[4] /\ k # Nothing
    <3>1. k # Nothing /\ k \in Outer(OfParent(d, p))
      BY <2>2, RelatedAre
    <3>2. <<p, o, t, k, n>> \in Inside(rows)
      BY <1>7, <1>8, <3>1
    <3> QED BY <3>1, <3>2
  <2> QED BY <1>3, <2>1, <2>2
<1>11. ASSUME NEW x PROVE x \in Inside(Of(rows, p, 3)) <=> x \in TagsOf(d, p)
  <2>0. x \in TagsOf(d, p) <=> \E l \in LinksOf(d, p) : x = l.tag
    BY DEF TagsOf
  <2>1. ASSUME NEW r \in Inside(rows), r[1] = p, x = r[3], x # Nothing PROVE x \in TagsOf(d, p)
    <3>1. PICK q, k, u, j, m : StarRow(d, r, q, k, u, j, m)
      BY <1>4
    <3>2. q = p /\ u = x
      BY <2>1, <3>1 DEF StarRow
    <3> QED BY <2>0, <2>1, <3>1, <3>2 DEF StarRow
  <2>2. ASSUME x \in TagsOf(d, p) PROVE \E r \in Inside(rows) : r[1] = p /\ x = r[3] /\ x # Nothing
    <3>1. PICK l \in LinksOf(d, p) : x = l.tag
      BY <2>0, <2>2
    <3>2. x \in Tags /\ x # Nothing
      BY <3>1, RelatedAre, RelationsAssumption DEF LinksOf
    <3>3. StarRow(d, <<p, o, x, o, l.n>>, p, o, x, o, l.n)
      BY <1>8, <3>1 DEF StarRow
    <3>4. <<p, o, x, o, l.n>> \in Inside(rows)
      BY <1>1, <3>3, ParentStarRows
    <3> QED BY <3>2, <3>4
  <2> QED BY <1>3, <2>1, <2>2
<1>12. Holds(Unique(Of(rows, p, 2)), OfParent(d, p))
  BY <1>2, <1>9, HoldsIs
<1>13. Holds(Unique(Of(rows, p, 3)), TagsOf(d, p))
  BY <1>2, <1>11, HoldsIs
<1>14. Holds(Unique(Of(rows, p, 4)), OfParent(d, p))
  BY <1>2, <1>10, HoldsIs
<1> QED BY <1>12, <1>13, <1>14

\* The star gives every parent once, with each of its relations.
LEMMA StarAgrees ==
    ASSUME NEW d \in Database, NEW rows \in Orders(ParentStar(d))
    PROVE  /\ Holds(Column(Star(rows, 4), 1), d.parents)
           /\ \A g \in DOMAIN Star(rows, 4) :
                 /\ Holds(Star(rows, 4)[g][2][2], OfParent(d, Star(rows, 4)[g][1]))
                 /\ Holds(Star(rows, 4)[g][2][3], TagsOf(d, Star(rows, 4)[g][1]))
                 /\ Holds(Star(rows, 4)[g][2][4], OfParent(d, Star(rows, 4)[g][1]))
<1> DEFINE got == Star(rows, 4)
<1>1. List(rows) /\ Inside(rows) = ParentStar(d)
  BY ParentStarRows, OrdersAre
<1>2. /\ List(Column(got, 1)) /\ Once(Column(got, 1))
      /\ Inside(Column(got, 1)) = Inside(Column(rows, 1))
      /\ \A g \in DOMAIN got : /\ got[g][1] \in Inside(Column(rows, 1))
                               /\ \A n \in 2 .. 4 : got[g][2][n] = Unique(Of(rows, got[g][1], n))
  BY <1>1, StarHas
<1> HIDE DEF got
<1>3. ASSUME NEW p PROVE p \in Inside(Column(rows, 1)) <=> p \in d.parents
  <2>1. p \in Inside(Column(rows, 1)) <=> \E r \in Inside(rows) : p = r[1]
    BY <1>1, ColumnHas
  <2>2. ASSUME NEW r \in Inside(rows), p = r[1] PROVE p \in d.parents
    <3>1. PICK q, k, t, j, n : StarRow(d, r, q, k, t, j, n)
      BY <1>1, ParentStarRows
    <3> QED BY <2>2, <3>1 DEF StarRow
  <2>3. ASSUME p \in d.parents PROVE \E r \in Inside(rows) : p = r[1]
    <3>1. PICK k \in Outer(OfParent(d, p)) : TRUE
      BY RelatedAre
    <3>2. PICK t, n : StarRow(d, <<p, k, t, k, n>>, p, k, t, k, n)
      <4>1. CASE LinksOf(d, p) = {}
        <5>1. StarRow(d, <<p, k, Nothing, k, 1>>, p, k, Nothing, k, 1)
          BY <2>3, <3>1, <4>1 DEF StarRow
        <5> QED BY <5>1
      <4>2. CASE LinksOf(d, p) # {}
        <5>1. PICK l \in LinksOf(d, p) : TRUE
          BY <4>2
        <5>2. StarRow(d, <<p, k, l.tag, k, l.n>>, p, k, l.tag, k, l.n)
          BY <2>3, <3>1, <4>2, <5>1 DEF StarRow
        <5> QED BY <5>2
      <4> QED BY <4>1, <4>2
    <3>3. <<p, k, t, k, n>> \in Inside(rows)
      BY <1>1, <3>2, ParentStarRows
    <3> QED BY <3>3
  <2> QED BY <2>1, <2>2, <2>3
<1>4. Holds(Column(got, 1), d.parents)
  BY <1>2, <1>3, HoldsIs
<1>5. ASSUME NEW g \in DOMAIN got
      PROVE  /\ Holds(got[g][2][2], OfParent(d, got[g][1]))
             /\ Holds(got[g][2][3], TagsOf(d, got[g][1]))
             /\ Holds(got[g][2][4], OfParent(d, got[g][1]))
  <2>1. /\ got[g][1] \in d.parents
        /\ got[g][2][2] = Unique(Of(rows, got[g][1], 2))
        /\ got[g][2][3] = Unique(Of(rows, got[g][1], 3))
        /\ got[g][2][4] = Unique(Of(rows, got[g][1], 4))
    BY <1>2, <1>3
  <2> QED BY <2>1, StarColumn
<1> QED BY <1>4, <1>5 DEF got


(***************************************************************************)
(* The chain of joins and the loaders on what a loader gave.               *)
(***************************************************************************)
Alone(d) == \A l \in d.links : l.n = 1
Leads(d, t, p) == \E l \in d.links : l.tag = t /\ l.parent = p
Back(links) == [i \in DOMAIN links |-> <<links[i][2], links[i][1]>>]

\* The junction table read from the tags' side.
LEMMA BackIs ==
    ASSUME NEW d \in Database, NEW links \in Orders(LinkRows(d))
    PROVE  /\ List(Back(links))
           /\ \A x : x \in Inside(Back(links)) <=> \E l \in d.links : x = <<l.tag, l.parent>>
           /\ Alone(d) => Once(Back(links))
<1> DEFINE b == Back(links)
<1>1. /\ List(links) /\ Once(links) /\ Inside(links) = LinkRows(d)
      /\ \A r : r \in LinkRows(d) <=> \E l \in d.links : r = <<l.parent, l.tag, l.n>>
  BY LinkRowsAre, OrdersAre
<1>2. DOMAIN b = DOMAIN links /\ \A i \in DOMAIN links : b[i] = <<links[i][2], links[i][1]>>
  BY DEF Back
<1>3. b = [i \in DOMAIN links |-> b[i]]
  BY DEF Back
<1> HIDE DEF b
<1>4. List(b)
  BY <1>1, <1>3, MapIs
<1>5. ASSUME NEW x PROVE x \in Inside(b) <=> \E l \in d.links : x = <<l.tag, l.parent>>
  <2>1. x \in Inside(b) <=> \E i \in DOMAIN links : x = <<links[i][2], links[i][1]>>
    BY <1>2, InsideIs
  <2>2. (\E i \in DOMAIN links : x = <<links[i][2], links[i][1]>>)
          <=> \E r \in Inside(links) : x = <<r[2], r[1]>>
    BY InsideIs
  <2>3. ASSUME NEW r \in Inside(links), x = <<r[2], r[1]>> PROVE \E l \in d.links : x = <<l.tag, l.parent>>
    <3>1. PICK l \in d.links : r = <<l.parent, l.tag, l.n>>
      BY <1>1
    <3> QED BY <2>3, <3>1
  <2>4. ASSUME NEW l \in d.links, x = <<l.tag, l.parent>> PROVE \E r \in Inside(links) : x = <<r[2], r[1]>>
    <3>1. <<l.parent, l.tag, l.n>> \in Inside(links)
      BY <1>1
    <3> QED BY <2>4, <3>1
  <2> QED BY <2>1, <2>2, <2>3, <2>4
<1>6. ASSUME Alone(d) PROVE Once(b)
  <2> SUFFICES ASSUME NEW i \in DOMAIN links, NEW j \in DOMAIN links, b[i] = b[j] PROVE i = j
    BY <1>2 DEF Once
  <2>1. links[i] \in Inside(links) /\ links[j] \in Inside(links)
    BY InsideIs
  <2>2. PICK l \in d.links : links[i] = <<l.parent, l.tag, l.n>>
    BY <1>1, <2>1
  <2>3. PICK m \in d.links : links[j] = <<m.parent, m.tag, m.n>>
    BY <1>1, <2>1
  <2>4. l.n = 1 /\ m.n = 1
    BY <1>6 DEF Alone
  <2>5. <<l.tag, l.parent>> = <<m.tag, m.parent>>
    BY <1>2, <2>2, <2>3
  <2>6. links[i] = links[j]
    BY <2>2, <2>3, <2>4, <2>5
  <2> QED BY <1>1, <2>6 DEF Once
<1> QED BY <1>4, <1>5, <1>6 DEF b

\* load_many_to_many gives each tag the parents its links lead to; a consistent
\* database has a row for every one of them.
LEMMA LeadsAre ==
    ASSUME NEW d \in Database, Consistent(d), NEW links \in Orders(LinkRows(d)),
           NEW tags, List(tags), NEW parents, parents = LoadManyToMany(tags, Back(links), d.parents)
    PROVE  /\ Grouped(parents) /\ DOMAIN parents = DOMAIN tags
           /\ \A g \in DOMAIN parents :
                 /\ \A p : p \in Inside(parents[g]) <=> Leads(d, tags[g], p)
                 /\ Inside(parents[g]) \subseteq d.parents
                 /\ Alone(d) => Once(parents[g])
<1> DEFINE b == Back(links)
           found(t) == Of(b, t, 2)
           I(t) == {j \in DOMAIN found(t) : found(t)[j] \in d.parents}
<1>1. /\ List(b) /\ \A x : x \in Inside(b) <=> \E l \in d.links : x = <<l.tag, l.parent>>
      /\ Alone(d) => Once(b)
  BY BackIs
<1>2. parents = [g \in DOMAIN tags |-> Only(found(tags[g]), I(tags[g]))]
  BY DEF LoadManyToMany
<1> HIDE DEF b
<1>3. \A l \in d.links : l.parent \in d.parents /\ l.parent # Nothing
  BY ConsistentMeans, RelatedAre, RelationsAssumption
<1>4. ASSUME NEW t
      PROVE  /\ List(found(t)) /\ (Alone(d) => Once(found(t)))
             /\ \A p : p \in Inside(found(t)) <=> Leads(d, t, p)
  <2>1. /\ List(found(t))
        /\ \A p : p \in Inside(found(t)) <=> \E r \in Inside(b) : r[1] = t /\ p = r[2] /\ p # Nothing
    BY <1>1, OfHas
  <2>2. ASSUME Alone(d) PROVE Once(found(t))
    <3>1. \A q, r \in Inside(b) : q[1] = t /\ r[1] = t /\ q[2] = r[2] /\ q[2] # Nothing => q = r
      BY <1>1
    <3> QED BY <1>1, <2>2, <3>1, OfOnce
  <2>3. ASSUME NEW p PROVE p \in Inside(found(t)) <=> Leads(d, t, p)
    <3>1. ASSUME NEW r \in Inside(b), r[1] = t, p = r[2], p # Nothing PROVE Leads(d, t, p)
      <4>1. PICK l \in d.links : r = <<l.tag, l.parent>>
        BY <1>1
      <4> QED BY <3>1, <4>1 DEF Leads
    <3>2. ASSUME Leads(d, t, p) PROVE \E r \in Inside(b) : r[1] = t /\ p = r[2] /\ p # Nothing
      <4>1. PICK l \in d.links : l.tag = t /\ l.parent = p
        BY <3>2 DEF Leads
      <4>2. <<t, p>> \in Inside(b)
        BY <1>1, <4>1
      <4> QED BY <1>3, <4>1, <4>2
    <3> QED BY <2>1, <3>1, <3>2
  <2> QED BY <2>1, <2>2, <2>3
<1> HIDE DEF found
<1>5. ASSUME NEW t PROVE I(t) = DOMAIN found(t)
  <2>1. \A j \in DOMAIN found(t) : found(t)[j] \in d.parents
    <3> SUFFICES ASSUME NEW j \in DOMAIN found(t) PROVE found(t)[j] \in d.parents
      OBVIOUS
    <3>1. found(t)[j] \in Inside(found(t))
      BY InsideIs
    <3>2. Leads(d, t, found(t)[j])
      BY <1>4, <3>1
    <3> QED BY <1>3, <3>2 DEF Leads
  <2> QED BY <2>1
<1>6. \A g \in DOMAIN tags : parents[g] = Only(found(tags[g]), DOMAIN found(tags[g]))
  BY <1>2, <1>5
<1>7. List(parents) /\ DOMAIN parents = DOMAIN tags
  <2>1. parents = [g \in DOMAIN tags |-> parents[g]]
    BY <1>2
  <2> QED BY <2>1, MapIs
<1>8. ASSUME NEW s, List(s)
      PROVE  List(Only(s, DOMAIN s)) /\ Inside(Only(s, DOMAIN s)) = Inside(s)
             /\ (Once(s) => Once(Only(s, DOMAIN s)))
  <2>1. Len(s) \in Nat /\ DOMAIN s = 1 .. Len(s)
    BY <1>8 DEF List
  <2>2. IsFiniteSet(DOMAIN s) /\ DOMAIN s \in SUBSET Nat
    <3>1. \A n \in Nat : IsFiniteSet(1 .. n) /\ 1 .. n \in SUBSET Nat
      BY FS_Interval
    <3> QED BY <2>1, <3>1
  <2>3. List(Only(s, DOMAIN s)) /\ Inside(Only(s, DOMAIN s)) = {s[i] : i \in DOMAIN s}
    BY <2>2, OnlyIs
  <2>4. Once(s) => Once(Only(s, DOMAIN s))
    BY <2>2, OnlyIs DEF Once
  <2> QED BY <2>3, <2>4 DEF Inside
<1> HIDE DEF I
<1>9. ASSUME NEW g \in DOMAIN parents
      PROVE  /\ List(parents[g]) /\ (Alone(d) => Once(parents[g]))
             /\ \A p : p \in Inside(parents[g]) <=> Leads(d, tags[g], p)
  <2>1. parents[g] = Only(found(tags[g]), DOMAIN found(tags[g]))
    BY <1>6, <1>7
  <2>2. /\ List(found(tags[g])) /\ (Alone(d) => Once(found(tags[g])))
        /\ \A p : p \in Inside(found(tags[g])) <=> Leads(d, tags[g], p)
    BY <1>4
  <2>3. /\ List(Only(found(tags[g]), DOMAIN found(tags[g])))
        /\ Inside(Only(found(tags[g]), DOMAIN found(tags[g]))) = Inside(found(tags[g]))
        /\ (Once(found(tags[g])) => Once(Only(found(tags[g]), DOMAIN found(tags[g]))))
    BY <1>8, <2>2
  <2> QED BY <2>1, <2>2, <2>3
<1>10. \A t, p : Leads(d, t, p) => p \in d.parents
  BY <1>3 DEF Leads
<1>11. Grouped(parents)
  BY <1>7, <1>9 DEF Grouped
<1> QED BY <1>7, <1>9, <1>10, <1>11

\* A loader on what a loader gave: every item gets what it would get alone.
LEMMA NestedIs ==
    ASSUME NEW groups, Grouped(groups), NEW rows,
           NEW nested, nested = Assemble(groups, LoadMany(Flat(groups), rows))
    PROVE  \A g \in DOMAIN groups : \A j \in DOMAIN groups[g] : nested[g][j] = Of(rows, groups[g][j], 2)
<1> SUFFICES ASSUME NEW g \in DOMAIN groups, NEW j \in DOMAIN groups[g]
             PROVE  nested[g][j] = Of(rows, groups[g][j], 2)
  OBVIOUS
<1> DEFINE flat == Flat(groups)
           loaded == LoadMany(flat, rows)
           n == Start(groups, g) + j
<1>1. n \in DOMAIN flat /\ flat[n] = groups[g][j]
  BY FlatIs
<1>2. nested[g][j] = loaded[n]
  BY DEF Assemble
<1> HIDE DEF flat, n
<1>3. loaded[n] = Of(rows, flat[n], 2)
  BY <1>1 DEF LoadMany
<1> QED BY <1>1, <1>2, <1>3

\* Every tag has a row in the chain.
LEMMA ChainTags ==
    ASSUME NEW d \in Database, NEW rows \in Orders(TagChain(d))
    PROVE  \A t : t \in Inside(Column(rows, 1)) <=> t \in d.tags
<1>1. List(rows) /\ Inside(rows) = TagChain(d)
  BY TagChainRows, OrdersAre
<1> SUFFICES ASSUME NEW t PROVE t \in Inside(Column(rows, 1)) <=> t \in d.tags
  OBVIOUS
<1>2. t \in Inside(Column(rows, 1)) <=> \E r \in Inside(rows) : t = r[1]
  BY <1>1, ColumnHas
<1>3. ASSUME NEW r \in Inside(rows), t = r[1] PROVE t \in d.tags
  <2>1. PICK u, p, k, n : ChainRow(d, r, u, p, k, n)
    BY <1>1, TagChainRows
  <2> QED BY <1>3, <2>1 DEF ChainRow
<1>4. ASSUME t \in d.tags PROVE \E r \in Inside(rows) : t = r[1]
  <2>1. \E p, k, n : ChainRow(d, <<t, p, k, n>>, t, p, k, n)
    <3>1. CASE {l \in d.links : l.tag = t} = {}
      <4>1. ChainRow(d, <<t, Nothing, Nothing, 1>>, t, Nothing, Nothing, 1)
        BY <1>4, <3>1 DEF ChainRow
      <4> QED BY <4>1
    <3>2. CASE {l \in d.links : l.tag = t} # {}
      <4>1. PICK l \in d.links : l.tag = t
        BY <3>2
      <4>2. PICK k \in Outer(OfParent(d, l.parent)) : TRUE
        BY RelatedAre
      <4>3. ChainRow(d, <<t, l.parent, k, l.n>>, t, l.parent, k, l.n)
        BY <1>4, <3>2, <4>1, <4>2 DEF ChainRow
      <4> QED BY <4>3
    <3> QED BY <3>1, <3>2
  <2>2. PICK p, k, n : ChainRow(d, <<t, p, k, n>>, t, p, k, n)
    BY <2>1
  <2>3. <<t, p, k, n>> \in Inside(rows)
    BY <1>1, <2>2, TagChainRows
  <2> QED BY <2>3
<1> QED BY <1>2, <1>3, <1>4

\* The rows of a tag in the chain: its parents, with their kids.
LEMMA CutIs ==
    ASSUME NEW d \in Database, Consistent(d), NEW rows \in Orders(TagChain(d)), NEW t
    PROVE  /\ List(Cut(rows, t)) /\ Below(rows, t) = Consolidate(Cut(rows, t))
           /\ \A x : x \in Inside(Cut(rows, t))
                       <=> \E p : Leads(d, t, p) /\ \E k \in Outer(OfParent(d, p)) : x = <<p, k>>
           /\ Alone(d) => Once(Cut(rows, t))
<1>1. /\ List(rows) /\ Once(rows) /\ Inside(rows) = TagChain(d)
      /\ \A r : r \in TagChain(d) <=> \E u, p, k, n : ChainRow(d, r, u, p, k, n)
  BY TagChainRows, OrdersAre
<1>2. /\ List(Cut(rows, t)) /\ Below(rows, t) = Consolidate(Cut(rows, t))
      /\ \A x : x \in Inside(Cut(rows, t))
                  <=> \E r \in Inside(rows) : r[1] = t /\ r[2] # Nothing /\ x = <<r[2], r[3]>>
  BY <1>1, CutHas
<1>3. \A l \in d.links : l.tag \in d.tags /\ l.parent # Nothing
  BY ConsistentMeans, RelatedAre, RelationsAssumption
<1>4. ASSUME NEW r \in Inside(rows), r[1] = t, r[2] # Nothing
      PROVE  \E l \in d.links : /\ l.tag = t /\ l.parent = r[2] /\ r[4] = l.n
                                /\ r[3] \in Outer(OfParent(d, r[2]))
                                /\ r = <<t, r[2], r[3], l.n>>
  <2>1. PICK u, p, k, n : ChainRow(d, r, u, p, k, n)
    BY <1>1
  <2>2. u = t /\ r = <<t, p, k, n>> /\ p # Nothing
    BY <1>4, <2>1 DEF ChainRow
  <2>3. PICK l \in d.links : l.tag = t /\ p = l.parent /\ n = l.n /\ k \in Outer(OfParent(d, p))
    BY <2>1, <2>2 DEF ChainRow
  <2> QED BY <2>2, <2>3
<1>5. ASSUME NEW x
      PROVE  x \in Inside(Cut(rows, t))
               <=> \E p : Leads(d, t, p) /\ \E k \in Outer(OfParent(d, p)) : x = <<p, k>>
  <2>1. ASSUME NEW r \in Inside(rows), r[1] = t, r[2] # Nothing, x = <<r[2], r[3]>>
        PROVE  \E p : Leads(d, t, p) /\ \E k \in Outer(OfParent(d, p)) : x = <<p, k>>
    <3>1. Leads(d, t, r[2]) /\ r[3] \in Outer(OfParent(d, r[2]))
      BY <1>4, <2>1 DEF Leads
    <3> QED BY <2>1, <3>1
  <2>2. ASSUME NEW p, Leads(d, t, p), NEW k \in Outer(OfParent(d, p)), x = <<p, k>>
        PROVE  \E r \in Inside(rows) : r[1] = t /\ r[2] # Nothing /\ x = <<r[2], r[3]>>
    <3>1. PICK l \in d.links : l.tag = t /\ l.parent = p
      BY <2>2 DEF Leads
    <3>2. ChainRow(d, <<t, p, k, l.n>>, t, p, k, l.n)
      BY <1>3, <2>2, <3>1 DEF ChainRow
    <3>3. <<t, p, k, l.n>> \in Inside(rows)
      BY <1>1, <3>2
    <3>4. p # Nothing
      BY <1>3, <3>1
    <3> QED BY <2>2, <3>3, <3>4
  <2> QED BY <1>2, <2>1, <2>2
<1>6. ASSUME Alone(d) PROVE Once(Cut(rows, t))
  <2>1. ASSUME NEW q \in Inside(rows), NEW r \in Inside(rows),
               q[1] = t, r[1] = t, q[2] = r[2], q[3] = r[3], q[2] # Nothing
        PROVE  q = r
    <3>1. PICK l \in d.links : q = <<t, q[2], q[3], l.n>>
      BY <1>4, <2>1
    <3>2. PICK m \in d.links : r = <<t, r[2], r[3], m.n>>
      BY <1>4, <2>1
    <3>3. l.n = 1 /\ m.n = 1
      BY <1>6 DEF Alone
    <3> QED BY <2>1, <3>1, <3>2, <3>3
  <2> QED BY <1>1, <2>1, CutHas
<1> QED BY <1>2, <1>5, <1>6

\* What the chain has below a tag: the parents its links lead to, with their kids.
LEMMA BelowIs ==
    ASSUME NEW d \in Database, Consistent(d), NEW rows \in Orders(TagChain(d)), NEW t,
           NEW got, got = Below(rows, t)
    PROVE  /\ List(Column(got, 1)) /\ Once(Column(got, 1)) /\ Len(Column(got, 1)) = Len(got)
           /\ \A p : p \in Inside(Column(got, 1)) <=> Leads(d, t, p)
           /\ \A i \in DOMAIN got :
                 /\ Leads(d, t, got[i][1]) /\ List(got[i][2])
                 /\ \A k : k \in Inside(got[i][2]) <=> k \in OfParent(d, got[i][1])
                 /\ Alone(d) => Once(got[i][2])
<1> DEFINE c == Cut(rows, t)
<1>1. /\ List(c) /\ got = Consolidate(c)
      /\ \A x : x \in Inside(c)
                  <=> \E p : Leads(d, t, p) /\ \E k \in Outer(OfParent(d, p)) : x = <<p, k>>
      /\ Alone(d) => Once(c)
  BY CutIs
<1> HIDE DEF c
<1>2. /\ List(Column(got, 1)) /\ Once(Column(got, 1)) /\ Len(Column(got, 1)) = Len(got)
      /\ Inside(Column(got, 1)) = Inside(Column(c, 1))
      /\ \A i \in DOMAIN got : got[i][1] \in Inside(Column(c, 1)) /\ got[i][2] = Of(c, got[i][1], 2)
  BY <1>1, ConsolidateHas
<1>3. ASSUME NEW p PROVE p \in Inside(Column(c, 1)) <=> Leads(d, t, p)
  <2>1. p \in Inside(Column(c, 1)) <=> \E r \in Inside(c) : p = r[1]
    BY <1>1, ColumnHas
  <2>2. ASSUME NEW r \in Inside(c), p = r[1] PROVE Leads(d, t, p)
    BY <1>1, <2>2
  <2>3. ASSUME Leads(d, t, p) PROVE \E r \in Inside(c) : p = r[1]
    <3>1. PICK k \in Outer(OfParent(d, p)) : TRUE
      BY RelatedAre
    <3>2. <<p, k>> \in Inside(c)
      BY <1>1, <2>3, <3>1
    <3> QED BY <3>2
  <2> QED BY <2>1, <2>2, <2>3
<1>4. ASSUME NEW p, Leads(d, t, p)
      PROVE  /\ List(Of(c, p, 2)) /\ (Alone(d) => Once(Of(c, p, 2)))
             /\ \A k : k \in Inside(Of(c, p, 2)) <=> k \in OfParent(d, p)
  <2>1. /\ List(Of(c, p, 2))
        /\ \A k : k \in Inside(Of(c, p, 2)) <=> \E r \in Inside(c) : r[1] = p /\ k = r[2] /\ k # Nothing
    BY <1>1, OfHas
  <2>2. ASSUME Alone(d) PROVE Once(Of(c, p, 2))
    <3>1. \A q, r \in Inside(c) : q[1] = p /\ r[1] = p /\ q[2] = r[2] /\ q[2] # Nothing => q = r
      BY <1>1
    <3> QED BY <1>1, <2>2, <3>1, OfOnce
  <2>3. ASSUME NEW k PROVE k \in Inside(Of(c, p, 2)) <=> k \in OfParent(d, p)
    <3>1. ASSUME NEW r \in Inside(c), r[1] = p, k = r[2], k # Nothing PROVE k \in OfParent(d, p)
      <4>1. k \in Outer(OfParent(d, p))
        BY <1>1, <3>1
      <4> QED BY <3>1, <4>1, RelatedAre
    <3>2. ASSUME k \in OfParent(d, p) PROVE \E r \in Inside(c) : r[1] = p /\ k = r[2] /\ k # Nothing
      <4>1. k # Nothing /\ k \in Outer(OfParent(d, p))
        BY <3>2, RelatedAre
      <4>2. <<p, k>> \in Inside(c)
        BY <1>1, <1>4, <4>1
      <4> QED BY <4>1, <4>2
    <3> QED BY <2>1, <3>1, <3>2
  <2> QED BY <2>1, <2>2, <2>3
<1>5. ASSUME NEW i \in DOMAIN got
      PROVE  /\ Leads(d, t, got[i][1]) /\ List(got[i][2])
             /\ \A k : k \in Inside(got[i][2]) <=> k \in OfParent(d, got[i][1])
             /\ Alone(d) => Once(got[i][2])
  <2>1. Leads(d, t, got[i][1]) /\ got[i][2] = Of(c, got[i][1], 2)
    BY <1>2, <1>3
  <2> QED BY <1>4, <2>1
<1> QED BY <1>2, <1>3, <1>5

\* Two rows of the same things, each once, are as long.
LEMMA SameLength ==
    ASSUME NEW q, List(q), Once(q), NEW s, List(s), Once(s), \A x : x \in Inside(q) <=> x \in Inside(s)
    PROVE  Len(q) = Len(s)
<1>1. Inside(q) = Inside(s)
  BY Zenon
<1>2. Cardinality(Inside(q)) = Len(q) /\ Cardinality(Inside(s)) = Len(s)
  BY OnceHolds
<1> QED BY <1>1, <1>2

\* What the chain of joins and the loaders give of the same database.
ChainRead(d, rows, links, kids) ==
    LET got == Chain(rows)
        tags == Column(got, 1)
        back == [i \in DOMAIN links |-> <<links[i][2], links[i][1]>>]
        parents == LoadManyToMany(tags, back, d.parents)
        nested == Assemble(parents, LoadMany(Flat(parents), kids))
    IN  /\ Holds(tags, d.tags)
        /\ \A g \in DOMAIN got :
              /\ Inside(Column(got[g][2], 1)) = Inside(parents[g])
              /\ Alone(d) => Len(got[g][2]) = Len(parents[g])
              /\ \A i \in DOMAIN got[g][2], j \in DOMAIN parents[g] :
                    got[g][2][i][1] = parents[g][j] =>
                       /\ Inside(got[g][2][i][2]) = Inside(nested[g][j])
                       /\ Alone(d) => Len(got[g][2][i][2]) = Len(nested[g][j])

\* The chain and the loaders give the same.
LEMMA ChainAgrees ==
    ASSUME NEW d \in Database, Consistent(d), NEW rows \in Orders(TagChain(d)),
           NEW links \in Orders(LinkRows(d)), NEW kids \in Orders(ParentKids(d))
    PROVE  ChainRead(d, rows, links, kids)
<1> DEFINE got == Chain(rows)
           tags == Column(got, 1)
           back == [i \in DOMAIN links |-> <<links[i][2], links[i][1]>>]
           parents == LoadManyToMany(tags, back, d.parents)
           nested == Assemble(parents, LoadMany(Flat(parents), kids))
<1>0. /\ got = Chain(rows) /\ tags = Column(got, 1)
      /\ parents = LoadManyToMany(tags, Back(links), d.parents)
      /\ nested = Assemble(parents, LoadMany(Flat(parents), kids))
  BY DEF Back
<1> HIDE DEF got, tags, parents, nested
<1>1. List(rows)
  BY TagChainRows, OrdersAre
<1>2. /\ List(tags) /\ Once(tags) /\ DOMAIN tags = DOMAIN got
      /\ Inside(tags) = Inside(Column(rows, 1))
      /\ \A g \in DOMAIN got : tags[g] = got[g][1] /\ got[g][2] = Below(rows, tags[g])
  BY <1>0, <1>1, ChainHas
<1>3. Holds(tags, d.tags)
  BY <1>2, ChainTags, HoldsIs
<1>4. /\ Grouped(parents) /\ DOMAIN parents = DOMAIN tags
      /\ \A g \in DOMAIN parents :
            /\ \A p : p \in Inside(parents[g]) <=> Leads(d, tags[g], p)
            /\ Inside(parents[g]) \subseteq d.parents
            /\ Alone(d) => Once(parents[g])
  BY <1>0, <1>2, LeadsAre
<1>5. \A g \in DOMAIN parents : \A j \in DOMAIN parents[g] : nested[g][j] = Of(kids, parents[g][j], 2)
  BY <1>0, <1>4, NestedIs
<1>6. ASSUME NEW g \in DOMAIN got
      PROVE  /\ Inside(Column(got[g][2], 1)) = Inside(parents[g])
             /\ Alone(d) => Len(got[g][2]) = Len(parents[g])
             /\ \A i \in DOMAIN got[g][2], j \in DOMAIN parents[g] :
                   got[g][2][i][1] = parents[g][j] =>
                      /\ Inside(got[g][2][i][2]) = Inside(nested[g][j])
                      /\ Alone(d) => Len(got[g][2][i][2]) = Len(nested[g][j])
  <2> DEFINE b == got[g][2]
             ps == parents[g]
  <2>0. g \in DOMAIN parents /\ List(ps)
    BY <1>2, <1>4 DEF Grouped
  <2>1. /\ \A p : p \in Inside(ps) <=> Leads(d, tags[g], p)
        /\ Inside(ps) \subseteq d.parents
        /\ Alone(d) => Once(ps)
    BY <1>4, <2>0
  <2>2. b = Below(rows, tags[g])
    BY <1>2
  <2>3. \A j \in DOMAIN ps : nested[g][j] = Of(kids, ps[j], 2)
    BY <1>5, <2>0
  <2> HIDE DEF b, ps
  <2>4. /\ List(Column(b, 1)) /\ Once(Column(b, 1)) /\ Len(Column(b, 1)) = Len(b)
        /\ \A p : p \in Inside(Column(b, 1)) <=> Leads(d, tags[g], p)
        /\ \A i \in DOMAIN b :
              /\ Leads(d, tags[g], b[i][1]) /\ List(b[i][2])
              /\ \A k : k \in Inside(b[i][2]) <=> k \in OfParent(d, b[i][1])
              /\ Alone(d) => Once(b[i][2])
    BY <2>2, BelowIs
  <2>5. Inside(Column(b, 1)) = Inside(ps)
    <3>1. \A p : p \in Inside(Column(b, 1)) <=> p \in Inside(ps)
      BY <2>1, <2>4
    <3> QED BY <3>1, Zenon
  <2>6. Alone(d) => Len(b) = Len(ps)
    BY <2>0, <2>1, <2>4, <2>5, SameLength
  <2>7. ASSUME NEW i \in DOMAIN b, NEW j \in DOMAIN ps, b[i][1] = ps[j]
        PROVE  /\ Inside(b[i][2]) = Inside(nested[g][j])
               /\ Alone(d) => Len(b[i][2]) = Len(nested[g][j])
    <3> DEFINE k == nested[g][j]
               c == b[i][2]
    <3>1. ps[j] \in d.parents
      <4>1. ps[j] \in Inside(ps)
        BY InsideIs
      <4> QED BY <2>1, <4>1
    <3>2. List(k) /\ Once(k) /\ Inside(k) = OfParent(d, ps[j])
      BY <2>3, <3>1, KidsRead
    <3>3. List(c) /\ (Alone(d) => Once(c)) /\ \A x : x \in Inside(c) <=> x \in OfParent(d, ps[j])
      BY <2>4, <2>7
    <3> HIDE DEF k, c
    <3>4. \A x : x \in Inside(c) <=> x \in Inside(k)
      BY <3>2, <3>3
    <3>5. Inside(c) = Inside(k)
      BY <3>4, Zenon
    <3>6. Alone(d) => Len(c) = Len(k)
      BY <3>2, <3>3, <3>4, SameLength
    <3> QED BY <3>5, <3>6 DEF c, k
  <2> QED BY <2>5, <2>6, <2>7 DEF b, ps
<1> QED BY <1>3, <1>6, Zenon DEF ChainRead, got, tags, parents, nested

\* Of every database the type allows, whatever the server's order of rows.
LEMMA TypedReadsAgree == TypeOK => ReadsAgree
<1> SUFFICES ASSUME TypeOK, at = "idle" PROVE ReadsAgree
  BY DEF ReadsAgree
<1>1. db \in Database /\ Consistent(db)
  BY DEF TypeOK
<1>2. ASSUME NEW rows \in Orders(ParentKids(db))
      PROVE  LET got == Consolidate(rows) IN
             /\ Holds(Column(got, 1), db.parents)
             /\ \A g \in DOMAIN got : Holds(got[g][2], OfParent(db, got[g][1]))
             /\ \A ps \in InARow(db.parents) : \A i \in DOMAIN ps :
                   /\ Holds(LoadMany(ps, rows)[i], OfParent(db, ps[i]))
                   /\ schema.one => Outer(OfParent(db, ps[i])) = {LoadOne(ps, rows)[i]}
  BY <1>1, JoinAgrees, LoadersAgree
<1>3. ASSUME NEW rows \in Orders(ParentStar(db))
      PROVE  LET got == Star(rows, 4) IN
             /\ Holds(Column(got, 1), db.parents)
             /\ \A g \in DOMAIN got :
                   /\ Holds(got[g][2][2], OfParent(db, got[g][1]))
                   /\ Holds(got[g][2][3], TagsOf(db, got[g][1]))
                   /\ Holds(got[g][2][4], OfParent(db, got[g][1]))
  BY <1>1, StarAgrees
<1>4. ASSUME NEW rows \in Orders(TagChain(db)), NEW links \in Orders(LinkRows(db)),
             NEW kids \in Orders(ParentKids(db))
      PROVE  ChainRead(db, rows, links, kids)
  BY <1>1, ChainAgrees
<1> QED BY <1>2, <1>3, <1>4, Zenon DEF ReadsAgree, ChainRead, Alone

\* However the server orders the rows, and whatever calls of NestedSave came
\* before: find_with_related, a star of joins, a chain of joins, load_one,
\* load_many, load_many_to_many and a loader on what a loader gave
\* (consolidate.rs, loader.rs) give each model once, where it belongs, with all
\* that is related to it and nothing else, for any number of models and of rows
\* up to MaxRows, which is any number.
THEOREM ReadsAlwaysAgree == Spec => []ReadsAgree
BY TypeCorrect, TypedReadsAgree, PTL
=============================================================================
