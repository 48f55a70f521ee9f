----------------------------- MODULE RbacEngine -----------------------------
(***************************************************************************)
(* RbacEngine (src/src/rbac/engine/): the maps built from a snapshot of    *)
(* the seven tables, and the decisions taken on them.                      *)
(*                                                                         *)
(* A snapshot is a record of seven sets of rows:                           *)
(*   resources [id, schema, name]      permissions, roles [id, name]       *)
(*   user_roles [user, role]           role_permissions [role, perm, res]  *)
(*   user_overrides [user, perm, res, grant]                               *)
(*   role_hierarchy [super, role]                                          *)
(* "none" is the schema that is not there, "*" the wildcard.  A request is *)
(* [action, schema, table].                                                *)
(*                                                                         *)
(* enumerate_role is a loop and so a step of module Rbac; WalkFrom and     *)
(* WalkStep are its beginning and its body.                                *)
(***************************************************************************)
EXTENDS Naturals, Sequences, FiniteSets

WILDCARD == "*"
Nothing == [id |-> 0]   \* a lookup that finds no row; ids begin at 1

(***************************************************************************)
(* from_snapshot keeps wildcards apart from the rows a request may name.   *)
(* Rows come in the order of their ids; the last of two for one request    *)
(* replaces the first.                                                     *)
(***************************************************************************)
IsWildResource(r) == r.schema = WILDCARD \/ r.name = WILDCARD

Latest(rows) ==
    IF rows = {} THEN Nothing ELSE CHOOSE r \in rows : \A s \in rows : s.id <= r.id

ResourceOf(snap, req) ==
    Latest({r \in snap.resources : /\ ~IsWildResource(r)
                                   /\ r.schema = req.schema /\ r.name = req.table})
PermissionOf(snap, req) ==
    Latest({p \in snap.permissions : p.name # WILDCARD /\ p.name = req.action})

HasRole(snap, u) == \E ur \in snap.user_roles : ur.user = u
RoleOf(snap, u)  == (CHOOSE ur \in snap.user_roles : ur.user = u).role

Children(snap, role) == {h.role : h \in {e \in snap.role_hierarchy : e.super = role}}

(***************************************************************************)
(* enumerate_role: a queue that begins with the root; each role taken from *)
(* it is listed and its children are queued, except the root, the only     *)
(* role ever put in "seen".  Of the list only its set is kept: its length, *)
(* the rank, counts a role twice that is reached twice.                    *)
(***************************************************************************)
InIdOrder(ids) ==
    [i \in 1 .. Cardinality(ids) |->
        CHOOSE x \in ids : Cardinality({y \in ids : y <= x}) = i]

WalkFrom(root) == [root |-> root, queue |-> <<root>>, roles |-> {}]

\* Slip: the root is queued again.
WalkStepRepeatsRoot(snap, w) ==
    LET role == Head(w.queue) IN
    [w EXCEPT !.queue = Tail(w.queue) \o InIdOrder(Children(snap, role)),
              !.roles = @ \cup {role}]

WalkStep(snap, w) ==
    LET role == Head(w.queue) IN
    [w EXCEPT !.queue = Tail(w.queue) \o InIdOrder(Children(snap, role) \ {w.root}),
              !.roles = @ \cup {role}]

(***************************************************************************)
(* is_wildcard_resource, is_wildcard_permission.                           *)
(***************************************************************************)
SchemaMatches(r, target) == r.schema \in {"none", WILDCARD, target.schema}
TableMatches(r, target)  == r.name \in {WILDCARD, target.name}

WildResourceFits(snap, id, target) ==
    \E r \in snap.resources :
       /\ r.id = id /\ IsWildResource(r)
       /\ IF target = Nothing
          THEN r.schema \in {"none", WILDCARD} /\ r.name = WILDCARD
          ELSE SchemaMatches(r, target) /\ TableMatches(r, target)

WildPermission(snap, id) == \E p \in snap.permissions : p.id = id /\ p.name = WILDCARD

(***************************************************************************)
(* user_can once the roles of the user have been enumerated: an override   *)
(* of exactly this permission and resource, then the permissions of any of *)
(* the roles, then what the request names and nobody registered.           *)
(***************************************************************************)
OverridesOf(snap, u, perm, res) ==
    {o \in snap.user_overrides : /\ perm # Nothing /\ res # Nothing
                                 /\ o.user = u /\ o.perm = perm.id /\ o.res = res.id}

RoleAllows(snap, role, perm, res) ==
    \E rp \in snap.role_permissions :
       /\ rp.role = role
       /\ LET wildPerm == WildPermission(snap, rp.perm)
              wildRes  == WildResourceFits(snap, rp.res, res) IN
          \/ perm # Nothing /\ res # Nothing /\ rp.perm = perm.id /\ rp.res = res.id
          \/ res # Nothing /\ rp.res = res.id /\ wildPerm
          \/ perm # Nothing /\ rp.perm = perm.id /\ wildRes
          \/ wildPerm /\ wildRes

UserCan(snap, u, req, roles) ==
    LET perm == PermissionOf(snap, req)
        res  == ResourceOf(snap, req)
        over == OverridesOf(snap, u, perm, res) IN
    IF ~(roles \subseteq {r.id : r \in snap.roles}) THEN "role not found"
    ELSE IF over # {} THEN IF \E o \in over : o.grant THEN "yes" ELSE "no"
    ELSE IF \E role \in roles : RoleAllows(snap, role, perm, res) THEN "yes"
    ELSE IF res = Nothing THEN "resource not found"
    ELSE IF perm = Nothing THEN "permission not found"
    ELSE "no"

(***************************************************************************)
(* get_user_role_permissions, before the rows are grouped: the permissions *)
(* of all the roles, with each override of the user put in or taken out.   *)
(* A user has at most one override for a permission and a resource.        *)
(***************************************************************************)
\* Slip: an override that revokes is not taken out.
ListedKeepsRevoked(snap, u, roles) ==
    {<<rp.perm, rp.res>> : rp \in {x \in snap.role_permissions : x.role \in roles}}
        \cup {<<o.perm, o.res>> : o \in {x \in snap.user_overrides : x.user = u /\ x.grant}}

Listed(snap, u, roles) ==
    LET own(grant) == {<<o.perm, o.res>> :
                         o \in {x \in snap.user_overrides : x.user = u /\ x.grant = grant}} IN
    ({<<rp.perm, rp.res>> : rp \in {x \in snap.role_permissions : x.role \in roles}}
        \ own(FALSE)) \cup own(TRUE)

(***************************************************************************)
(* What the decisions mean, stated on the rows alone.                      *)
(***************************************************************************)
RolesIn(snap) == {e.super : e \in snap.role_hierarchy} \cup {e.role : e \in snap.role_hierarchy}

Inherits(snap, S) == \A e \in snap.role_hierarchy : e.super \in S => e.role \in S

\* Roles below a role, itself included: the least set that holds it and inherits.
Below(snap, role) ==
    LET all == RolesIn(snap) \cup {role} IN
    {r \in all : \A S \in SUBSET all : role \in S /\ Inherits(snap, S) => r \in S}

\* A grant covers a request when its permission and its resource both do:
\* by id, or as a wildcard.
Covers(snap, rp, req) ==
    LET perm == PermissionOf(snap, req)
        res  == ResourceOf(snap, req) IN
    /\ \/ perm # Nothing /\ rp.perm = perm.id
       \/ WildPermission(snap, rp.perm)
    /\ \/ res # Nothing /\ rp.res = res.id
       \/ WildResourceFits(snap, rp.res, res)

Permits(snap, u, req) ==
    LET over == OverridesOf(snap, u, PermissionOf(snap, req), ResourceOf(snap, req)) IN
    IF over # {} THEN \A o \in over : o.grant
    ELSE \E rp \in snap.role_permissions :
            rp.role \in Below(snap, RoleOf(snap, u)) /\ Covers(snap, rp, req)

\* The rows a snapshot refers to are in it.
Closed(snap) ==
    LET role == {r.id : r \in snap.roles}
        perm == {p.id : p \in snap.permissions}
        res  == {r.id : r \in snap.resources} IN
    /\ \A x \in snap.user_roles : x.role \in role
    /\ \A x \in snap.role_permissions : x.role \in role /\ x.perm \in perm /\ x.res \in res
    /\ \A x \in snap.user_overrides : x.perm \in perm /\ x.res \in res
    /\ \A x \in snap.role_hierarchy : x.super \in role /\ x.role \in role
=============================================================================
