------------------------------- MODULE MCRbac -------------------------------
(***************************************************************************)
(* An instance of Rbac for TLC: a reader role and what an editor adds.     *)
(***************************************************************************)
EXTENDS Rbac

Tables0 ==
    [Empty EXCEPT
        !.resources = {[id |-> 1, schema |-> "shop", name |-> "cake"],
                       [id |-> 2, schema |-> "none", name |-> "*"],
                       [id |-> 3, schema |-> "shop", name |-> "*"],
                       [id |-> 4, schema |-> "none", name |-> "cake"]},
        !.permissions = {[id |-> 1, name |-> "select"], [id |-> 2, name |-> "*"]},
        !.roles = {[id |-> 1, name |-> "reader"], [id |-> 2, name |-> "chief"],
                   [id |-> 3, name |-> "baker"]},
        !.user_roles = {[user |-> "u1", role |-> 2]},
        !.role_permissions = {[role |-> 1, perm |-> 1, res |-> 3], [role |-> 3, perm |-> 2, res |-> 4],
                               [role |-> 3, perm |-> 1, res |-> 4]},
        !.role_hierarchy = {[super |-> 2, role |-> 1], [super |-> 1, role |-> 3]}]

\* A name that is taken, a stale id, a cycle through the user's role, and rows
\* that refer to what was added just before.
Operations ==
    {[op |-> "load"],
     [op |-> "add", table |-> "roles", names |-> <<"editor">>],
     [op |-> "add", table |-> "roles", names |-> <<"guest", "editor">>],
     [op |-> "grant", role |-> "editor", actions |-> {"select"}, tables |-> {"cake", "*"}],
     [op |-> "revoke", role |-> "baker", actions |-> {"*"}, tables |-> {"cake"}],
     [op |-> "override", user |-> "u1", action |-> "select", table |-> "cake", grant |-> FALSE],
     [op |-> "hierarchy", super |-> "reader", role |-> "chief"],
     [op |-> "assign", user |-> "u1", role |-> "editor"]}

Request(x, s, t) == [action |-> x, schema |-> s, table |-> t]
Statements == {<<>>,
               <<Request("select", "none", "cake"), Request("delete", "none", "cake")>>,
               <<Request("select", "shop", "cake")>>}
=============================================================================
