----------------------------- MODULE NestedTxn ------------------------------
(***************************************************************************)
(* What a connection promises to whoever nests transactions on it, without *)
(* savepoint names or driver counters: a stack of saved views.  Begin      *)
(* saves the view, Rollback restores and forgets the youngest saved view,  *)
(* Commit forgets it, and only the commit of the last one publishes.       *)
(***************************************************************************)
EXTENDS Naturals, Sequences

CONSTANT Writes

VARIABLES view,     \* the writes visible on the connection
          durable,  \* the published writes
          saves     \* the view each open level began with, outermost first

vars == <<view, durable, saves>>

Init ==
    /\ view = {}
    /\ durable = {}
    /\ saves = <<>>

Begin ==
    /\ saves' = Append(saves, view)
    /\ UNCHANGED <<view, durable>>

Write(w) ==
    /\ view' = view \cup {w}
    /\ durable' = IF saves = <<>> THEN view' ELSE durable
    /\ UNCHANGED saves

Forget == saves' = SubSeq(saves, 1, Len(saves) - 1)

Commit ==
    /\ saves # <<>>
    /\ Forget
    /\ durable' = IF Len(saves) = 1 THEN view ELSE durable
    /\ UNCHANGED view

Rollback ==
    /\ saves # <<>>
    /\ Forget
    /\ view' = saves[Len(saves)]
    /\ UNCHANGED durable

Next ==
    \/ Begin
    \/ \E w \in Writes : Write(w)
    \/ Commit
    \/ Rollback

Spec == Init /\ [][Next]_vars
=============================================================================
