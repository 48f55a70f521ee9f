-------------------------- MODULE MCMockConnection --------------------------
(***************************************************************************)
(* Instances of MockConnection for TLC.                                    *)
(***************************************************************************)
EXTENDS MockConnection, TLC

\* Fewer results than there may be calls of a kind.
FewQueued == [k \in Kinds |-> IF k = "execute" THEN 2 ELSE 1]

MockAlike == Permutations(Callers) \cup Permutations(Handles)
=============================================================================
