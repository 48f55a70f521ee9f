--------------------------- MODULE MCRusqliteShared -------------------------
(***************************************************************************)
(* Instances of RusqliteShared for TLC.                                    *)
(***************************************************************************)
EXTENDS RusqliteShared, TLC

Interchangeable == Permutations(Threads) \cup Permutations(Writes)
=============================================================================
