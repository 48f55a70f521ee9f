---------------------------- MODULE MCTransaction ---------------------------
(***************************************************************************)
(* Instances of Transaction for TLC.                                       *)
(***************************************************************************)
EXTENDS Transaction, TLC

Interchangeable == Permutations(Handles) \cup Permutations(Writes)

NoFaults    == {}
EndFaults   == {"BEGIN", "COMMIT", "RELEASE"}
OpenFaults  == {"BEGIN", "SAVEPOINT", "COMMIT", "RELEASE"}
=============================================================================
