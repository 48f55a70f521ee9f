----------------------------- MODULE MCExecutor ----------------------------
(***************************************************************************)
(* The instance of Executor for TLC: every way a table is written.         *)
(***************************************************************************)
EXTENDS Executor, TLC

AllWays == [db : {"returning", "mysql", "sqlite"}, natural : BOOLEAN]

Interchangeable == Permutations(Clients)
=============================================================================
