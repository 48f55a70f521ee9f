----------------------------- MODULE MCMigrator -----------------------------
(***************************************************************************)
(* Instances of Migrator for TLC.                                          *)
(***************************************************************************)
EXTENDS Migrator, TLC

CONSTANTS m1, m2

OneBuild == {<<m1, m2>>}
\* A rolling deployment: the new build has one migration more.
TwoBuilds == {<<m1>>, <<m1, m2>>}
AnySteps == {NoLimit, 1}

Alike == Permutations(Runners)
=============================================================================
