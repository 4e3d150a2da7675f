---------------------------- MODULE MCMigrations ----------------------------
(***************************************************************************)
(* A small instance of Migrations for TLC.                                  *)
(***************************************************************************)
EXTENDS Migrations, TLC

MCSymmetry == Permutations(Handlers) \cup Permutations(Periods)

=============================================================================
