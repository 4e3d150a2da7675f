--------------------------- MODULE MCKeptAggregates ---------------------------
(***************************************************************************)
(* A small instance of KeptAggregates for TLC.                              *)
(***************************************************************************)
EXTENDS KeptAggregates, TLC

MCData == SUBSET Changes
MCSymmetry == Permutations(Clients)

=============================================================================
