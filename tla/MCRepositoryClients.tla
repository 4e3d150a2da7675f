------------------------- MODULE MCRepositoryClients -------------------------
(***************************************************************************)
(* Small instances of RepositoryClients for TLC.                            *)
(***************************************************************************)
EXTENDS RepositoryClients, TLC

MCData == SUBSET (1 .. MaxChanges)

\* Clients, ids and index entries are interchangeable.
MCSymmetry ==
    Permutations(Scopes) \cup Permutations(Ids) \cup Permutations(Keys)

=============================================================================
