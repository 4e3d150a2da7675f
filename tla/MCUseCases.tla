----------------------------- MODULE MCUseCases -----------------------------
(***************************************************************************)
(* Small instances of UseCases for TLC.                                     *)
(***************************************************************************)
EXTENDS UseCases, TLC

MembershipUseCases == {"join", "request_join", "approve", "leave", "change_role"}
DirectoryUseCases ==
    {"create_team", "update_team", "get_team", "create_user", "get_user", "join"}

MCSymmetry == Permutations(Requests) \cup Permutations(Periods)

=============================================================================
