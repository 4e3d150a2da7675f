---------------------------- MODULE MCUserSignup ----------------------------
(***************************************************************************)
(* A small instance of UserSignup for TLC: the processes of the repository's*)
(* entry points, and one that is bot and worker together, the single        *)
(* process that the bus is documented for.                                  *)
(***************************************************************************)
EXTENDS UserSignup

CONSTANTS api, worker, single

MCProcesses == {api, worker, single}
MCCreators == {api, single}
MCBots == {single}
MCWorkers == {worker, single}

=============================================================================
