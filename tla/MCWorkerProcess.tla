--------------------------- MODULE MCWorkerProcess ---------------------------
(***************************************************************************)
(* A small instance of WorkerProcess for TLC, with the handlers and the     *)
(* periodic task that the repository registers.                             *)
(***************************************************************************)
EXTENDS WorkerProcess

on_example_event == "on_example_event"
MCTopics == {UserCreated, "example.topic"}
MCHandlers == {on_user_created, on_example_event}
MCRegistered ==
    [t \in MCTopics |->
        {IF t = UserCreated THEN on_user_created ELSE on_example_event}]

=============================================================================
