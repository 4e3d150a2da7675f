------------------------- MODULE MCPostgresEventBus -------------------------
(***************************************************************************)
(* Small instances of PostgresEventBus for TLC.                             *)
(***************************************************************************)
EXTENDS PostgresEventBus, TLC

CONSTANTS t1, t2

\* One handler's topic is never published.
MCTopic == [x \in Events \cup Handlers |->
    IF x \in Handlers /\ x # CHOOSE h \in Handlers : TRUE THEN t2 ELSE t1]

MCSymmetry == Permutations(Processes) \cup Permutations(Events)

=============================================================================
