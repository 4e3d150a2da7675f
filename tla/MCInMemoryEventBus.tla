------------------------- MODULE MCInMemoryEventBus -------------------------
(***************************************************************************)
(* A small instance of InMemoryEventBus for TLC.                            *)
(***************************************************************************)
EXTENDS InMemoryEventBus

CONSTANTS t1, t2

\* A topic that handlers share, and one whose events may find none.
MCTopics == {t1, t2}

=============================================================================
