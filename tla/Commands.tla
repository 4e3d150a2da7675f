------------------------------ MODULE Commands ------------------------------
(***************************************************************************)
(* What callers of the bot and the API are told.  A command is one use case *)
(* that creates, changes or reads an aggregate; the bot's commands that     *)
(* create or rename send a second one that reads the result.  Errors are    *)
(* classified once, in the mediator, and shown as an HTTP status by the API *)
(* and as a message by the bot.                                             *)
(*                                                                         *)
(* A use case is reduced to what UseCases shows of it: it loads, and then   *)
(* it changes the row in one step if the version is still the same.         *)
(***************************************************************************)
EXTENDS Naturals, Sequences, FiniteSets, SequencesExt

CONSTANTS
    Commands,
    Ids,
    Stored,     \* aggregates in the database at the start
    Earlier     \* stands for whoever stored them

ASSUME CommandsAssumption == Stored \subseteq Ids /\ Earlier \notin Commands

Ops == {"create", "change", "read"}
Surfaces == {"api", "bot", "bot_reading_back"}
ErrorType == {"NOT_FOUND", "VALIDATION_ERROR", "UNEXPECTED", "CONCURRENCY_CONFLICT", "CONFLICT"}

VARIABLES
    versions,   \* per id, who wrote each of its versions, from version 0 on
    op, id, surface,    \* per command, what was asked for, and through what
    place,      \* per command, the await it is at
    loaded,     \* per command, the version in hand
    reply       \* per command, what the caller is shown

vars == <<versions, op, id, surface, place, loaded, reply>>
Places == {"idle", "loading", "saving", "reading", "told", "cut_off"}

NoReply == [kind |-> "none"]
Shown(version, writer) == [kind |-> "shown", version |-> version, writer |-> writer]
Done == [kind |-> "done"]
Status(code) == [kind |-> "status", code |-> code]
Text(error) == [kind |-> "text", error |-> error]

TypeOK ==
    /\ versions \in [Ids -> Seq(Commands \cup {Earlier})]
    /\ op \in [Commands -> Ops]
    /\ id \in [Commands -> Ids]
    /\ surface \in [Commands -> Surfaces]
    /\ place \in [Commands -> Places]
    /\ \A c \in Commands :
        /\ loaded[c] \in 0 .. Len(versions[id[c]])
        /\ reply[c].kind = "text" => reply[c].error \in ErrorType

Init ==
    /\ versions = [i \in Ids |-> IF i \in Stored THEN <<Earlier>> ELSE <<>>]
    /\ op \in [Commands -> Ops]
    /\ id \in [Commands -> Ids]
    /\ surface \in [Commands -> Surfaces]
    /\ place = [c \in Commands |-> "idle"]
    /\ loaded = [c \in Commands |-> 0]
    /\ reply = [c \in Commands |-> NoReply]

Exists(i) == versions[i] # <<>>
Move(c, from, to) == place[c] = from /\ place' = [place EXCEPT ![c] = to]

-----------------------------------------------------------------------------
(* Errors *)

\* Mutant: a constraint violation and a lost connection are told alike.
ClassifyAsConflict(error) ==
    CASE error \in {"NOT_FOUND", "VALIDATION_ERROR"} -> error
      [] error \in {"ALREADY_EXISTS", "UNEXPECTED"} -> "CONFLICT"
      [] error = "VERSION_CONFLICT" -> "CONCURRENCY_CONFLICT"

ClassifyError(error) ==
    CASE error = "VALIDATION_ERROR" -> "VALIDATION_ERROR"   \* a UseCaseError already
      [] error = "NOT_FOUND" -> "NOT_FOUND"
      [] error = "ALREADY_EXISTS" -> "CONFLICT"
      [] error = "VERSION_CONFLICT" -> "CONCURRENCY_CONFLICT"
      [] OTHER -> "UNEXPECTED"

HttpStatusForError(type) ==
    CASE type = "NOT_FOUND" -> 404
      [] type \in {"CONFLICT", "CONCURRENCY_CONFLICT"} -> 409
      [] type = "VALIDATION_ERROR" -> 400
      [] OTHER -> 500

ErrorReply(c, error) ==
    IF surface[c] = "api"
    THEN Status(HttpStatusForError(ClassifyError(error)))
    ELSE Text(ClassifyError(error))

Tell(c, answer) == reply' = [reply EXCEPT ![c] = answer]

\* The first use case of a command returns Ok.
Succeed(c) ==
    IF surface[c] = "bot_reading_back"
    THEN Move(c, "saving", "reading") /\ UNCHANGED reply
    ELSE Move(c, "saving", "told") /\ Tell(c, Done)

-----------------------------------------------------------------------------
(* Use cases *)

\* An id is generated for a create, and known to nobody before.
Receive(c) ==
    /\ Move(c, "idle", IF op[c] = "read" THEN "reading"
                       ELSE IF op[c] = "create" THEN "saving" ELSE "loading")
    /\ op[c] = "create" =>
        /\ ~Exists(id[c])
        /\ \A other \in Commands \ {c} :
            op[other] = "create" /\ place[other] # "idle" => id[other] # id[c]
    /\ UNCHANGED <<versions, op, id, surface, loaded, reply>>

Load(c) ==
    /\ IF Exists(id[c])
       THEN /\ Move(c, "loading", "saving")
            /\ loaded' = [loaded EXCEPT ![c] = Len(versions[id[c]])]
            /\ UNCHANGED reply
       ELSE /\ Move(c, "loading", "told")
            /\ Tell(c, ErrorReply(c, "NOT_FOUND"))
            /\ UNCHANGED loaded
    /\ UNCHANGED <<versions, op, id, surface>>

Write(c) == versions' = [versions EXCEPT ![id[c]] = Append(@, c)]

\* A commit whose answer is lost, or that nobody awaits any more, may have been applied.
MayApply(c) ==
    \/ UNCHANGED versions
    \/ Len(versions[id[c]]) = loaded[c] /\ Write(c)

\* Mutant: the result of the commit is not looked at.
SaveUnheeded(c) ==
    /\ MayApply(c)
    /\ Succeed(c)
    /\ UNCHANGED <<op, id, surface, loaded>>

\* Mutant: the version is not looked at.
SaveBlind(c) ==
    /\ Write(c)
    /\ Succeed(c)
    /\ UNCHANGED <<op, id, surface, loaded>>

Save(c) ==
    /\ IF Len(versions[id[c]]) = loaded[c]
       THEN Write(c) /\ Succeed(c)
       ELSE /\ Move(c, "saving", "told")
            /\ Tell(c, ErrorReply(c, "VERSION_CONFLICT"))
            /\ UNCHANGED versions
    /\ UNCHANGED <<op, id, surface, loaded>>

\* The input is malformed, the aggregate does not allow the change, or a unique
\* index has the entry already.
Rejected(c) ==
    /\ \/ Move(c, "saving", "told")
       \/ Move(c, "loading", "told")
       \/ op[c] = "read" /\ Move(c, "reading", "told")
    /\ \E error \in {"VALIDATION_ERROR"}
                        \cup (IF place[c] = "saving" THEN {"ALREADY_EXISTS"} ELSE {}) :
        Tell(c, ErrorReply(c, error))
    /\ UNCHANGED <<versions, op, id, surface, loaded>>

\* The command ends at any await for want of the database or of its caller.
Interrupted(c, end) ==
    \/ Move(c, "loading", end) /\ UNCHANGED versions
    \/ Move(c, "saving", end) /\ MayApply(c)
    \/ Move(c, "reading", end) /\ UNCHANGED versions

\* The database fails.
Breaks(c) ==
    /\ Interrupted(c, "told")
    /\ Tell(c, ErrorReply(c, "UNEXPECTED"))
    /\ UNCHANGED <<op, id, surface, loaded>>

\* Mutant: the reply is made from the aggregate that was loaded.
ReadLoaded(c) ==
    /\ Move(c, "reading", "told")
    /\ Tell(c, IF loaded[c] # 0
               THEN Shown(loaded[c] - 1, versions[id[c]][loaded[c]])
               ELSE IF Exists(id[c]) THEN Shown(0, versions[id[c]][1])
               ELSE ErrorReply(c, "NOT_FOUND"))
    /\ UNCHANGED <<versions, op, id, surface, loaded>>

\* GetTeam or GetUser, whether asked for or chained.
Read(c) ==
    /\ Move(c, "reading", "told")
    /\ Tell(c, IF Exists(id[c])
               THEN Shown(Len(versions[id[c]]) - 1, Last(versions[id[c]]))
               ELSE ErrorReply(c, "NOT_FOUND"))
    /\ UNCHANGED <<versions, op, id, surface, loaded>>

\* The caller or the process goes away at an await.
CutOff(c) ==
    /\ Interrupted(c, "cut_off")
    /\ UNCHANGED <<op, id, surface, loaded, reply>>

Step(c) ==
    Receive(c) \/ Load(c) \/ Save(c) \/ Rejected(c) \/ Breaks(c) \/ Read(c) \/ CutOff(c)

Next == \E c \in Commands : Step(c)
Spec == Init /\ [][Next]_vars

-----------------------------------------------------------------------------
(* Properties *)

Written(c) == {v \in DOMAIN versions[id[c]] : versions[id[c]][v] = c}
ToldAs(c, codes, errors) ==
    \/ reply[c].kind = "status" /\ reply[c].code \in codes
    \/ reply[c].kind = "text" /\ reply[c].error \in errors

\* A caller who is told that the request was bad, unknown or in conflict may rely
\* on nothing having changed: only a 500 or its message leaves that open, at the
\* end of a chain of two use cases too.
OnlyUnexpectedConcealsAnEffect ==
    \A c \in Commands :
        ToldAs(c, {400, 404, 409}, ErrorType \ {"UNEXPECTED"}) => Written(c) = {}

\* A command changes its aggregate at most once, and exactly once if its caller is
\* told of success.
OneEffectPerCommand ==
    \A c \in Commands :
        /\ Cardinality(Written(c)) <= 1
        /\ op[c] # "read" /\ reply[c].kind \in {"done", "shown"} => Written(c) # {}

\* The bot shows a version together with the name of that version, and never one
\* from before the change it reports, although it reads in a second scope.
ShownIsNotOlderThanTheChange ==
    \A c \in Commands : reply[c].kind = "shown" =>
        /\ versions[id[c]][reply[c].version + 1] = reply[c].writer
        /\ \A v \in Written(c) : reply[c].version + 1 >= v

\* Of two commands that loaded the same version, one at most is told of success.
OneWinnerPerVersion ==
    \A c, d \in Commands :
        c # d /\ id[c] = id[d] /\ op[c] = "change" /\ op[d] = "change"
            /\ reply[c].kind \in {"done", "shown"} /\ reply[d].kind \in {"done", "shown"}
            => loaded[c] # loaded[d]

=============================================================================
