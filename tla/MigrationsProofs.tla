--------------------------- MODULE MigrationsProofs ---------------------------
(***************************************************************************)
(* Proofs about MembershipLifecycle and about Migrations, whose rows of     *)
(* team_memberships are its periods: for any number of periods, teams,      *)
(* users, roles, messages and handlers, and for any targets an operator     *)
(* names.                                                                   *)
(*                                                                         *)
(* The schema of a revision is defined along the chain.  ColumnsAt is the   *)
(* same in closed form; from it every upgrade and downgrade is found to     *)
(* lead from the schema of one revision to that of its neighbour.  The      *)
(* inductive invariant then says the same things of the committed database  *)
(* (Stored) and of what the running command sees (Seen): a command that     *)
(* finishes installs what it has seen.                                      *)
(***************************************************************************)
EXTENDS Migrations, TLAPS

-----------------------------------------------------------------------------
(* The schema of a revision *)

Types(names, k) ==
    [n \in names |->
        CASE n = "id" -> IF k < 3 THEN "integer" ELSE "ulid"
          [] n \in Times -> IF k = 1 THEN "text or null" ELSE IF k < 8 THEN "time"
                            ELSE "time or null"
          [] n = "version" -> "integer"
          [] OTHER -> "text"]

UsersAt(k) ==
    IF k < 1 THEN << >>
    ELSE Types({"id", "email", "created_at", "updated_at",
                IF k < 5 THEN "name" ELSE "display_name"}
                    \cup IF k < 7 THEN {} ELSE {"version"}, k)

TeamsAt(k) ==
    IF k < 4 THEN << >>
    ELSE Types({"id", "name", "created_at", "updated_at"}
                    \cup IF k < 6 THEN {} ELSE {"version"}, HeadRevision)

MembershipsAt(k) == IF k < 8 THEN << >> ELSE OrmColumns.team_memberships
MessagesAt(k) == IF k < 9 THEN << >> ELSE OrmColumns.chat_messages

ColumnsAt(k) ==
    [t \in Tables |->
        CASE t = "users" -> UsersAt(k) [] t = "teams" -> TeamsAt(k)
          [] t = "team_memberships" -> MembershipsAt(k) [] t = "chat_messages" -> MessagesAt(k)]

ClosedForm ==
    \A k \in 0 .. HeadRevision :
        SchemaAt[k].columns = ColumnsAt(k) /\ SchemaAt[k].index = (k = HeadRevision)

-----------------------------------------------------------------------------
(* The inductive invariant *)

IsColumns(cols) == cols = [n \in DOMAIN cols |-> cols[n]]

WellFormed(d) ==
    /\ d = [revision |-> d.revision, columns |-> d.columns, index |-> d.index,
            rows |-> d.rows, periods |-> d.periods]
    /\ d.revision \in 0 .. HeadRevision
    /\ d.columns = [t \in Tables |-> d.columns[t]]
    /\ \A t \in Tables : IsColumns(d.columns[t])
    /\ d.index \in BOOLEAN
    /\ d.rows = [t \in Tables |-> d.rows[t]]
    /\ d.periods \in [Periods -> Period \cup {NoPeriod}]

\* The ids of users are of the type that the recorded revision gives them, even
\* if a run died in the middle of a revision.
IdsAreTyped(d) ==
    "id" \in DOMAIN d.columns["users"] =>
        d.columns["users"]["id"] = IF d.revision < 3 THEN "integer" ELSE "ulid"

\* A table that is there has ids, one that is not there has no rows.
WholeTables(d) ==
    /\ \A t \in Tables :
        IF d.columns[t] = << >> THEN d.rows[t] = {} ELSE "id" \in DOMAIN d.columns[t]
    /\ d.columns["team_memberships"] = << >> => d.periods = Empty.periods

Good(d) ==
    /\ WellFormed(d)
    /\ IdsAreTyped(d)
    /\ WholeTables(d)
    /\ d.index => ~Duplicates(d)

\* The schema is the recorded revision's, but for the tables ts, or for none.
ExactBut(d, ts) ==
    /\ \A t \in Tables \ ts : d.columns[t] = ColumnsAt(d.revision)[t]
    /\ "team_memberships" \notin ts => d.index = (d.revision = HeadRevision)
Exact(d) == d.columns = ColumnsAt(d.revision) /\ d.index = (d.revision = HeadRevision)

HaveParties(d) ==
    \A p \in Periods : d.periods[p] # NoPeriod =>
        d.periods[p].team \in d.rows["teams"] /\ d.periods[p].user \in d.rows["users"]

Sound(d) ==
    /\ Good(d)
    /\ ExactBut(d, torn)
    /\ Transactional => HaveParties(d)

Joining ==
    [place : {"found", "inserted"}, period : Periods, team : Teams, user : Users,
     status : {"PENDING", "ACTIVE"}]
Runs == [target : Targets, offline : BOOLEAN, checked : BOOLEAN]

RunInOrder ==
    /\ dialect \in {"postgresql", "sqlite"}
    /\ torn \subseteq Tables
    /\ joins \in [Handlers -> Joining \cup {Idle}]
    /\ run \in Runs \cup {NoRun}
    /\ touched \subseteq Tables
    /\ Transactional => torn = {}
    /\ ~(Transactional /\ Running) => touched = {}
    /\ Transactional /\ Running =>
        /\ WellFormed(view)
        /\ \/ revision <= view.revision /\ view.revision <= run.target
           \/ run.target <= view.revision /\ view.revision <= revision

\* The tables that the command has not locked are as it found them, and those it
\* has locked are in no other transaction's hands.
LocksHold ==
    /\ Transactional /\ Running =>
        /\ \A t \in Tables \ touched : view.columns[t] = columns[t]
        /\ "team_memberships" \notin touched => view.index = index
    /\ Transactional => \A h \in Handlers : Uses(h) \cap touched = {}

Born(t) ==
    CASE t = "users" -> 1 [] t = "teams" -> 4 [] t = "team_memberships" -> 8
      [] t = "chat_messages" -> 9

\* Between revisions r and v, table t has gone or its ids have changed type.
Lost(t, r, v) == v < Born(t) \/ (t = "users" /\ (r < 3) # (v < 3))

\* The rows that the command sees gone are gone for a reason.
RowsStay ==
    Transactional /\ Running =>
        /\ \A t \in Tables : rows[t] \subseteq Seen.rows[t] \/ Lost(t, revision, view.revision)
        /\ \A p \in Periods :
            Exists(p) => Seen.periods[p] # NoPeriod \/ view.revision < Born("team_memberships")

\* What an open transaction has found, and the index entry it holds.
JoinsInOrder ==
    \A h \in Handlers :
        /\ Transactional /\ joins[h].place # "idle" =>
            joins[h].team \in rows["teams"] /\ joins[h].user \in rows["users"]
        /\ Writing(h) =>
            /\ columns["team_memberships"] # << >>
            /\ index =>
                /\ \A o \in Handlers \ {h} : Writing(o) => ~SameParties(joins[o], joins[h])
                /\ \A q \in Periods : ~(Current(q) /\ SameParties(periods[q], joins[h]))

MInv ==
    /\ RunInOrder
    /\ Sound(Stored) /\ Sound(Seen)
    /\ LocksHold
    /\ RowsStay
    /\ JoinsInOrder

-----------------------------------------------------------------------------
(* Columns *)

\* What ++, Typed and Without make.
LEMMA ColumnsMade ==
    /\ \A f, g : DOMAIN (f ++ g) = DOMAIN f \cup DOMAIN g
    /\ \A f, g : \A n \in DOMAIN f \cup DOMAIN g :
        (f ++ g)[n] = IF n \in DOMAIN f THEN f[n] ELSE g[n]
    /\ \A names, type : DOMAIN Typed(names, type) = names
    /\ \A names, type : \A n \in names : Typed(names, type)[n] = type
    /\ \A f, names : DOMAIN Without(f, names) = DOMAIN f \ names
    /\ \A f, names : \A n \in DOMAIN f \ names : Without(f, names)[n] = f[n]
    /\ \A f, g : IsColumns(f ++ g)
    /\ \A names, type : IsColumns(Typed(names, type))
    /\ \A f, names : IsColumns(Without(f, names))
    /\ IsColumns(<< >>) /\ DOMAIN << >> = {}
BY DEF ++, Typed, Without, Restrict, IsColumns

LEMMA SameColumns ==
    ASSUME NEW f, NEW g, IsColumns(f), IsColumns(g), DOMAIN f = DOMAIN g,
           \A n \in DOMAIN f : f[n] = g[n]
    PROVE  f = g
BY DEF IsColumns

\* Columns whose timestamps may be null, or not.
Loosened(cols) ==
    [n \in DOMAIN cols |-> IF n \in Times THEN OrNull(cols[n]) ELSE cols[n]]
Tightened(cols) ==
    [n \in DOMAIN cols |-> IF n \in Times THEN NotNull(cols[n]) ELSE cols[n]]

\* The columns of users from one revision to the next, and back.
LEMMA UsersUpward ==
    /\ UsersAt(1) = Typed({"name", "email"}, "text") ++ Typed({"id"}, "integer")
                        ++ Typed(Times, "text or null")
    /\ UsersAt(2) = Typed(Times, "time") ++ UsersAt(1)
    /\ UsersAt(3) = Typed({"id"}, "ulid") ++ UsersAt(2)
    /\ UsersAt(4) = UsersAt(3)
    /\ UsersAt(5) = Without(UsersAt(4), {"name"}) ++ Typed({"display_name"}, "text")
    /\ UsersAt(6) = UsersAt(5)
    /\ UsersAt(7) = Typed({"version"}, "integer") ++ UsersAt(6)
    /\ UsersAt(8) = Loosened(UsersAt(7))
    /\ UsersAt(9) = UsersAt(8) /\ UsersAt(10) = UsersAt(8)
<1>. USE DEF UsersAt, Types, Times
<1>1. UsersAt(1) = Typed({"name", "email"}, "text") ++ Typed({"id"}, "integer")
                        ++ Typed(Times, "text or null")
    BY DEF ++, Typed
<1>2. UsersAt(2) = Typed(Times, "time") ++ UsersAt(1)
    BY DEF ++, Typed
<1>3. UsersAt(3) = Typed({"id"}, "ulid") ++ UsersAt(2)
    BY DEF ++, Typed
<1>4. UsersAt(4) = UsersAt(3)
    OBVIOUS
<1>5. UsersAt(5) = Without(UsersAt(4), {"name"}) ++ Typed({"display_name"}, "text")
    BY DEF ++, Typed, Without, Restrict
<1>6. UsersAt(6) = UsersAt(5)
    OBVIOUS
<1>7. UsersAt(7) = Typed({"version"}, "integer") ++ UsersAt(6)
    BY DEF ++, Typed
<1>8. UsersAt(8) = Loosened(UsersAt(7))
    BY DEF Loosened, OrNull
<1>9. UsersAt(9) = UsersAt(8) /\ UsersAt(10) = UsersAt(8)
    OBVIOUS
<1>10. QED
    BY <1>1, <1>2, <1>3, <1>4, <1>5, <1>6, <1>7, <1>8, <1>9

LEMMA UsersDownward ==
    /\ UsersAt(7) = Tightened(UsersAt(8))
    /\ UsersAt(6) = Without(UsersAt(7), {"version"})
    /\ UsersAt(4) = Without(UsersAt(5), {"display_name"}) ++ Typed({"name"}, "text")
    /\ UsersAt(2) = Typed({"id"}, "integer") ++ UsersAt(3)
    /\ UsersAt(1) = Typed(Times, "text or null") ++ UsersAt(2)
    /\ UsersAt(0) = << >>
<1>. USE DEF UsersAt, Types, Times
<1>1. UsersAt(7) = Tightened(UsersAt(8))
    BY DEF Tightened, NotNull
<1>2. UsersAt(6) = Without(UsersAt(7), {"version"})
    BY DEF Without, Restrict
<1>3. UsersAt(4) = Without(UsersAt(5), {"display_name"}) ++ Typed({"name"}, "text")
    BY DEF ++, Typed, Without, Restrict
<1>4. UsersAt(2) = Typed({"id"}, "integer") ++ UsersAt(3)
    BY DEF ++, Typed
<1>5. UsersAt(1) = Typed(Times, "text or null") ++ UsersAt(2)
    BY DEF ++, Typed
<1>6. UsersAt(0) = << >>
    OBVIOUS
<1>7. QED
    BY <1>1, <1>2, <1>3, <1>4, <1>5, <1>6

\* The columns of teams, which come with revision 4 and change with 6.
LEMMA TeamsUpAndDown ==
    /\ \A k \in 0 .. 3 : TeamsAt(k) = << >>
    /\ TeamsAt(4) = Typed({"name"}, "text") ++ Typed({"id"}, "ulid") ++ Typed(Times, "time or null")
    /\ TeamsAt(5) = TeamsAt(4)
    /\ TeamsAt(6) = Typed({"version"}, "integer") ++ TeamsAt(5)
    /\ TeamsAt(5) = Without(TeamsAt(6), {"version"})
    /\ \A k \in 6 .. HeadRevision : TeamsAt(k) = TeamsAt(6)
<1>. USE DEF TeamsAt, Types, Times, HeadRevision
<1>1. TeamsAt(4) = Typed({"name"}, "text") ++ Typed({"id"}, "ulid") ++ Typed(Times, "time or null")
    BY DEF ++, Typed
<1>2. TeamsAt(6) = Typed({"version"}, "integer") ++ TeamsAt(5)
    BY DEF ++, Typed
<1>3. TeamsAt(5) = Without(TeamsAt(6), {"version"})
    BY DEF Without, Restrict
<1>4. ASSUME NEW k \in 0 .. 3 PROVE TeamsAt(k) = << >>
    <2>1. k < 4
        OBVIOUS
    <2>2. QED
        BY ONLY <2>1 DEF TeamsAt
<1>5. TeamsAt(5) = TeamsAt(4)
    OBVIOUS
<1>6. ASSUME NEW k \in 6 .. HeadRevision PROVE TeamsAt(k) = TeamsAt(6)
    <2>1. ~(k < 4) /\ ~(k < 6) /\ ~(6 < 4) /\ ~(6 < 6)
        OBVIOUS
    <2>2. QED
        BY ONLY <2>1 DEF TeamsAt
<1>7. QED
    BY <1>1, <1>2, <1>3, <1>4, <1>5, <1>6

\* The columns of team_memberships are those of its ORM model.
LEMMA MembershipsColumns ==
    /\ MembershipsAt(8) =
        Typed({"id", "team_id", "user_id"}, "ulid") ++ Typed({"role", "status"}, "text")
            ++ Typed({"version"}, "integer") ++ Typed(Times, "time or null")
    /\ "id" \in DOMAIN MembershipsAt(8)
<1>. DEFINE ids == Typed({"id", "team_id", "user_id"}, "ulid")
            texts == Typed({"role", "status"}, "text")
            version == Typed({"version"}, "integer")
            times == Typed(Times, "time or null")
<1>1. MembershipsAt(8) = ids ++ texts ++ times ++ version
    <2>1. ~(8 < 8)
        OBVIOUS
    <2>2. MembershipsAt(8) = OrmColumns.team_memberships
        BY ONLY <2>1 DEF MembershipsAt
    <2>3. QED
        BY ONLY <2>2 DEF OrmColumns
<1>2. /\ DOMAIN ids = {"id", "team_id", "user_id"} /\ DOMAIN texts = {"role", "status"}
      /\ DOMAIN version = {"version"} /\ DOMAIN times = {"created_at", "updated_at"}
    BY ColumnsMade DEF Times
<1>. HIDE DEF ids, texts, version, times
<1>3. ids ++ texts ++ times ++ version = ids ++ texts ++ version ++ times
    BY ONLY <1>2 DEF ++
<1>4. "id" \in DOMAIN (ids ++ texts ++ times ++ version)
    BY ONLY <1>2 DEF ++
<1>5. QED
    BY <1>1, <1>3, <1>4 DEF ids, texts, version, times

\* The columns of chat_messages are those of its ORM model.
LEMMA MessagesMade ==
    MessagesAt(9) =
        Typed({"platform", "external_sender_id", "author_kind"}, "text")
            ++ Typed({"conversation_scope", "content"}, "json")
            ++ Typed({"id"}, "ulid") ++ Typed({"occurred_at"}, "time")
BY DEF MessagesAt, OrmColumns

-----------------------------------------------------------------------------
(* Revisions *)

\* d with these columns for table t, and d without what else goes with table t.
With(d, t, cols) ==
    [revision |-> d.revision,
     columns |-> [s \in Tables |-> IF s = t THEN cols ELSE d.columns[s]],
     index |-> d.index, rows |-> d.rows, periods |-> d.periods]
Emptied(d, t) ==
    [revision |-> d.revision, columns |-> d.columns,
     index |-> d.index /\ t # "team_memberships",
     rows |-> [s \in Tables |-> IF s = t THEN {} ELSE d.rows[s]],
     periods |-> IF t = "team_memberships" THEN Empty.periods ELSE d.periods]

Indexed(d, yes) ==
    [revision |-> d.revision, columns |-> d.columns, index |-> yes,
     rows |-> d.rows, periods |-> d.periods]

LEMMA NoPeriods == Empty.periods \in [Periods -> Period \cup {NoPeriod}]
BY DEF Empty

\* A database with other columns in a table.
LEMMA WithIsWellFormed ==
    ASSUME NEW d, WellFormed(d), NEW t \in Tables, NEW cols, IsColumns(cols)
    PROVE  /\ [d EXCEPT !.columns[t] = cols] = With(d, t, cols)
           /\ WellFormed(With(d, t, cols))
<1>1. [d EXCEPT !.columns[t] = cols] = With(d, t, cols)
    BY DEF WellFormed, With
<1>2. WellFormed(With(d, t, cols))
    BY DEF WellFormed, With
<1>3. QED
    BY <1>1, <1>2

\* A database without the rows of a table.
LEMMA EmptiedIsWellFormed ==
    ASSUME NEW d, WellFormed(d), NEW t \in Tables
    PROVE  /\ WellFormed(Emptied(d, t))
           /\ t # "team_memberships" => [d EXCEPT !.rows[t] = {}] = Emptied(d, t)
           /\ Dropped(d, t) = With(Emptied(d, t), t, << >>)
<1>1. WellFormed(Emptied(d, t))
    BY NoPeriods DEF WellFormed, Emptied
<1>2. ASSUME t # "team_memberships" PROVE [d EXCEPT !.rows[t] = {}] = Emptied(d, t)
    <2>. DEFINE left == d.index /\ t # "team_memberships"
                all == [s \in Tables |-> IF s = t THEN {} ELSE d.rows[s]]
    <2>1. left = d.index
        BY <1>2 DEF WellFormed
    <2>2. [d EXCEPT !.rows[t] = {}] =
              [revision |-> d.revision, columns |-> d.columns, index |-> d.index,
               rows |-> all, periods |-> d.periods]
        <3>1. [d.rows EXCEPT ![t] = {}] = all
            BY DEF WellFormed
        <3>2. [d EXCEPT !.rows[t] = {}] =
                  [revision |-> d.revision, columns |-> d.columns, index |-> d.index,
                   rows |-> [d.rows EXCEPT ![t] = {}], periods |-> d.periods]
            BY DEF WellFormed
        <3>3. QED
            BY ONLY <3>1, <3>2
    <2>3. Emptied(d, t) =
              [revision |-> d.revision, columns |-> d.columns, index |-> left,
               rows |-> all, periods |-> d.periods]
        BY <1>2 DEF Emptied
    <2>. HIDE DEF left, all
    <2>4. QED
        BY ONLY <2>1, <2>2, <2>3
<1>3. Dropped(d, t) = With(Emptied(d, t), t, << >>)
    <2>. DEFINE c == With(d, t, << >>)
                r == [c EXCEPT !.rows[t] = {}]
                left == d.index /\ t # "team_memberships"
                q == [r EXCEPT !.index = left]
                ps == IF t = "team_memberships" THEN Empty.periods ELSE d.periods
    <2>1. Dropped(d, t) = [[[[d EXCEPT !.columns[t] = << >>] EXCEPT !.rows[t] = {}]
                                EXCEPT !.index = left] EXCEPT !.periods = ps]
        BY DEF Dropped
    <2>2. [d EXCEPT !.columns[t] = << >>] = c
        BY WithIsWellFormed, ColumnsMade
    <2>3. r = [revision |-> d.revision, columns |-> c.columns, index |-> d.index,
               rows |-> [s \in Tables |-> IF s = t THEN {} ELSE d.rows[s]], periods |-> d.periods]
        <3>1. [d.rows EXCEPT ![t] = {}] = [s \in Tables |-> IF s = t THEN {} ELSE d.rows[s]]
            BY DEF WellFormed
        <3>2. r = [revision |-> d.revision, columns |-> c.columns, index |-> d.index,
                   rows |-> [d.rows EXCEPT ![t] = {}], periods |-> d.periods]
            <4>1. c = [revision |-> d.revision, columns |-> c.columns, index |-> d.index,
                       rows |-> d.rows, periods |-> d.periods]
                BY DEF With
            <4>. HIDE DEF c
            <4>2. QED
                BY <4>1
        <3>3. QED
            BY ONLY <3>1, <3>2
    <2>. HIDE DEF c, r, ps, left
    <2>4. q = [revision |-> d.revision, columns |-> c.columns, index |-> left,
               rows |-> [s \in Tables |-> IF s = t THEN {} ELSE d.rows[s]], periods |-> d.periods]
        BY <2>3
    <2>. HIDE DEF q
    <2>5. [q EXCEPT !.periods = ps] =
              [revision |-> d.revision, columns |-> c.columns, index |-> left,
               rows |-> [s \in Tables |-> IF s = t THEN {} ELSE d.rows[s]], periods |-> ps]
        BY <2>4
    <2>6. QED
        BY <2>1, <2>2, <2>5 DEF Emptied, With, c, q, r, ps, left
<1>4. QED
    BY <1>1, <1>2, <1>3

\* Put, of columns that the table may have.
LEMMA PutMakes ==
    ASSUME NEW d, WellFormed(d), NEW t \in Tables, NEW cols
    PROVE  /\ Put(d, t, cols) = With(d, t, cols ++ d.columns[t])
           /\ WellFormed(With(d, t, cols ++ d.columns[t]))
<1>1. IsColumns(cols ++ d.columns[t])
    BY ColumnsMade
<1>2. Put(d, t, cols) = With(d, t, cols ++ d.columns[t])
    BY DEF Put, WellFormed, With
<1>3. QED
    BY <1>1, <1>2, WithIsWellFormed

\* CREATE TABLE.
LEMMA CreatedMakes ==
    ASSUME NEW d, WellFormed(d), NEW t \in Tables, NEW cols
    PROVE  Created(d, t, cols) = With(d, t, cols)
BY DEF Created, WellFormed, With

\* What becomes of the timestamps of users.
LEMMA TimedMakes ==
    ASSUME NEW d, WellFormed(d)
    PROVE  /\ Timed(d, OrNull) = With(d, "users", Loosened(d.columns["users"]))
           /\ Timed(d, NotNull) = With(d, "users", Tightened(d.columns["users"]))
           /\ WellFormed(With(d, "users", Tightened(d.columns["users"])))
<1>1. "users" \in Tables
    BY DEF Tables
<1>2. Timed(d, OrNull) = [d EXCEPT !.columns["users"] = Loosened(d.columns["users"])]
    BY <1>1 DEF Timed, Loosened, WellFormed
<1>3. Timed(d, NotNull) = [d EXCEPT !.columns["users"] = Tightened(d.columns["users"])]
    BY <1>1 DEF Timed, Tightened, WellFormed
<1>4. \A cols : IsColumns(Loosened(cols)) /\ IsColumns(Tightened(cols))
    BY DEF IsColumns, Loosened, Tightened
<1>5. QED
    BY <1>1, <1>2, <1>3, <1>4, WithIsWellFormed

\* CREATE TABLE team_memberships.
LEMMA MembershipsMakes ==
    ASSUME NEW d, WellFormed(d)
    PROVE  /\ MembershipsMade(d) = With(d, "team_memberships", MembershipsAt(8))
           /\ WellFormed(With(d, "team_memberships", MembershipsAt(8)))
<1>1. "team_memberships" \in Tables
    BY DEF Tables
<1>2. MembershipsMade(d) = Created(d, "team_memberships", MembershipsAt(8))
    BY MembershipsColumns DEF MembershipsMade
<1>3. IsColumns(MembershipsAt(8))
    <2>. DEFINE rest == Typed({"id", "team_id", "user_id"}, "ulid")
                            ++ Typed({"role", "status"}, "text") ++ Typed({"version"}, "integer")
                times == Typed(Times, "time or null")
    <2>1. MembershipsAt(8) = rest ++ times
        BY MembershipsColumns
    <2>. HIDE DEF rest, times
    <2>2. QED
        BY ONLY <2>1, ColumnsMade
<1>4. QED
    BY <1>1, <1>2, <1>3, CreatedMakes, WithIsWellFormed

\* What each upgrade makes.
LEMMA Upgrades ==
    ASSUME NEW d, WellFormed(d)
    PROVE  /\ Upgrade(1, d) = With(d, "users", UsersAt(1))
           /\ Upgrade(2, d) = With(d, "users", Typed(Times, "time") ++ d.columns["users"])
           /\ Upgrade(3, d) = With(Emptied(d, "users"), "users",
                                    Typed({"id"}, "ulid") ++ d.columns["users"])
           /\ Upgrade(4, d) = With(d, "teams", TeamsAt(4))
           /\ Upgrade(5, d) = With(d, "users", Without(d.columns["users"], {"name"})
                                                ++ Typed({"display_name"}, "text"))
           /\ Upgrade(6, d) = With(d, "teams", Typed({"version"}, "integer") ++ d.columns["teams"])
           /\ Upgrade(7, d) = With(d, "users", Typed({"version"}, "integer") ++ d.columns["users"])
           /\ Upgrade(8, d) = With(With(d, "team_memberships", MembershipsAt(8)), "users",
                                    Loosened(d.columns["users"]))
           /\ Upgrade(9, d) = With(d, "chat_messages", MessagesAt(9))
           /\ Upgrade(10, d) = Indexed(d, TRUE)
<1>. /\ "users" \in Tables /\ "teams" \in Tables /\ "team_memberships" \in Tables
     /\ "chat_messages" \in Tables
    BY DEF Tables
<1>1. Upgrade(1, d) = With(d, "users", UsersAt(1))
    <2>1. Upgrade(1, d) = UsersUp(d)
        BY DEF Upgrade
    <2>2. QED
        BY UsersUpward, CreatedMakes, <2>1 DEF UsersUp
<1>2. Upgrade(2, d) = With(d, "users", Typed(Times, "time") ++ d.columns["users"])
    BY PutMakes DEF Upgrade, TimesUp
<1>3. Upgrade(3, d) = With(Emptied(d, "users"), "users",
                            Typed({"id"}, "ulid") ++ d.columns["users"])
    <2>1. Emptied(d, "users").columns = d.columns
        BY DEF Emptied
    <2>2. [d EXCEPT !.rows["users"] = {}] = Emptied(d, "users")
        BY EmptiedIsWellFormed
    <2>3. Upgrade(3, d) = Put(Emptied(d, "users"), "users", Typed({"id"}, "ulid"))
        BY <2>2 DEF Upgrade, RekeyUp
    <2>4. QED
        BY <2>1, <2>3, PutMakes, EmptiedIsWellFormed
<1>4. Upgrade(4, d) = With(d, "teams", TeamsAt(4))
    <2>1. TeamsAt(4) = Typed({"name"}, "text") ++ Typed({"id"}, "ulid")
                            ++ Typed(Times, "time or null")
        BY TeamsUpAndDown
    <2>2. Upgrade(4, d) = TeamsUp(d)
        BY DEF Upgrade
    <2>3. TeamsUp(d) = Created(d, "teams", TeamsAt(4))
        BY <2>1 DEF TeamsUp
    <2>4. QED
        BY <2>2, <2>3, CreatedMakes DEF Tables
<1>5. Upgrade(5, d) = With(d, "users", Without(d.columns["users"], {"name"})
                                        ++ Typed({"display_name"}, "text"))
    BY DEF Upgrade, RenameUp, With, WellFormed
<1>6. Upgrade(6, d) = With(d, "teams", Typed({"version"}, "integer") ++ d.columns["teams"])
    BY PutMakes DEF Upgrade, TeamVersionsUp
<1>7. Upgrade(7, d) = With(d, "users", Typed({"version"}, "integer") ++ d.columns["users"])
    BY PutMakes DEF Upgrade, UserVersionsUp
<1>8. Upgrade(8, d) = With(With(d, "team_memberships", MembershipsAt(8)), "users",
                            Loosened(d.columns["users"]))
    <2>. DEFINE p == With(d, "team_memberships", MembershipsAt(8))
    <2>1. MembershipsMade(d) = p /\ WellFormed(p)
        BY MembershipsMakes
    <2>2. p.columns["users"] = d.columns["users"]
        BY DEF With
    <2>. HIDE DEF p
    <2>3. Timed(p, OrNull) = With(p, "users", Loosened(d.columns["users"]))
        BY <2>1, <2>2, TimedMakes
    <2>4. Upgrade(8, d) = MembershipsUp(d)
        BY DEF Upgrade
    <2>5. MembershipsUp(d) = Timed(p, OrNull)
        BY <2>1 DEF MembershipsUp
    <2>6. QED
        BY <2>3, <2>4, <2>5 DEF p
<1>9. Upgrade(9, d) = With(d, "chat_messages", MessagesAt(9))
    BY MessagesMade, CreatedMakes DEF Upgrade, ChatMessagesUp
<1>10. Upgrade(10, d) = Indexed(d, TRUE)
    <2>1. Upgrade(10, d) = [d EXCEPT !.index = TRUE]
        BY DEF Upgrade, IndexUp
    <2>2. QED
        BY <2>1 DEF WellFormed, Indexed
<1>11. QED
    BY <1>1, <1>2, <1>3, <1>4, <1>5, <1>6, <1>7, <1>8, <1>9, <1>10

\* What each downgrade makes.
LEMMA Downgrades ==
    ASSUME NEW d, WellFormed(d)
    PROVE  /\ Downgrade(1, d) = With(Emptied(d, "users"), "users", << >>)
           /\ Downgrade(2, d) = With(d, "users", Typed(Times, "text or null")
                                                    ++ d.columns["users"])
           /\ Downgrade(3, d) = With(Emptied(d, "users"), "users",
                                      Typed({"id"}, "integer") ++ d.columns["users"])
           /\ Downgrade(4, d) = With(Emptied(d, "teams"), "teams", << >>)
           /\ Downgrade(5, d) = With(d, "users", Without(d.columns["users"], {"display_name"})
                                                  ++ Typed({"name"}, "text"))
           /\ Downgrade(6, d) = With(d, "teams", Without(d.columns["teams"], {"version"}))
           /\ Downgrade(7, d) = With(d, "users", Without(d.columns["users"], {"version"}))
           /\ Downgrade(8, d) = With(Emptied(With(d, "users", Tightened(d.columns["users"])),
                                              "team_memberships"), "team_memberships", << >>)
           /\ Downgrade(9, d) = With(Emptied(d, "chat_messages"), "chat_messages", << >>)
           /\ Downgrade(10, d) = Indexed(d, FALSE)
<1>. /\ "users" \in Tables /\ "teams" \in Tables /\ "team_memberships" \in Tables
     /\ "chat_messages" \in Tables
    BY DEF Tables
<1>1. Downgrade(1, d) = With(Emptied(d, "users"), "users", << >>)
    BY EmptiedIsWellFormed DEF Downgrade, UsersDown
<1>2. Downgrade(2, d) = With(d, "users", Typed(Times, "text or null") ++ d.columns["users"])
    <2>1. Downgrade(2, d) = TimesDown(d)
        BY DEF Downgrade
    <2>2. QED
        BY PutMakes, <2>1 DEF TimesDown
<1>3. Downgrade(3, d) = With(Emptied(d, "users"), "users",
                              Typed({"id"}, "integer") ++ d.columns["users"])
    <2>1. Emptied(d, "users").columns = d.columns
        BY DEF Emptied
    <2>2. [d EXCEPT !.rows["users"] = {}] = Emptied(d, "users")
        BY EmptiedIsWellFormed
    <2>3. Downgrade(3, d) = Put(Emptied(d, "users"), "users", Typed({"id"}, "integer"))
        BY <2>2 DEF Downgrade, RekeyDown
    <2>4. QED
        BY <2>1, <2>3, PutMakes, EmptiedIsWellFormed
<1>4. Downgrade(4, d) = With(Emptied(d, "teams"), "teams", << >>)
    BY EmptiedIsWellFormed DEF Downgrade, TeamsDown
<1>5. Downgrade(5, d) = With(d, "users", Without(d.columns["users"], {"display_name"})
                                          ++ Typed({"name"}, "text"))
    BY DEF Downgrade, RenameDown, With, WellFormed
<1>6. Downgrade(6, d) = With(d, "teams", Without(d.columns["teams"], {"version"}))
    BY DEF Downgrade, TeamVersionsDown, With, WellFormed
<1>7. Downgrade(7, d) = With(d, "users", Without(d.columns["users"], {"version"}))
    BY DEF Downgrade, UserVersionsDown, With, WellFormed
<1>8. Downgrade(8, d) = With(Emptied(With(d, "users", Tightened(d.columns["users"])),
                                      "team_memberships"), "team_memberships", << >>)
    <2>. DEFINE p == With(d, "users", Tightened(d.columns["users"]))
    <2>1. Timed(d, NotNull) = p /\ WellFormed(p)
        BY TimedMakes
    <2>. HIDE DEF p
    <2>2. Downgrade(8, d) = Dropped(p, "team_memberships")
        BY <2>1 DEF Downgrade, MembershipsDown
    <2>3. Dropped(p, "team_memberships") =
            With(Emptied(p, "team_memberships"), "team_memberships", << >>)
        BY <2>1, EmptiedIsWellFormed
    <2>4. QED
        BY <2>2, <2>3 DEF p
<1>9. Downgrade(9, d) = With(Emptied(d, "chat_messages"), "chat_messages", << >>)
    BY EmptiedIsWellFormed DEF Downgrade, ChatMessagesDown
<1>10. Downgrade(10, d) = Indexed(d, FALSE)
    <2>1. Downgrade(10, d) = [d EXCEPT !.index = FALSE]
        BY DEF Downgrade, IndexDown
    <2>2. QED
        BY <2>1 DEF WellFormed, Indexed
<1>11. QED
    BY <1>1, <1>2, <1>3, <1>4, <1>5, <1>6, <1>7, <1>8, <1>9, <1>10

LEMMA ColumnsAtMakes ==
    /\ \A k : ColumnsAt(k) = [t \in Tables |-> ColumnsAt(k)[t]]
    /\ \A k : ColumnsAt(k)["users"] = UsersAt(k)
    /\ \A k : ColumnsAt(k)["teams"] = TeamsAt(k)
    /\ \A k : ColumnsAt(k)["team_memberships"] = MembershipsAt(k)
    /\ \A k : ColumnsAt(k)["chat_messages"] = MessagesAt(k)
BY DEF ColumnsAt, Tables

LEMMA ColumnsAtAreColumns ==
    ASSUME NEW k \in 0 .. HeadRevision, NEW t \in Tables
    PROVE  IsColumns(ColumnsAt(k)[t])
<1>1. \A names : IsColumns(Types(names, k)) /\ IsColumns(Types(names, HeadRevision))
    BY DEF Types, IsColumns
<1>2. IsColumns(UsersAt(k)) /\ IsColumns(TeamsAt(k))
    BY <1>1, ColumnsMade DEF UsersAt, TeamsAt
<1>3. IsColumns(OrmColumns.team_memberships) /\ IsColumns(OrmColumns.chat_messages)
    BY ColumnsMade DEF OrmColumns
<1>4. IsColumns(MembershipsAt(k)) /\ IsColumns(MessagesAt(k))
    BY <1>3, ColumnsMade DEF MembershipsAt, MessagesAt
<1>5. QED
    BY <1>2, <1>4, ColumnsAtMakes DEF Tables

\* Which tables a revision locks.
LEMMA AlteredTables ==
    ASSUME NEW i \in 1 .. HeadRevision
    PROVE  /\ Altered(i) \subseteq Tables
           /\ "users" \in Altered(i) <=> i \in {1, 2, 3, 5, 7, 8}
           /\ "teams" \in Altered(i) <=> i \in {4, 6}
           /\ "team_memberships" \in Altered(i) <=> i \in {8, 10}
           /\ "chat_messages" \in Altered(i) <=> i = 9
<1>1. i \in 1 .. 10
    BY DEF HeadRevision
<1>2. QED
    BY ONLY <1>1 DEF Altered, Tables

\* A table that a revision does not alter has the columns it had, and so has every
\* table at the index.
LEMMA ColumnsDiffer ==
    /\ \A t \in Tables \ {"users"} : ColumnsAt(1)[t] = ColumnsAt(0)[t]
    /\ \A t \in Tables \ {"users"} : ColumnsAt(2)[t] = ColumnsAt(1)[t]
    /\ \A t \in Tables \ {"users"} : ColumnsAt(3)[t] = ColumnsAt(2)[t]
    /\ \A t \in Tables \ {"teams"} : ColumnsAt(4)[t] = ColumnsAt(3)[t]
    /\ \A t \in Tables \ {"users"} : ColumnsAt(5)[t] = ColumnsAt(4)[t]
    /\ \A t \in Tables \ {"teams"} : ColumnsAt(6)[t] = ColumnsAt(5)[t]
    /\ \A t \in Tables \ {"users"} : ColumnsAt(7)[t] = ColumnsAt(6)[t]
    /\ \A t \in Tables \ {"users", "team_memberships"} : ColumnsAt(8)[t] = ColumnsAt(7)[t]
    /\ \A t \in Tables \ {"chat_messages"} : ColumnsAt(9)[t] = ColumnsAt(8)[t]
    /\ ColumnsAt(10) = ColumnsAt(9)
<1>1. /\ UsersAt(4) = UsersAt(3) /\ UsersAt(6) = UsersAt(5) /\ UsersAt(9) = UsersAt(8)
      /\ UsersAt(10) = UsersAt(9)
    BY UsersUpward
<1>2. /\ TeamsAt(1) = TeamsAt(0) /\ TeamsAt(2) = TeamsAt(1) /\ TeamsAt(3) = TeamsAt(2)
      /\ TeamsAt(5) = TeamsAt(4) /\ TeamsAt(7) = TeamsAt(6) /\ TeamsAt(8) = TeamsAt(7)
      /\ TeamsAt(9) = TeamsAt(8) /\ TeamsAt(10) = TeamsAt(9)
    BY DEF TeamsAt
<1>3. /\ \A k \in 0 .. 7 : MembershipsAt(k) = << >>
      /\ MembershipsAt(9) = MembershipsAt(8) /\ MembershipsAt(10) = MembershipsAt(9)
    BY DEF MembershipsAt
<1>4. (\A k \in 0 .. 8 : MessagesAt(k) = << >>) /\ MessagesAt(10) = MessagesAt(9)
    BY DEF MessagesAt
<1>5. \A t \in Tables \ {"users"} : ColumnsAt(1)[t] = ColumnsAt(0)[t]
    BY <1>1, <1>2, <1>3, <1>4, ColumnsAtMakes DEF Tables
<1>6. \A t \in Tables \ {"users"} : ColumnsAt(2)[t] = ColumnsAt(1)[t]
    BY <1>1, <1>2, <1>3, <1>4, ColumnsAtMakes DEF Tables
<1>7. \A t \in Tables \ {"users"} : ColumnsAt(3)[t] = ColumnsAt(2)[t]
    BY <1>1, <1>2, <1>3, <1>4, ColumnsAtMakes DEF Tables
<1>8. \A t \in Tables \ {"teams"} : ColumnsAt(4)[t] = ColumnsAt(3)[t]
    BY <1>1, <1>2, <1>3, <1>4, ColumnsAtMakes DEF Tables
<1>9. \A t \in Tables \ {"users"} : ColumnsAt(5)[t] = ColumnsAt(4)[t]
    BY <1>1, <1>2, <1>3, <1>4, ColumnsAtMakes DEF Tables
<1>10. \A t \in Tables \ {"teams"} : ColumnsAt(6)[t] = ColumnsAt(5)[t]
    BY <1>1, <1>2, <1>3, <1>4, ColumnsAtMakes DEF Tables
<1>11. \A t \in Tables \ {"users"} : ColumnsAt(7)[t] = ColumnsAt(6)[t]
    BY <1>1, <1>2, <1>3, <1>4, ColumnsAtMakes DEF Tables
<1>12. \A t \in Tables \ {"users", "team_memberships"} : ColumnsAt(8)[t] = ColumnsAt(7)[t]
    BY <1>1, <1>2, <1>3, <1>4, ColumnsAtMakes DEF Tables
<1>13. \A t \in Tables \ {"chat_messages"} : ColumnsAt(9)[t] = ColumnsAt(8)[t]
    BY <1>1, <1>2, <1>3, <1>4, ColumnsAtMakes DEF Tables
<1>14. ColumnsAt(10) = ColumnsAt(9)
    <2>1. \A t \in Tables : ColumnsAt(10)[t] = ColumnsAt(9)[t]
        BY <1>1, <1>2, <1>3, <1>4, ColumnsAtMakes DEF Tables
    <2>2. QED
        BY <2>1, ColumnsAtMakes
<1>15. QED
    BY <1>5, <1>6, <1>7, <1>8, <1>9, <1>10, <1>11, <1>12, <1>13, <1>14

LEMMA WithFields ==
    /\ \A d, cols : \A t \in Tables : With(d, t, cols).columns[t] = cols
    /\ \A d, t, cols : \A s \in Tables \ {t} : With(d, t, cols).columns[s] = d.columns[s]
    /\ \A d, t, cols : With(d, t, cols).columns = [s \in Tables |-> With(d, t, cols).columns[s]]
    /\ \A d, t, cols : With(d, t, cols).revision = d.revision
    /\ \A d, t, cols : With(d, t, cols).index = d.index
    /\ \A d, t, cols : With(d, t, cols).rows = d.rows
    /\ \A d, t, cols : With(d, t, cols).periods = d.periods
BY DEF With

LEMMA EmptiedFields ==
    /\ \A d, t : Emptied(d, t).revision = d.revision
    /\ \A d, t : Emptied(d, t).index = (d.index /\ t # "team_memberships")
    /\ \A d : ~Emptied(d, "team_memberships").index
    /\ \A d, t : Emptied(d, t).columns = d.columns
    /\ \A d, t : Emptied(d, t).rows = [s \in Tables |-> IF s = t THEN {} ELSE d.rows[s]]
    /\ \A d, t : Emptied(d, t).periods =
                    IF t = "team_memberships" THEN Empty.periods ELSE d.periods
BY DEF Emptied

\* Of neighbouring revisions, one table is all that differs.
SameBut(c, e, t) == \A s \in Tables \ {t} : c[s] = e[s]

LEMMA OneTableDiffers ==
    ASSUME NEW d, NEW k, NEW t \in Tables, SameBut(ColumnsAt(k), d.columns, t)
    PROVE  With(d, t, ColumnsAt(k)[t]).columns = ColumnsAt(k)
<1>1. \A s \in Tables : With(d, t, ColumnsAt(k)[t]).columns[s] = ColumnsAt(k)[s]
    BY WithFields DEF SameBut
<1>2. QED
    BY <1>1, WithFields, ColumnsAtMakes

\* Every upgrade leads from the schema of one revision to that of the next, and
\* every downgrade back.
LEMMA UpgradeIsExact ==
    ASSUME NEW d, WellFormed(d), NEW i \in 1 .. HeadRevision, d.columns = ColumnsAt(i - 1)
    PROVE  Upgrade(i, d).columns = ColumnsAt(i)
<1>tables. /\ "users" \in Tables /\ "teams" \in Tables /\ "team_memberships" \in Tables
      /\ "chat_messages" \in Tables
    BY DEF Tables
<1>range. i \in 1 .. 10
    BY DEF HeadRevision
<1>1. CASE i = 1
    <2>1. d.columns = ColumnsAt(0)
        BY <1>1
    <2>2. Upgrade(1, d) = With(d, "users", UsersAt(1))
        BY Upgrades
    <2>3. Upgrade(1, d) = With(d, "users", ColumnsAt(1)["users"])
        BY <2>1, <2>2, ColumnsAtMakes
    <2>4. SameBut(ColumnsAt(1), d.columns, "users")
        BY <2>1, ColumnsDiffer DEF Tables, SameBut
    <2>5. Upgrade(1, d).columns = ColumnsAt(1)
        BY ONLY <1>tables, <2>3, <2>4, OneTableDiffers
    <2>6. QED
        BY <1>1, <2>5
<1>2. CASE i = 2
    <2>1. d.columns = ColumnsAt(1)
        BY <1>2
    <2>2. Upgrade(2, d) = With(d, "users", Typed(Times, "time") ++ d.columns["users"])
        BY Upgrades
    <2>3. Upgrade(2, d) = With(d, "users", ColumnsAt(2)["users"])
        BY <2>1, <2>2, UsersUpward, ColumnsAtMakes
    <2>4. SameBut(ColumnsAt(2), d.columns, "users")
        BY <2>1, ColumnsDiffer DEF Tables, SameBut
    <2>5. Upgrade(2, d).columns = ColumnsAt(2)
        BY ONLY <1>tables, <2>3, <2>4, OneTableDiffers
    <2>6. QED
        BY <1>2, <2>5
<1>3. CASE i = 3
    <2>1. d.columns = ColumnsAt(2)
        BY <1>3
    <2>2. Upgrade(3, d) = With(Emptied(d, "users"), "users", Typed({"id"}, "ulid") ++
                d.columns["users"])
        BY Upgrades
    <2>3. Upgrade(3, d) = With(Emptied(d, "users"), "users", ColumnsAt(3)["users"])
        BY <2>1, <2>2, UsersUpward, ColumnsAtMakes
    <2>4. SameBut(ColumnsAt(3), Emptied(d, "users").columns, "users")
        BY <2>1, ColumnsDiffer, EmptiedFields DEF Tables, SameBut
    <2>5. Upgrade(3, d).columns = ColumnsAt(3)
        BY ONLY <1>tables, <2>3, <2>4, OneTableDiffers
    <2>6. QED
        BY <1>3, <2>5
<1>4. CASE i = 4
    <2>1. d.columns = ColumnsAt(3)
        BY <1>4
    <2>2. Upgrade(4, d) = With(d, "teams", TeamsAt(4))
        BY Upgrades
    <2>3. Upgrade(4, d) = With(d, "teams", ColumnsAt(4)["teams"])
        BY <2>1, <2>2, ColumnsAtMakes
    <2>4. SameBut(ColumnsAt(4), d.columns, "teams")
        BY <2>1, ColumnsDiffer DEF Tables, SameBut
    <2>5. Upgrade(4, d).columns = ColumnsAt(4)
        BY ONLY <1>tables, <2>3, <2>4, OneTableDiffers
    <2>6. QED
        BY <1>4, <2>5
<1>5. CASE i = 5
    <2>1. d.columns = ColumnsAt(4)
        BY <1>5
    <2>2. Upgrade(5, d) = With(d, "users", Without(d.columns["users"], {"name"}) ++
                Typed({"display_name"}, "text"))
        BY Upgrades
    <2>3. Upgrade(5, d) = With(d, "users", ColumnsAt(5)["users"])
        BY <2>1, <2>2, UsersUpward, ColumnsAtMakes
    <2>4. SameBut(ColumnsAt(5), d.columns, "users")
        BY <2>1, ColumnsDiffer DEF Tables, SameBut
    <2>5. Upgrade(5, d).columns = ColumnsAt(5)
        BY ONLY <1>tables, <2>3, <2>4, OneTableDiffers
    <2>6. QED
        BY <1>5, <2>5
<1>6. CASE i = 6
    <2>1. d.columns = ColumnsAt(5)
        BY <1>6
    <2>2. Upgrade(6, d) = With(d, "teams", Typed({"version"}, "integer") ++ d.columns["teams"])
        BY Upgrades
    <2>3. Upgrade(6, d) = With(d, "teams", ColumnsAt(6)["teams"])
        BY <2>1, <2>2, TeamsUpAndDown, ColumnsAtMakes
    <2>4. SameBut(ColumnsAt(6), d.columns, "teams")
        BY <2>1, ColumnsDiffer DEF Tables, SameBut
    <2>5. Upgrade(6, d).columns = ColumnsAt(6)
        BY ONLY <1>tables, <2>3, <2>4, OneTableDiffers
    <2>6. QED
        BY <1>6, <2>5
<1>7. CASE i = 7
    <2>1. d.columns = ColumnsAt(6)
        BY <1>7
    <2>2. Upgrade(7, d) = With(d, "users", Typed({"version"}, "integer") ++ d.columns["users"])
        BY Upgrades
    <2>3. Upgrade(7, d) = With(d, "users", ColumnsAt(7)["users"])
        BY <2>1, <2>2, UsersUpward, ColumnsAtMakes
    <2>4. SameBut(ColumnsAt(7), d.columns, "users")
        BY <2>1, ColumnsDiffer DEF Tables, SameBut
    <2>5. Upgrade(7, d).columns = ColumnsAt(7)
        BY ONLY <1>tables, <2>3, <2>4, OneTableDiffers
    <2>6. QED
        BY <1>7, <2>5
<1>8. CASE i = 8
    <2>. DEFINE p == With(d, "team_memberships", ColumnsAt(8)["team_memberships"])
    <2>1. d.columns = ColumnsAt(7)
        BY <1>8
    <2>2. Upgrade(8, d) = With(With(d, "team_memberships", MembershipsAt(8)), "users",
                Loosened(d.columns["users"]))
        BY Upgrades
    <2>3. Upgrade(8, d) = With(p, "users", ColumnsAt(8)["users"])
        BY <2>1, <2>2, UsersUpward, ColumnsAtMakes
    <2>4. /\ p.columns["team_memberships"] = ColumnsAt(8)["team_memberships"]
          /\ \A s \in Tables \ {"team_memberships"} : p.columns[s] = ColumnsAt(7)[s]
        BY <1>tables, <2>1, WithFields
    <2>. HIDE DEF p
    <2>5. SameBut(ColumnsAt(8), p.columns, "users")
        BY <2>4, ColumnsDiffer DEF Tables, SameBut
    <2>6. Upgrade(8, d).columns = ColumnsAt(8)
        BY ONLY <1>tables, <2>3, <2>5, OneTableDiffers
    <2>7. QED
        BY <1>8, <2>6
<1>9. CASE i = 9
    <2>1. d.columns = ColumnsAt(8)
        BY <1>9
    <2>2. Upgrade(9, d) = With(d, "chat_messages", MessagesAt(9))
        BY Upgrades
    <2>3. Upgrade(9, d) = With(d, "chat_messages", ColumnsAt(9)["chat_messages"])
        BY <2>1, <2>2, ColumnsAtMakes
    <2>4. SameBut(ColumnsAt(9), d.columns, "chat_messages")
        BY <2>1, ColumnsDiffer DEF Tables, SameBut
    <2>5. Upgrade(9, d).columns = ColumnsAt(9)
        BY ONLY <1>tables, <2>3, <2>4, OneTableDiffers
    <2>6. QED
        BY <1>9, <2>5
<1>10. CASE i = 10
    <2>1. Upgrade(10, d) = Indexed(d, TRUE)
        BY Upgrades
    <2>2. Upgrade(10, d).columns = d.columns
        BY <2>1 DEF Indexed
    <2>3. ColumnsAt(10) = ColumnsAt(9)
        BY ColumnsDiffer
    <2>4. QED
        BY <1>10, <2>2, <2>3
<1>11. QED
    BY <1>range, <1>1, <1>2, <1>3, <1>4, <1>5, <1>6, <1>7, <1>8, <1>9, <1>10

LEMMA DowngradeIsExact ==
    ASSUME NEW d, WellFormed(d), NEW i \in 1 .. HeadRevision, d.columns = ColumnsAt(i)
    PROVE  Downgrade(i, d).columns = ColumnsAt(i - 1)
<1>tables. /\ "users" \in Tables /\ "teams" \in Tables /\ "team_memberships" \in Tables
      /\ "chat_messages" \in Tables
    BY DEF Tables
<1>range. i \in 1 .. 10
    BY DEF HeadRevision
<1>1. CASE i = 1
    <2>1. d.columns = ColumnsAt(1)
        BY <1>1
    <2>2. Downgrade(1, d) = With(Emptied(d, "users"), "users", << >>)
        BY Downgrades
    <2>3. Downgrade(1, d) = With(Emptied(d, "users"), "users", ColumnsAt(0)["users"])
        BY <2>1, <2>2, UsersDownward, ColumnsAtMakes
    <2>4. SameBut(ColumnsAt(0), Emptied(d, "users").columns, "users")
        BY <2>1, ColumnsDiffer, EmptiedFields DEF Tables, SameBut
    <2>5. Downgrade(1, d).columns = ColumnsAt(0)
        BY ONLY <1>tables, <2>3, <2>4, OneTableDiffers
    <2>6. QED
        BY <1>1, <2>5
<1>2. CASE i = 2
    <2>1. d.columns = ColumnsAt(2)
        BY <1>2
    <2>2. Downgrade(2, d) = With(d, "users", Typed(Times, "text or null") ++ d.columns["users"])
        BY Downgrades
    <2>3. Downgrade(2, d) = With(d, "users", ColumnsAt(1)["users"])
        BY <2>1, <2>2, UsersDownward, ColumnsAtMakes
    <2>4. SameBut(ColumnsAt(1), d.columns, "users")
        BY <2>1, ColumnsDiffer DEF Tables, SameBut
    <2>5. Downgrade(2, d).columns = ColumnsAt(1)
        BY ONLY <1>tables, <2>3, <2>4, OneTableDiffers
    <2>6. QED
        BY <1>2, <2>5
<1>3. CASE i = 3
    <2>1. d.columns = ColumnsAt(3)
        BY <1>3
    <2>2. Downgrade(3, d) = With(Emptied(d, "users"), "users", Typed({"id"}, "integer") ++
                d.columns["users"])
        BY Downgrades
    <2>3. Downgrade(3, d) = With(Emptied(d, "users"), "users", ColumnsAt(2)["users"])
        BY <2>1, <2>2, UsersDownward, ColumnsAtMakes
    <2>4. SameBut(ColumnsAt(2), Emptied(d, "users").columns, "users")
        BY <2>1, ColumnsDiffer, EmptiedFields DEF Tables, SameBut
    <2>5. Downgrade(3, d).columns = ColumnsAt(2)
        BY ONLY <1>tables, <2>3, <2>4, OneTableDiffers
    <2>6. QED
        BY <1>3, <2>5
<1>4. CASE i = 4
    <2>1. d.columns = ColumnsAt(4)
        BY <1>4
    <2>2. Downgrade(4, d) = With(Emptied(d, "teams"), "teams", << >>)
        BY Downgrades
    <2>none. TeamsAt(3) = << >>
        BY DEF TeamsAt
    <2>3. Downgrade(4, d) = With(Emptied(d, "teams"), "teams", ColumnsAt(3)["teams"])
        BY <2>1, <2>2, <2>none, ColumnsAtMakes
    <2>4. SameBut(ColumnsAt(3), Emptied(d, "teams").columns, "teams")
        BY <2>1, ColumnsDiffer, EmptiedFields DEF Tables, SameBut
    <2>5. Downgrade(4, d).columns = ColumnsAt(3)
        BY ONLY <1>tables, <2>3, <2>4, OneTableDiffers
    <2>6. QED
        BY <1>4, <2>5
<1>5. CASE i = 5
    <2>1. d.columns = ColumnsAt(5)
        BY <1>5
    <2>2. Downgrade(5, d) = With(d, "users", Without(d.columns["users"], {"display_name"}) ++
                Typed({"name"}, "text"))
        BY Downgrades
    <2>3. Downgrade(5, d) = With(d, "users", ColumnsAt(4)["users"])
        BY <2>1, <2>2, UsersDownward, ColumnsAtMakes
    <2>4. SameBut(ColumnsAt(4), d.columns, "users")
        BY <2>1, ColumnsDiffer DEF Tables, SameBut
    <2>5. Downgrade(5, d).columns = ColumnsAt(4)
        BY ONLY <1>tables, <2>3, <2>4, OneTableDiffers
    <2>6. QED
        BY <1>5, <2>5
<1>6. CASE i = 6
    <2>1. d.columns = ColumnsAt(6)
        BY <1>6
    <2>2. Downgrade(6, d) = With(d, "teams", Without(d.columns["teams"], {"version"}))
        BY Downgrades
    <2>3. Downgrade(6, d) = With(d, "teams", ColumnsAt(5)["teams"])
        BY <2>1, <2>2, TeamsUpAndDown, ColumnsAtMakes
    <2>4. SameBut(ColumnsAt(5), d.columns, "teams")
        BY <2>1, ColumnsDiffer DEF Tables, SameBut
    <2>5. Downgrade(6, d).columns = ColumnsAt(5)
        BY ONLY <1>tables, <2>3, <2>4, OneTableDiffers
    <2>6. QED
        BY <1>6, <2>5
<1>7. CASE i = 7
    <2>1. d.columns = ColumnsAt(7)
        BY <1>7
    <2>2. Downgrade(7, d) = With(d, "users", Without(d.columns["users"], {"version"}))
        BY Downgrades
    <2>3. Downgrade(7, d) = With(d, "users", ColumnsAt(6)["users"])
        BY <2>1, <2>2, UsersDownward, ColumnsAtMakes
    <2>4. SameBut(ColumnsAt(6), d.columns, "users")
        BY <2>1, ColumnsDiffer DEF Tables, SameBut
    <2>5. Downgrade(7, d).columns = ColumnsAt(6)
        BY ONLY <1>tables, <2>3, <2>4, OneTableDiffers
    <2>6. QED
        BY <1>7, <2>5
<1>8. CASE i = 8
    <2>. DEFINE p == With(d, "users", ColumnsAt(7)["users"])
                q == Emptied(p, "team_memberships")
    <2>1. d.columns = ColumnsAt(8)
        BY <1>8
    <2>2. Downgrade(8, d) = With(Emptied(With(d, "users", Tightened(d.columns["users"])),
                "team_memberships"), "team_memberships", << >>)
        BY Downgrades
    <2>none. MembershipsAt(7) = << >>
        BY DEF MembershipsAt
    <2>3. Downgrade(8, d) = With(q, "team_memberships", ColumnsAt(7)["team_memberships"])
        BY <2>1, <2>2, <2>none, UsersDownward, ColumnsAtMakes
    <2>4. /\ p.columns["users"] = ColumnsAt(7)["users"] /\ q.columns = p.columns
          /\ \A s \in Tables \ {"users"} : p.columns[s] = ColumnsAt(8)[s]
        BY <1>tables, <2>1, WithFields, EmptiedFields
    <2>. HIDE DEF p, q
    <2>5. SameBut(ColumnsAt(7), q.columns, "team_memberships")
        BY <2>4, ColumnsDiffer DEF Tables, SameBut
    <2>6. Downgrade(8, d).columns = ColumnsAt(7)
        BY ONLY <1>tables, <2>3, <2>5, OneTableDiffers
    <2>7. QED
        BY <1>8, <2>6
<1>9. CASE i = 9
    <2>1. d.columns = ColumnsAt(9)
        BY <1>9
    <2>2. Downgrade(9, d) = With(Emptied(d, "chat_messages"), "chat_messages", << >>)
        BY Downgrades
    <2>3. Downgrade(9, d) =
            With(Emptied(d, "chat_messages"), "chat_messages", ColumnsAt(8)["chat_messages"])
        BY <2>1, <2>2, ColumnsAtMakes DEF MessagesAt
    <2>4. SameBut(ColumnsAt(8), Emptied(d, "chat_messages").columns, "chat_messages")
        BY <2>1, ColumnsDiffer, EmptiedFields DEF Tables, SameBut
    <2>5. Downgrade(9, d).columns = ColumnsAt(8)
        BY ONLY <1>tables, <2>3, <2>4, OneTableDiffers
    <2>6. QED
        BY <1>9, <2>5
<1>10. CASE i = 10
    <2>1. Downgrade(10, d) = Indexed(d, FALSE)
        BY Downgrades
    <2>2. Downgrade(10, d).columns = d.columns
        BY <2>1 DEF Indexed
    <2>3. ColumnsAt(10) = ColumnsAt(9)
        BY ColumnsDiffer
    <2>4. QED
        BY <1>10, <2>2, <2>3
<1>11. QED
    BY <1>range, <1>1, <1>2, <1>3, <1>4, <1>5, <1>6, <1>7, <1>8, <1>9, <1>10

\* What a revision makes of a table depends on this table only: here on what the
\* table is in d and in e.
LEMMA WithIsLocal ==
    ASSUME NEW d, NEW e, NEW s \in Tables, NEW c, NEW k, NEW t \in Tables,
           IF t = s THEN c = k ELSE d.columns[t] = e.columns[t]
    PROVE  With(d, s, c).columns[t] = With(e, s, k).columns[t]
BY WithFields

LEMMA RevisionsAreLocal ==
    ASSUME NEW d, WellFormed(d), NEW e, WellFormed(e), NEW t \in Tables,
           d.columns[t] = e.columns[t], NEW i \in 1 .. HeadRevision
    PROVE  /\ Upgrade(i, d).columns[t] = Upgrade(i, e).columns[t]
           /\ Downgrade(i, d).columns[t] = Downgrade(i, e).columns[t]
<1>1. /\ "users" \in Tables /\ "teams" \in Tables /\ "team_memberships" \in Tables
      /\ "chat_messages" \in Tables
    BY DEF Tables
<1>2. /\ \A s : Emptied(d, s).columns = d.columns /\ Emptied(e, s).columns = e.columns
      /\ \A yes : Indexed(d, yes).columns = d.columns /\ Indexed(e, yes).columns = e.columns
    BY DEF Emptied, Indexed
<1>3. ASSUME NEW s \in Tables, NEW f, NEW g, f.columns = d.columns, g.columns = e.columns,
             NEW c, NEW k, t = s => c = k
      PROVE  With(f, s, c).columns[t] = With(g, s, k).columns[t]
    BY <1>3, WithIsLocal
<1>4. i \in 1 .. 10
    BY DEF HeadRevision
<1>5. CASE i = 1
    <2>1. /\ Upgrade(1, d) = With(d, "users", UsersAt(1))
          /\ Upgrade(1, e) = With(e, "users", UsersAt(1))
        BY Upgrades
    <2>2. /\ Downgrade(1, d) = With(Emptied(d, "users"), "users", << >>)
          /\ Downgrade(1, e) = With(Emptied(e, "users"), "users", << >>)
        BY Downgrades
    <2>3. Upgrade(1, d).columns[t] = Upgrade(1, e).columns[t]
        BY <1>1, <1>2, <1>3, <2>1
    <2>4. Downgrade(1, d).columns[t] = Downgrade(1, e).columns[t]
        BY <1>1, <1>2, <1>3, <2>2
    <2>5. QED
        BY <1>5, <2>3, <2>4
<1>6. CASE i = 2
    <2>. DEFINE new == Typed(Times, "time")
                old == Typed(Times, "text or null")
    <2>1. /\ Upgrade(2, d) = With(d, "users", new ++ d.columns["users"])
          /\ Upgrade(2, e) = With(e, "users", new ++ e.columns["users"])
        BY Upgrades
    <2>2. /\ Downgrade(2, d) = With(d, "users", old ++ d.columns["users"])
          /\ Downgrade(2, e) = With(e, "users", old ++ e.columns["users"])
        BY Downgrades
    <2>. HIDE DEF new, old
    <2>3. Upgrade(2, d).columns[t] = Upgrade(2, e).columns[t]
        BY <1>1, <1>3, <2>1
    <2>4. Downgrade(2, d).columns[t] = Downgrade(2, e).columns[t]
        BY <1>1, <1>3, <2>2
    <2>5. QED
        BY <1>6, <2>3, <2>4
<1>7. CASE i = 3
    <2>1. /\ Upgrade(3, d) =
                With(Emptied(d, "users"), "users", Typed({"id"}, "ulid") ++ d.columns["users"])
          /\ Upgrade(3, e) =
                With(Emptied(e, "users"), "users", Typed({"id"}, "ulid") ++ e.columns["users"])
        BY Upgrades
    <2>2. /\ Downgrade(3, d) =
                With(Emptied(d, "users"), "users", Typed({"id"}, "integer") ++ d.columns["users"])
          /\ Downgrade(3, e) =
                With(Emptied(e, "users"), "users", Typed({"id"}, "integer") ++ e.columns["users"])
        BY Downgrades
    <2>3. Upgrade(3, d).columns[t] = Upgrade(3, e).columns[t]
        BY <1>1, <1>2, <1>3, <2>1
    <2>4. Downgrade(3, d).columns[t] = Downgrade(3, e).columns[t]
        BY <1>1, <1>2, <1>3, <2>2
    <2>5. QED
        BY <1>7, <2>3, <2>4
<1>8. CASE i = 4
    <2>1. /\ Upgrade(4, d) = With(d, "teams", TeamsAt(4))
          /\ Upgrade(4, e) = With(e, "teams", TeamsAt(4))
        BY Upgrades
    <2>2. /\ Downgrade(4, d) = With(Emptied(d, "teams"), "teams", << >>)
          /\ Downgrade(4, e) = With(Emptied(e, "teams"), "teams", << >>)
        BY Downgrades
    <2>3. Upgrade(4, d).columns[t] = Upgrade(4, e).columns[t]
        BY <1>1, <1>2, <1>3, <2>1
    <2>4. Downgrade(4, d).columns[t] = Downgrade(4, e).columns[t]
        BY <1>1, <1>2, <1>3, <2>2
    <2>5. QED
        BY <1>8, <2>3, <2>4
<1>9. CASE i = 5
    <2>1. /\ Upgrade(5, d) =
                With(d, "users", Without(d.columns["users"], {"name"})
                                    ++ Typed({"display_name"}, "text"))
          /\ Upgrade(5, e) =
                With(e, "users", Without(e.columns["users"], {"name"})
                                    ++ Typed({"display_name"}, "text"))
        BY Upgrades
    <2>2. /\ Downgrade(5, d) =
                With(d, "users", Without(d.columns["users"], {"display_name"})
                                    ++ Typed({"name"}, "text"))
          /\ Downgrade(5, e) =
                With(e, "users", Without(e.columns["users"], {"display_name"})
                                    ++ Typed({"name"}, "text"))
        BY Downgrades
    <2>3. Upgrade(5, d).columns[t] = Upgrade(5, e).columns[t]
        BY <1>1, <1>2, <1>3, <2>1
    <2>4. Downgrade(5, d).columns[t] = Downgrade(5, e).columns[t]
        BY <1>1, <1>2, <1>3, <2>2
    <2>5. QED
        BY <1>9, <2>3, <2>4
<1>10. CASE i = 6
    <2>1. /\ Upgrade(6, d) = With(d, "teams", Typed({"version"}, "integer") ++ d.columns["teams"])
          /\ Upgrade(6, e) = With(e, "teams", Typed({"version"}, "integer") ++ e.columns["teams"])
        BY Upgrades
    <2>2. /\ Downgrade(6, d) = With(d, "teams", Without(d.columns["teams"], {"version"}))
          /\ Downgrade(6, e) = With(e, "teams", Without(e.columns["teams"], {"version"}))
        BY Downgrades
    <2>3. Upgrade(6, d).columns[t] = Upgrade(6, e).columns[t]
        BY <1>1, <1>2, <1>3, <2>1
    <2>4. Downgrade(6, d).columns[t] = Downgrade(6, e).columns[t]
        BY <1>1, <1>2, <1>3, <2>2
    <2>5. QED
        BY <1>10, <2>3, <2>4
<1>11. CASE i = 7
    <2>1. /\ Upgrade(7, d) = With(d, "users", Typed({"version"}, "integer") ++ d.columns["users"])
          /\ Upgrade(7, e) = With(e, "users", Typed({"version"}, "integer") ++ e.columns["users"])
        BY Upgrades
    <2>2. /\ Downgrade(7, d) = With(d, "users", Without(d.columns["users"], {"version"}))
          /\ Downgrade(7, e) = With(e, "users", Without(e.columns["users"], {"version"}))
        BY Downgrades
    <2>3. Upgrade(7, d).columns[t] = Upgrade(7, e).columns[t]
        BY <1>1, <1>2, <1>3, <2>1
    <2>4. Downgrade(7, d).columns[t] = Downgrade(7, e).columns[t]
        BY <1>1, <1>2, <1>3, <2>2
    <2>5. QED
        BY <1>11, <2>3, <2>4
<1>12. CASE i = 8
    <2>. DEFINE up == With(d, "team_memberships", MembershipsAt(8))
                eup == With(e, "team_memberships", MembershipsAt(8))
                down == With(d, "users", Tightened(d.columns["users"]))
                edown == With(e, "users", Tightened(e.columns["users"]))
    <2>1. up.columns[t] = eup.columns[t] /\ down.columns[t] = edown.columns[t]
        BY <1>1, <1>3
    <2>2. /\ Upgrade(8, d) = With(up, "users", Loosened(d.columns["users"]))
          /\ Upgrade(8, e) = With(eup, "users", Loosened(e.columns["users"]))
        BY Upgrades
    <2>. DEFINE left == Emptied(down, "team_memberships")
                eleft == Emptied(edown, "team_memberships")
    <2>3. /\ Downgrade(8, d) = With(left, "team_memberships", << >>)
          /\ Downgrade(8, e) = With(eleft, "team_memberships", << >>)
        BY Downgrades
    <2>. HIDE DEF up, eup, down, edown
    <2>4. left.columns[t] = eleft.columns[t]
        BY <2>1, EmptiedFields
    <2>. HIDE DEF left, eleft
    <2>5. Upgrade(8, d).columns[t] = Upgrade(8, e).columns[t]
        <3>1. t = "users" => Loosened(d.columns["users"]) = Loosened(e.columns["users"])
            OBVIOUS
        <3>2. With(up, "users", Loosened(d.columns["users"])).columns[t] =
                With(eup, "users", Loosened(e.columns["users"])).columns[t]
            BY ONLY <1>1, <2>1, <3>1, t \in Tables, WithIsLocal
        <3>3. QED
            BY <2>2, <3>2
    <2>6. Downgrade(8, d).columns[t] = Downgrade(8, e).columns[t]
        <3>1. With(left, "team_memberships", << >>).columns[t] =
                With(eleft, "team_memberships", << >>).columns[t]
            BY <1>1, <2>4, WithIsLocal
        <3>2. QED
            BY <2>3, <3>1
    <2>7. QED
        BY <1>12, <2>5, <2>6
<1>13. CASE i = 9
    <2>1. /\ Upgrade(9, d) = With(d, "chat_messages", MessagesAt(9))
          /\ Upgrade(9, e) = With(e, "chat_messages", MessagesAt(9))
        BY Upgrades
    <2>2. /\ Downgrade(9, d) = With(Emptied(d, "chat_messages"), "chat_messages", << >>)
          /\ Downgrade(9, e) = With(Emptied(e, "chat_messages"), "chat_messages", << >>)
        BY Downgrades
    <2>3. Upgrade(9, d).columns[t] = Upgrade(9, e).columns[t]
        BY <1>1, <1>2, <1>3, <2>1
    <2>4. Downgrade(9, d).columns[t] = Downgrade(9, e).columns[t]
        BY <1>1, <1>2, <1>3, <2>2
    <2>5. QED
        BY <1>13, <2>3, <2>4
<1>14. CASE i = 10
    <2>1. Upgrade(10, d) = Indexed(d, TRUE) /\ Upgrade(10, e) = Indexed(e, TRUE)
        BY Upgrades
    <2>2. Downgrade(10, d) = Indexed(d, FALSE) /\ Downgrade(10, e) = Indexed(e, FALSE)
        BY Downgrades
    <2>3. QED
        BY <1>2, <1>14, <2>1, <2>2
<1>15. QED
    BY <1>4, <1>5, <1>6, <1>7, <1>8, <1>9, <1>10, <1>11, <1>12, <1>13, <1>14

\* The columns of a new table.
LEMMA CreatedColumns ==
    /\ IsColumns(UsersAt(1)) /\ "id" \in DOMAIN UsersAt(1) /\ UsersAt(1)["id"] = "integer"
    /\ IsColumns(TeamsAt(4)) /\ "id" \in DOMAIN TeamsAt(4)
    /\ IsColumns(MembershipsAt(8)) /\ "id" \in DOMAIN MembershipsAt(8)
    /\ IsColumns(MessagesAt(9)) /\ "id" \in DOMAIN MessagesAt(9)
<1>1. IsColumns(UsersAt(1)) /\ "id" \in DOMAIN UsersAt(1) /\ UsersAt(1)["id"] = "integer"
    <2>1. UsersAt(1) = Types({"id", "email", "created_at", "updated_at", "name"}, 1)
        BY DEF UsersAt
    <2>2. \A names : IsColumns(Types(names, 1)) /\ DOMAIN Types(names, 1) = names
        BY DEF IsColumns, Types
    <2>3. \A names : \A k \in 0 .. 2 : "id" \in names => Types(names, k)["id"] = "integer"
        BY DEF Types, Times
    <2>4. UsersAt(1)["id"] = "integer"
        BY <2>1, <2>3
    <2>5. QED
        BY <2>1, <2>2, <2>4
<1>2. IsColumns(TeamsAt(4)) /\ "id" \in DOMAIN TeamsAt(4)
    BY DEF IsColumns, TeamsAt, Types
<1>3. IsColumns(MembershipsAt(8))
    <2>. DEFINE rest == Typed({"id", "team_id", "user_id"}, "ulid")
                            ++ Typed({"role", "status"}, "text") ++ Typed({"version"}, "integer")
                times == Typed(Times, "time or null")
    <2>1. MembershipsAt(8) = rest ++ times
        BY MembershipsColumns
    <2>. HIDE DEF rest, times
    <2>2. IsColumns(rest ++ times)
        BY DEF ++, IsColumns
    <2>3. QED
        BY ONLY <2>1, <2>2
<1>4. IsColumns(MessagesAt(9)) /\ "id" \in DOMAIN MessagesAt(9)
    <2>. DEFINE ids == Typed({"id"}, "ulid")
                rest == Typed({"platform", "external_sender_id", "author_kind"}, "text")
                            ++ Typed({"conversation_scope", "content"}, "json")
                time == Typed({"occurred_at"}, "time")
    <2>1. MessagesAt(9) = rest ++ ids ++ time
        BY MessagesMade
    <2>2. "id" \in DOMAIN ids
        BY ColumnsMade
    <2>. HIDE DEF ids, rest, time
    <2>3. "id" \in DOMAIN (rest ++ ids ++ time) /\ IsColumns(rest ++ ids ++ time)
        BY ONLY <2>2 DEF ++, IsColumns
    <2>4. QED
        BY ONLY <2>1, <2>3
<1>5. QED
    BY <1>1, <1>2, <1>3, <1>4, MembershipsColumns, ColumnsMade

\* The closed form tells which tables there are, and these have their ids.
LEMMA ColumnsAtTell ==
    ASSUME NEW k \in 0 .. HeadRevision, NEW t \in Tables
    PROVE  IF k < Born(t) THEN ColumnsAt(k)[t] = << >>
           ELSE ColumnsAt(k)[t] # << >> /\ "id" \in DOMAIN ColumnsAt(k)[t]
<1>1. /\ k < 1 => UsersAt(k) = << >>
      /\ ~(k < 1) => "id" \in DOMAIN UsersAt(k)
    BY DEF UsersAt, Types
<1>2. /\ k < 4 => TeamsAt(k) = << >>
      /\ ~(k < 4) => "id" \in DOMAIN TeamsAt(k)
    BY DEF TeamsAt, Types
<1>3. /\ k < 8 => MembershipsAt(k) = << >>
      /\ ~(k < 8) => "id" \in DOMAIN MembershipsAt(k)
    <2>1. "id" \in DOMAIN OrmColumns.team_memberships
        <3>1. MembershipsAt(8) = OrmColumns.team_memberships
            BY DEF MembershipsAt
        <3>2. QED
            BY <3>1, MembershipsColumns
    <2>2. QED
        BY <2>1 DEF MembershipsAt
<1>4. /\ k < 9 => MessagesAt(k) = << >>
      /\ ~(k < 9) => "id" \in DOMAIN MessagesAt(k)
    <2>1. "id" \in DOMAIN OrmColumns.chat_messages
        BY CreatedColumns DEF MessagesAt
    <2>2. QED
        BY <2>1 DEF MessagesAt
<1>5. QED
    BY <1>1, <1>2, <1>3, <1>4, ColumnsAtMakes, ColumnsMade DEF Tables, Born

\* No revision alters a table that no revision has made.
LEMMA BornByThen ==
    ASSUME NEW i \in 1 .. HeadRevision
    PROVE  \A t \in Altered(i) : t \in Tables /\ i >= Born(t) /\ Born(t) \in Int
<1>1. i \in 1 .. 10
    BY DEF HeadRevision
<1>2. QED
    BY <1>1, AlteredTables DEF Tables, Born

\* The tables that revision i does not make, of those it alters, are there.
Standing(i, d) == \A t \in Altered(i) : i # Born(t) => d.columns[t] # << >>

LEMMA StandingTables ==
    ASSUME NEW i \in 1 .. HeadRevision, NEW d, WholeTables(d), Standing(i, d)
    PROVE  /\ i \in {2, 3, 5, 7, 8} => "id" \in DOMAIN d.columns["users"]
           /\ i = 6 => "id" \in DOMAIN d.columns["teams"]
<1>1. Born("users") = 1 /\ Born("teams") = 4
    BY DEF Born
<1>2. /\ i \in {2, 3, 5, 7, 8} => d.columns["users"] # << >>
      /\ i = 6 => d.columns["teams"] # << >>
    BY <1>1, AlteredTables DEF Standing
<1>3. QED
    BY <1>2 DEF WholeTables, Tables

\* What any revision does to a database it may be applied to, up or down: a table
\* it does not alter is left alone, and rows go only with their table, or when
\* the ids of users change type.
Revised(i, d, u) ==
    /\ WellFormed(u) /\ u.revision = d.revision
    /\ \A t \in Tables \ Altered(i) : u.columns[t] = d.columns[t] /\ u.rows[t] = d.rows[t]
    /\ "team_memberships" \notin Altered(i) => u.index = d.index /\ u.periods = d.periods
    /\ \A t \in Tables :
        \/ u.rows[t] = d.rows[t]
        \/ u.rows[t] = {} /\ (u.columns[t] = << >> \/ (i = 3 /\ t = "users"))
    /\ \/ u.periods = d.periods
       \/ u.periods = Empty.periods /\ u.columns["team_memberships"] = << >>
    /\ WholeTables(u)
    /\ u.index => d.index \/ i = HeadRevision
    /\ i # 3 /\ "id" \in DOMAIN u.columns["users"] =>
        \/ /\ "id" \in DOMAIN d.columns["users"]
           /\ u.columns["users"]["id"] = d.columns["users"]["id"]
        \/ i = 1 /\ u.columns["users"]["id"] = "integer"

\* The ids of users keep their type, unless that is what the revision changes.
IdsStay(i, t, d, cols) ==
    t = "users" /\ i # 3 /\ "id" \in DOMAIN cols =>
        \/ /\ "id" \in DOMAIN d.columns["users"]
           /\ cols["id"] = d.columns["users"]["id"]
        \/ i = 1 /\ cols["id"] = "integer"

\* A revision that gives one table other columns and keeps its rows.
LEMMA ColumnsRevised ==
    ASSUME NEW d, WellFormed(d), WholeTables(d), NEW t \in Tables \ {"team_memberships"},
           NEW i, Altered(i) = {t}, NEW cols, IsColumns(cols), "id" \in DOMAIN cols,
           IdsStay(i, t, d, cols)
    PROVE  Revised(i, d, With(d, t, cols))
<1>. DEFINE u == With(d, t, cols)
<1>1. WellFormed(u)
    BY WithIsWellFormed
<1>2. /\ u.revision = d.revision /\ u.index = d.index /\ u.rows = d.rows
      /\ u.periods = d.periods /\ u.columns[t] = cols
      /\ \A s \in Tables \ {t} : u.columns[s] = d.columns[s]
    BY WithFields
<1>. HIDE DEF u
<1>3. WholeTables(u)
    BY <1>2, ColumnsMade DEF WholeTables, Tables
<1>4. i # 3 /\ "id" \in DOMAIN u.columns["users"] =>
        \/ /\ "id" \in DOMAIN d.columns["users"]
           /\ u.columns["users"]["id"] = d.columns["users"]["id"]
        \/ i = 1 /\ u.columns["users"]["id"] = "integer"
    BY <1>2 DEF IdsStay, Tables
<1>5. Revised(i, d, u)
    BY <1>1, <1>2, <1>3, <1>4 DEF Revised
<1>6. QED
    BY <1>5 DEF u

\* A revision that empties a table or drops it.
LEMMA TableRevised ==
    ASSUME NEW d, WellFormed(d), WholeTables(d), NEW t \in Tables \ {"team_memberships"},
           NEW i, Altered(i) = {t}, NEW cols, IsColumns(cols),
           cols = << >> \/ (i = 3 /\ t = "users" /\ "id" \in DOMAIN cols),
           IdsStay(i, t, d, cols)
    PROVE  Revised(i, d, With(Emptied(d, t), t, cols))
<1>. DEFINE e == Emptied(d, t)
            u == With(e, t, cols)
<1>1. WellFormed(u)
    BY WithIsWellFormed, EmptiedIsWellFormed
<1>2. /\ e.revision = d.revision /\ e.index = d.index /\ e.columns = d.columns
      /\ e.rows = [s \in Tables |-> IF s = t THEN {} ELSE d.rows[s]] /\ e.periods = d.periods
    BY EmptiedFields DEF WellFormed
<1>3. /\ u.revision = e.revision /\ u.index = e.index /\ u.rows = e.rows
      /\ u.periods = e.periods /\ u.columns[t] = cols
      /\ \A s \in Tables \ {t} : u.columns[s] = e.columns[s]
    BY WithFields
<1>. HIDE DEF u, e
<1>4. u.rows[t] = {} /\ \A s \in Tables \ {t} : u.rows[s] = d.rows[s]
    BY <1>2, <1>3
<1>5. WholeTables(u)
    BY <1>2, <1>3, <1>4, ColumnsMade DEF WholeTables, Tables
<1>6. i # 3 /\ "id" \in DOMAIN u.columns["users"] =>
        \/ /\ "id" \in DOMAIN d.columns["users"]
           /\ u.columns["users"]["id"] = d.columns["users"]["id"]
        \/ i = 1 /\ u.columns["users"]["id"] = "integer"
    BY <1>2, <1>3 DEF IdsStay, Tables
<1>7. Revised(i, d, u)
    BY <1>1, <1>2, <1>3, <1>4, <1>5, <1>6 DEF Revised
<1>8. QED
    BY <1>7 DEF u, e

\* What becomes of the columns of a table, and of the type of its ids.
LEMMA PutStays ==
    ASSUME NEW i, NEW t, NEW d, NEW names, NEW type, "id" \notin names,
           "id" \in DOMAIN d.columns[t]
    PROVE  /\ IsColumns(Typed(names, type) ++ d.columns[t])
           /\ "id" \in DOMAIN (Typed(names, type) ++ d.columns[t])
           /\ IdsStay(i, t, d, Typed(names, type) ++ d.columns[t])
<1>. DEFINE more == Typed(names, type)
            cols == more ++ d.columns[t]
<1>1. DOMAIN more = names
    BY ColumnsMade
<1>. HIDE DEF more
<1>2. IsColumns(cols) /\ DOMAIN cols = names \cup DOMAIN d.columns[t]
    BY <1>1 DEF IsColumns, ++
<1>3. cols["id"] = d.columns[t]["id"]
    BY <1>1 DEF ++
<1>. HIDE DEF cols
<1>4. IdsStay(i, t, d, cols)
    BY <1>2, <1>3 DEF IdsStay
<1>5. QED
    BY <1>2, <1>4 DEF cols, more

LEMMA RenameStays ==
    ASSUME NEW i, NEW t, NEW d, NEW old, NEW new, NEW type, old # "id", new # "id",
           "id" \in DOMAIN d.columns[t]
    PROVE  /\ IsColumns(Without(d.columns[t], {old}) ++ Typed({new}, type))
           /\ "id" \in DOMAIN (Without(d.columns[t], {old}) ++ Typed({new}, type))
           /\ IdsStay(i, t, d, Without(d.columns[t], {old}) ++ Typed({new}, type))
<1>. DEFINE more == Typed({new}, type)
            less == Without(d.columns[t], {old})
            cols == less ++ more
<1>1. DOMAIN more = {new} /\ DOMAIN less = DOMAIN d.columns[t] \ {old}
    BY ColumnsMade
<1>2. less["id"] = d.columns[t]["id"]
    BY DEF Without, Restrict
<1>. HIDE DEF more, less
<1>3. IsColumns(cols) /\ DOMAIN cols = (DOMAIN d.columns[t] \ {old}) \cup {new}
    BY <1>1 DEF IsColumns, ++
<1>4. cols["id"] = less["id"]
    BY <1>1 DEF ++
<1>. HIDE DEF cols
<1>5. IdsStay(i, t, d, cols)
    BY <1>2, <1>3, <1>4 DEF IdsStay
<1>6. QED
    BY <1>3, <1>5 DEF cols, more, less

\* Timestamps that may be null, or not, leave the ids alone.
LEMMA TimedStays ==
    ASSUME NEW i, NEW t, NEW d, "id" \in DOMAIN d.columns[t]
    PROVE  /\ IsColumns(Loosened(d.columns[t])) /\ IsColumns(Tightened(d.columns[t]))
           /\ "id" \in DOMAIN Loosened(d.columns[t]) /\ "id" \in DOMAIN Tightened(d.columns[t])
           /\ IdsStay(i, t, d, Loosened(d.columns[t]))
           /\ IdsStay(i, t, d, Tightened(d.columns[t]))
<1>1. "id" \notin Times
    BY DEF Times
<1>. DEFINE up == Loosened(d.columns[t])
            down == Tightened(d.columns[t])
<1>2. IsColumns(up) /\ "id" \in DOMAIN up /\ up["id"] = d.columns[t]["id"]
    BY <1>1 DEF Loosened, IsColumns
<1>3. IsColumns(down) /\ "id" \in DOMAIN down /\ down["id"] = d.columns[t]["id"]
    BY <1>1 DEF Tightened, IsColumns
<1>. HIDE DEF up, down
<1>4. IdsStay(i, t, d, up) /\ IdsStay(i, t, d, down)
    BY <1>2, <1>3 DEF IdsStay
<1>5. QED
    BY <1>2, <1>3, <1>4 DEF up, down

LEMMA WithoutStays ==
    ASSUME NEW i, NEW t, NEW d, NEW old, old # "id", "id" \in DOMAIN d.columns[t]
    PROVE  /\ IsColumns(Without(d.columns[t], {old}))
           /\ "id" \in DOMAIN Without(d.columns[t], {old})
           /\ IdsStay(i, t, d, Without(d.columns[t], {old}))
<1>. DEFINE less == Without(d.columns[t], {old})
<1>1. IsColumns(less) /\ DOMAIN less = DOMAIN d.columns[t] \ {old}
    BY ColumnsMade
<1>2. less["id"] = d.columns[t]["id"]
    BY DEF Without, Restrict
<1>. HIDE DEF less
<1>3. IdsStay(i, t, d, less)
    BY <1>1, <1>2 DEF IdsStay
<1>4. QED
    BY <1>1, <1>3 DEF less

\* Every upgrade has the shape of Revised.
LEMMA UpgradeRevises ==
    ASSUME NEW d, WellFormed(d), WholeTables(d), NEW i \in 1 .. HeadRevision, Standing(i, d)
    PROVE  Revised(i, d, Upgrade(i, d))
<1>1. /\ "users" \in Tables /\ "teams" \in Tables /\ "team_memberships" \in Tables
      /\ "chat_messages" \in Tables
    BY DEF Tables
<1>2. i \in 1 .. 10
    BY DEF HeadRevision
<1>3. CASE i = 1
    <2>. DEFINE cols == UsersAt(1)
    <2>1. Altered(1) = {"users"}
        BY DEF Altered
    <2>2. IsColumns(cols) /\ "id" \in DOMAIN cols /\ IdsStay(1, "users", d, cols)
        BY CreatedColumns DEF IdsStay
    <2>. HIDE DEF cols
    <2>3. Revised(1, d, With(d, "users", cols))
        BY <1>1, <2>1, <2>2, ColumnsRevised
    <2>4. Upgrade(1, d) = With(d, "users", cols)
        BY Upgrades DEF cols
    <2>5. QED
        BY <1>3, <2>3, <2>4
<1>4. CASE i = 2
    <2>. DEFINE cols == Typed(Times, "time") ++ d.columns["users"]
    <2>1. Altered(2) = {"users"}
        BY DEF Altered
    <2>2. IsColumns(cols) /\ "id" \in DOMAIN cols /\ IdsStay(2, "users", d, cols)
        <3>1. "id" \notin Times
            BY DEF Times
        <3>2. QED
            BY <1>4, <3>1, StandingTables, PutStays
    <2>. HIDE DEF cols
    <2>3. Revised(2, d, With(d, "users", cols))
        BY <1>1, <2>1, <2>2, ColumnsRevised
    <2>4. Upgrade(2, d) = With(d, "users", cols)
        BY Upgrades DEF cols
    <2>5. QED
        BY <1>4, <2>3, <2>4
<1>5. CASE i = 3
    <2>. DEFINE ids == Typed({"id"}, "ulid")
                cols == ids ++ d.columns["users"]
    <2>1. Altered(3) = {"users"}
        BY DEF Altered
    <2>2. IsColumns(cols) /\ "id" \in DOMAIN cols /\ IdsStay(3, "users", d, cols)
        <3>1. DOMAIN ids = {"id"}
            BY ColumnsMade
        <3>. HIDE DEF ids
        <3>2. QED
            BY <3>1 DEF IdsStay, IsColumns, ++
    <2>. HIDE DEF cols
    <2>3. Revised(3, d, With(Emptied(d, "users"), "users", cols))
        BY <1>1, <2>1, <2>2, TableRevised
    <2>4. Upgrade(3, d) = With(Emptied(d, "users"), "users", cols)
        BY Upgrades DEF cols
    <2>5. QED
        BY <1>5, <2>3, <2>4
<1>6. CASE i = 4
    <2>. DEFINE cols == TeamsAt(4)
    <2>1. Altered(4) = {"teams"}
        BY DEF Altered
    <2>2. IsColumns(cols) /\ "id" \in DOMAIN cols /\ IdsStay(4, "teams", d, cols)
        BY CreatedColumns DEF IdsStay
    <2>. HIDE DEF cols
    <2>3. Revised(4, d, With(d, "teams", cols))
        BY <1>1, <2>1, <2>2, ColumnsRevised
    <2>4. Upgrade(4, d) = With(d, "teams", cols)
        BY Upgrades DEF cols
    <2>5. QED
        BY <1>6, <2>3, <2>4
<1>7. CASE i = 5
    <2>. DEFINE cols == Without(d.columns["users"], {"name"}) ++ Typed({"display_name"}, "text")
    <2>1. Altered(5) = {"users"}
        BY DEF Altered
    <2>2. IsColumns(cols) /\ "id" \in DOMAIN cols /\ IdsStay(5, "users", d, cols)
        BY <1>7, StandingTables, RenameStays
    <2>. HIDE DEF cols
    <2>3. Revised(5, d, With(d, "users", cols))
        BY <1>1, <2>1, <2>2, ColumnsRevised
    <2>4. Upgrade(5, d) = With(d, "users", cols)
        BY Upgrades DEF cols
    <2>5. QED
        BY <1>7, <2>3, <2>4
<1>8. CASE i = 6
    <2>. DEFINE cols == Typed({"version"}, "integer") ++ d.columns["teams"]
    <2>1. Altered(6) = {"teams"}
        BY DEF Altered
    <2>2. IsColumns(cols) /\ "id" \in DOMAIN cols /\ IdsStay(6, "teams", d, cols)
        BY <1>8, StandingTables, PutStays
    <2>. HIDE DEF cols
    <2>3. Revised(6, d, With(d, "teams", cols))
        BY <1>1, <2>1, <2>2, ColumnsRevised
    <2>4. Upgrade(6, d) = With(d, "teams", cols)
        BY Upgrades DEF cols
    <2>5. QED
        BY <1>8, <2>3, <2>4
<1>9. CASE i = 7
    <2>. DEFINE cols == Typed({"version"}, "integer") ++ d.columns["users"]
    <2>1. Altered(7) = {"users"}
        BY DEF Altered
    <2>2. IsColumns(cols) /\ "id" \in DOMAIN cols /\ IdsStay(7, "users", d, cols)
        BY <1>9, StandingTables, PutStays
    <2>. HIDE DEF cols
    <2>3. Revised(7, d, With(d, "users", cols))
        BY <1>1, <2>1, <2>2, ColumnsRevised
    <2>4. Upgrade(7, d) = With(d, "users", cols)
        BY Upgrades DEF cols
    <2>5. QED
        BY <1>9, <2>3, <2>4
<1>10. CASE i = 8
    <2>. DEFINE cols == Loosened(d.columns["users"])
                p == With(d, "team_memberships", MembershipsAt(8))
                u == With(p, "users", cols)
    <2>1. Altered(8) = {"users", "team_memberships"}
        BY DEF Altered
    <2>2. IsColumns(cols) /\ "id" \in DOMAIN cols /\ IdsStay(8, "users", d, cols)
        BY <1>10, StandingTables, TimedStays
    <2>3. IsColumns(MembershipsAt(8)) /\ "id" \in DOMAIN MembershipsAt(8)
        BY CreatedColumns
    <2>4. WellFormed(p) /\ WellFormed(u)
        BY <1>1, <2>2, <2>3, WithIsWellFormed
    <2>5. Upgrade(8, d) = u
        BY Upgrades
    <2>. HIDE DEF cols
    <2>6. /\ p.revision = d.revision /\ p.index = d.index /\ p.rows = d.rows
          /\ p.periods = d.periods /\ p.columns["team_memberships"] = MembershipsAt(8)
          /\ \A s \in Tables \ {"team_memberships"} : p.columns[s] = d.columns[s]
        BY <1>1, WithFields
    <2>. HIDE DEF p
    <2>7. /\ u.revision = p.revision /\ u.index = p.index /\ u.rows = p.rows
          /\ u.periods = p.periods /\ u.columns["users"] = cols
          /\ \A s \in Tables \ {"users"} : u.columns[s] = p.columns[s]
        BY ONLY <1>1, WithFields DEF u
    <2>. HIDE DEF u
    <2>8. WholeTables(u)
        BY <2>2, <2>3, <2>6, <2>7, ColumnsMade DEF WholeTables, Tables
    <2>9. Revised(8, d, u)
        BY <2>1, <2>2, <2>4, <2>6, <2>7, <2>8 DEF Revised, IdsStay
    <2>10. QED
        BY <1>10, <2>5, <2>9
<1>11. CASE i = 9
    <2>. DEFINE cols == MessagesAt(9)
    <2>1. Altered(9) = {"chat_messages"}
        BY DEF Altered
    <2>2. IsColumns(cols) /\ "id" \in DOMAIN cols /\ IdsStay(9, "chat_messages", d, cols)
        BY CreatedColumns DEF IdsStay
    <2>. HIDE DEF cols
    <2>3. Revised(9, d, With(d, "chat_messages", cols))
        BY <1>1, <2>1, <2>2, ColumnsRevised
    <2>4. Upgrade(9, d) = With(d, "chat_messages", cols)
        BY Upgrades DEF cols
    <2>5. QED
        BY <1>11, <2>3, <2>4
<1>12. CASE i = 10
    <2>1. Altered(10) = {"team_memberships"}
        BY DEF Altered
    <2>2. Upgrade(10, d) = Indexed(d, TRUE)
        BY Upgrades
    <2>. DEFINE u == Indexed(d, TRUE)
    <2>3. WellFormed(u)
        BY DEF WellFormed, Indexed
    <2>4. /\ u.revision = d.revision /\ u.columns = d.columns /\ u.rows = d.rows
          /\ u.periods = d.periods
        BY DEF Indexed
    <2>. HIDE DEF u
    <2>5. WholeTables(u)
        BY <2>4 DEF WholeTables
    <2>6. Revised(10, d, u)
        BY <2>1, <2>3, <2>4, <2>5 DEF Revised, HeadRevision
    <2>7. QED
        BY <1>12, <2>2, <2>6 DEF u
<1>13. QED
    BY <1>2, <1>3, <1>4, <1>5, <1>6, <1>7, <1>8, <1>9, <1>10, <1>11, <1>12

\* So has every downgrade.
LEMMA DowngradeRevises ==
    ASSUME NEW d, WellFormed(d), WholeTables(d), NEW i \in 1 .. HeadRevision, Standing(i, d)
    PROVE  Revised(i, d, Downgrade(i, d))
<1>1. /\ "users" \in Tables /\ "teams" \in Tables /\ "team_memberships" \in Tables
      /\ "chat_messages" \in Tables
    BY DEF Tables
<1>2. i \in 1 .. 10
    BY DEF HeadRevision
<1>3. CASE i = 1
    <2>. DEFINE cols == << >>
    <2>1. Altered(1) = {"users"}
        BY DEF Altered
    <2>2. IsColumns(cols) /\ cols = << >> /\ IdsStay(1, "users", d, cols)
        BY ColumnsMade DEF IdsStay
    <2>. HIDE DEF cols
    <2>3. Revised(1, d, With(Emptied(d, "users"), "users", cols))
        BY <1>1, <2>1, <2>2, TableRevised
    <2>4. Downgrade(1, d) = With(Emptied(d, "users"), "users", cols)
        BY Downgrades DEF cols
    <2>5. QED
        BY <1>3, <2>3, <2>4
<1>4. CASE i = 2
    <2>. DEFINE cols == Typed(Times, "text or null") ++ d.columns["users"]
    <2>1. Altered(2) = {"users"}
        BY DEF Altered
    <2>2. IsColumns(cols) /\ "id" \in DOMAIN cols /\ IdsStay(2, "users", d, cols)
        <3>1. "id" \notin Times
            BY DEF Times
        <3>2. QED
            BY <1>4, <3>1, StandingTables, PutStays
    <2>. HIDE DEF cols
    <2>3. Revised(2, d, With(d, "users", cols))
        BY <1>1, <2>1, <2>2, ColumnsRevised
    <2>4. Downgrade(2, d) = With(d, "users", cols)
        BY Downgrades DEF cols
    <2>5. QED
        BY <1>4, <2>3, <2>4
<1>5. CASE i = 3
    <2>. DEFINE ids == Typed({"id"}, "integer")
                cols == ids ++ d.columns["users"]
    <2>1. Altered(3) = {"users"}
        BY DEF Altered
    <2>2. IsColumns(cols) /\ "id" \in DOMAIN cols /\ IdsStay(3, "users", d, cols)
        <3>1. DOMAIN ids = {"id"}
            BY ColumnsMade
        <3>. HIDE DEF ids
        <3>2. QED
            BY <3>1 DEF IdsStay, IsColumns, ++
    <2>. HIDE DEF cols
    <2>3. Revised(3, d, With(Emptied(d, "users"), "users", cols))
        BY <1>1, <2>1, <2>2, TableRevised
    <2>4. Downgrade(3, d) = With(Emptied(d, "users"), "users", cols)
        BY Downgrades DEF cols
    <2>5. QED
        BY <1>5, <2>3, <2>4
<1>6. CASE i = 4
    <2>. DEFINE cols == << >>
    <2>1. Altered(4) = {"teams"}
        BY DEF Altered
    <2>2. IsColumns(cols) /\ cols = << >> /\ IdsStay(4, "teams", d, cols)
        BY ColumnsMade DEF IdsStay
    <2>. HIDE DEF cols
    <2>3. Revised(4, d, With(Emptied(d, "teams"), "teams", cols))
        BY <1>1, <2>1, <2>2, TableRevised
    <2>4. Downgrade(4, d) = With(Emptied(d, "teams"), "teams", cols)
        BY Downgrades DEF cols
    <2>5. QED
        BY <1>6, <2>3, <2>4
<1>7. CASE i = 5
    <2>. DEFINE cols == Without(d.columns["users"], {"display_name"}) ++ Typed({"name"}, "text")
    <2>1. Altered(5) = {"users"}
        BY DEF Altered
    <2>2. IsColumns(cols) /\ "id" \in DOMAIN cols /\ IdsStay(5, "users", d, cols)
        BY <1>7, StandingTables, RenameStays
    <2>. HIDE DEF cols
    <2>3. Revised(5, d, With(d, "users", cols))
        BY <1>1, <2>1, <2>2, ColumnsRevised
    <2>4. Downgrade(5, d) = With(d, "users", cols)
        BY Downgrades DEF cols
    <2>5. QED
        BY <1>7, <2>3, <2>4
<1>8. CASE i = 6
    <2>. DEFINE cols == Without(d.columns["teams"], {"version"})
    <2>1. Altered(6) = {"teams"}
        BY DEF Altered
    <2>2. IsColumns(cols) /\ "id" \in DOMAIN cols /\ IdsStay(6, "teams", d, cols)
        BY <1>8, StandingTables, WithoutStays
    <2>. HIDE DEF cols
    <2>3. Revised(6, d, With(d, "teams", cols))
        BY <1>1, <2>1, <2>2, ColumnsRevised
    <2>4. Downgrade(6, d) = With(d, "teams", cols)
        BY Downgrades DEF cols
    <2>5. QED
        BY <1>8, <2>3, <2>4
<1>9. CASE i = 7
    <2>. DEFINE cols == Without(d.columns["users"], {"version"})
    <2>1. Altered(7) = {"users"}
        BY DEF Altered
    <2>2. IsColumns(cols) /\ "id" \in DOMAIN cols /\ IdsStay(7, "users", d, cols)
        BY <1>9, StandingTables, WithoutStays
    <2>. HIDE DEF cols
    <2>3. Revised(7, d, With(d, "users", cols))
        BY <1>1, <2>1, <2>2, ColumnsRevised
    <2>4. Downgrade(7, d) = With(d, "users", cols)
        BY Downgrades DEF cols
    <2>5. QED
        BY <1>9, <2>3, <2>4
<1>10. CASE i = 8
    <2>. DEFINE cols == Tightened(d.columns["users"])
                p == With(d, "users", cols)
                q == Emptied(p, "team_memberships")
                u == With(q, "team_memberships", << >>)
    <2>1. Altered(8) = {"users", "team_memberships"}
        BY DEF Altered
    <2>2. IsColumns(cols) /\ "id" \in DOMAIN cols /\ IdsStay(8, "users", d, cols)
        BY <1>10, StandingTables, TimedStays
    <2>3. WellFormed(p) /\ WellFormed(u)
        BY <1>1, <2>2, ColumnsMade, WithIsWellFormed, EmptiedIsWellFormed
    <2>4. Downgrade(8, d) = u
        BY Downgrades
    <2>. HIDE DEF cols
    <2>5. /\ p.revision = d.revision /\ p.index = d.index /\ p.rows = d.rows
          /\ p.periods = d.periods /\ p.columns["users"] = cols
          /\ \A s \in Tables \ {"users"} : p.columns[s] = d.columns[s]
        BY <1>1, WithFields
    <2>. HIDE DEF p
    <2>6. /\ q.revision = p.revision /\ ~q.index /\ q.columns = p.columns
          /\ q.rows = [s \in Tables |-> IF s = "team_memberships" THEN {} ELSE p.rows[s]]
          /\ q.periods = Empty.periods
        BY EmptiedFields
    <2>. HIDE DEF q
    <2>7. /\ u.revision = q.revision /\ u.index = q.index /\ u.rows = q.rows
          /\ u.periods = q.periods /\ u.columns["team_memberships"] = << >>
          /\ \A s \in Tables \ {"team_memberships"} : u.columns[s] = q.columns[s]
        BY <1>1, WithFields
    <2>. HIDE DEF u
    <2>8. /\ u.rows["team_memberships"] = {}
          /\ \A s \in Tables \ {"team_memberships"} : u.rows[s] = d.rows[s]
        BY <1>1, <2>5, <2>6, <2>7
    <2>9. u.columns["users"] = cols
        BY <1>1, <2>5, <2>6, <2>7
    <2>10. WholeTables(u)
        BY <2>2, <2>5, <2>6, <2>7, <2>8, <2>9, ColumnsMade DEF WholeTables, Tables
    <2>11. Revised(8, d, u)
        BY <2>1, <2>2, <2>3, <2>5, <2>6, <2>7, <2>8, <2>9, <2>10 DEF Revised, IdsStay
    <2>12. QED
        BY <1>10, <2>4, <2>11
<1>11. CASE i = 9
    <2>. DEFINE cols == << >>
    <2>1. Altered(9) = {"chat_messages"}
        BY DEF Altered
    <2>2. IsColumns(cols) /\ cols = << >> /\ IdsStay(9, "chat_messages", d, cols)
        BY ColumnsMade DEF IdsStay
    <2>. HIDE DEF cols
    <2>3. Revised(9, d, With(Emptied(d, "chat_messages"), "chat_messages", cols))
        BY <1>1, <2>1, <2>2, TableRevised
    <2>4. Downgrade(9, d) = With(Emptied(d, "chat_messages"), "chat_messages", cols)
        BY Downgrades DEF cols
    <2>5. QED
        BY <1>11, <2>3, <2>4
<1>12. CASE i = 10
    <2>1. Altered(10) = {"team_memberships"}
        BY DEF Altered
    <2>2. Downgrade(10, d) = Indexed(d, FALSE)
        BY Downgrades
    <2>. DEFINE u == Indexed(d, FALSE)
    <2>3. WellFormed(u)
        BY DEF WellFormed, Indexed
    <2>4. /\ u.revision = d.revision /\ u.columns = d.columns /\ u.rows = d.rows
          /\ u.periods = d.periods
        BY DEF Indexed
    <2>. HIDE DEF u
    <2>5. WholeTables(u)
        BY <2>4 DEF WholeTables
    <2>6. Revised(10, d, u)
        BY <2>1, <2>3, <2>4, <2>5 DEF Revised, HeadRevision
    <2>7. QED
        BY <1>12, <2>2, <2>6 DEF u
<1>13. QED
    BY <1>2, <1>3, <1>4, <1>5, <1>6, <1>7, <1>8, <1>9, <1>10, <1>11, <1>12

-----------------------------------------------------------------------------
(* The chain in closed form *)

Next1(G) == [i \in 0 .. HeadRevision |-> IF i = 0 THEN Empty ELSE Upgrade(i, G[i - 1])]

Link(k) ==
    [revision |-> 0, columns |-> ColumnsAt(k), index |-> k = HeadRevision,
     rows |-> Empty.rows, periods |-> Empty.periods]
Chain == [k \in 0 .. HeadRevision |-> Link(k)]

LEMMA LinksAreWellFormed ==
    ASSUME NEW k \in 0 .. HeadRevision
    PROVE  WellFormed(Link(k)) /\ WholeTables(Link(k))
<1>1. /\ Link(k).columns = ColumnsAt(k) /\ Link(k).revision = 0
      /\ Link(k).rows = [t \in Tables |-> {}] /\ Link(k).periods = Empty.periods
    BY DEF Link, Empty
<1>2. WholeTables(Link(k))
    BY <1>1, ColumnsAtTell DEF WholeTables
<1>3. Link(k) = [revision |-> Link(k).revision, columns |-> Link(k).columns,
                 index |-> Link(k).index, rows |-> Link(k).rows, periods |-> Link(k).periods]
      /\ Link(k).index \in BOOLEAN
    BY DEF Link
<1>4. 0 \in 0 .. HeadRevision
    BY DEF HeadRevision
<1>5. WellFormed(Link(k))
    BY <1>1, <1>3, <1>4, NoPeriods, ColumnsAtMakes, ColumnsAtAreColumns DEF WellFormed
<1>6. QED
    BY <1>2, <1>5

\* The chain in closed form begins as SchemaAt does and goes on as it does.
LEMMA LinksConnect ==
    /\ Link(0) = Empty
    /\ \A i \in 1 .. HeadRevision : Upgrade(i, Link(i - 1)) = Link(i)
<1>1. Link(0) = Empty
    <2>1. UsersAt(0) = << >> /\ TeamsAt(0) = << >> /\ MembershipsAt(0) = << >>
          /\ MessagesAt(0) = << >> /\ 0 # HeadRevision
        BY DEF UsersAt, TeamsAt, MembershipsAt, MessagesAt, HeadRevision
    <2>2. ColumnsAt(0) = [t \in Tables |-> << >>]
        BY <2>1, ColumnsAtMakes DEF Tables
    <2>3. QED
        BY <2>1, <2>2 DEF Link, Empty
<1>2. ASSUME NEW i \in 1 .. HeadRevision
      PROVE  Upgrade(i, Link(i - 1)) = Link(i)
    <2>. DEFINE d == Link(i - 1)
                u == Upgrade(i, d)
    <2>1. i - 1 \in 0 .. HeadRevision /\ i - 1 # HeadRevision
        BY DEF HeadRevision
    <2>2. /\ d.columns = ColumnsAt(i - 1) /\ d.revision = 0 /\ d.index = FALSE
          /\ d.rows = [t \in Tables |-> {}] /\ d.periods = Empty.periods
        BY <2>1 DEF Link, Empty
    <2>3. WellFormed(d) /\ WholeTables(d)
        BY <2>1, LinksAreWellFormed
    <2>. HIDE DEF d
    <2>4. u.columns = ColumnsAt(i) /\ Revised(i, d, u)
        <3>1. \A t \in Altered(i) : t \in Tables /\ i >= Born(t) /\ Born(t) \in Int
            BY BornByThen
        <3>2. Standing(i, d)
            BY <2>1, <2>2, <3>1, ColumnsAtTell DEF Standing
        <3>3. QED
            BY <2>2, <2>3, <3>2, UpgradeIsExact, UpgradeRevises
    <2>5. u.index = (i = HeadRevision)
        <3>1. CASE i = HeadRevision
            <4>1. u = Indexed(d, TRUE)
                BY <2>3, <3>1, Upgrades DEF HeadRevision
            <4>2. u.index = TRUE
                BY <4>1 DEF Indexed
            <4>3. QED
                BY <3>1, <4>2
        <3>2. CASE i # HeadRevision
            BY <2>2, <2>4, <3>2 DEF Revised, WellFormed
        <3>3. QED
            BY <3>1, <3>2
    <2>. HIDE DEF u
    <2>6. u.rows = Empty.rows /\ u.periods = Empty.periods /\ u.revision = 0
        BY <2>2, <2>4 DEF Revised, WellFormed, Empty
    <2>7. u = Link(i)
        BY <2>4, <2>5, <2>6 DEF Revised, WellFormed, Link
    <2>8. QED
        BY <2>7 DEF u, d
<1>3. QED
    BY <1>1, <1>2

\* The schema of every revision, as ColumnsAt tells it.
LEMMA SchemasAreLinks == ASSUME NEW k \in 0 .. HeadRevision PROVE SchemaAt[k] = Link(k)
<1>1. Chain = Next1(Chain)
    <2>1. \A i \in 1 .. HeadRevision : i - 1 \in 0 .. HeadRevision /\ Chain[i - 1] = Link(i - 1)
        BY DEF Chain, HeadRevision
    <2>2. ASSUME NEW i \in 0 .. HeadRevision
          PROVE  (IF i = 0 THEN Empty ELSE Upgrade(i, Chain[i - 1])) = Link(i)
        <3>1. CASE i = 0
            BY <3>1, LinksConnect
        <3>2. CASE i # 0
            <4>1. i \in 1 .. HeadRevision
                BY <3>2
            <4>2. QED
                BY <2>1, <3>2, <4>1, LinksConnect
        <3>3. QED
            BY <3>1, <3>2
    <2>3. QED
        BY <2>2 DEF Chain, Next1
<1>2. SchemaAt = Next1(SchemaAt)
    BY <1>1 DEF SchemaAt, Next1
<1>3. SchemaAt[0] = Empty
    BY <1>2 DEF Next1, HeadRevision
<1>4. ASSUME NEW i \in 1 .. HeadRevision, SchemaAt[i - 1] = Link(i - 1)
      PROVE  SchemaAt[i] = Link(i)
    <2>1. i \in 0 .. HeadRevision /\ i # 0
        BY DEF HeadRevision
    <2>2. SchemaAt[i] = Next1(SchemaAt)[i]
        BY <1>2
    <2>3. Next1(SchemaAt)[i] = Upgrade(i, SchemaAt[i - 1])
        BY <2>1 DEF Next1
    <2>4. QED
        BY <1>4, <2>2, <2>3, LinksConnect
<1>5. SchemaAt[0] = Link(0)
    BY <1>3, LinksConnect
<1>6. SchemaAt[1] = Link(1)
    <2>1. 1 \in 1 .. HeadRevision /\ 1 - 1 = 0
        BY DEF HeadRevision
    <2>2. QED
        BY <1>4, <1>5, <2>1
<1>7. SchemaAt[2] = Link(2)
    <2>1. 2 \in 1 .. HeadRevision /\ 2 - 1 = 1
        BY DEF HeadRevision
    <2>2. QED
        BY <1>4, <1>6, <2>1
<1>8. SchemaAt[3] = Link(3)
    <2>1. 3 \in 1 .. HeadRevision /\ 3 - 1 = 2
        BY DEF HeadRevision
    <2>2. QED
        BY <1>4, <1>7, <2>1
<1>9. SchemaAt[4] = Link(4)
    <2>1. 4 \in 1 .. HeadRevision /\ 4 - 1 = 3
        BY DEF HeadRevision
    <2>2. QED
        BY <1>4, <1>8, <2>1
<1>10. SchemaAt[5] = Link(5)
    <2>1. 5 \in 1 .. HeadRevision /\ 5 - 1 = 4
        BY DEF HeadRevision
    <2>2. QED
        BY <1>4, <1>9, <2>1
<1>11. SchemaAt[6] = Link(6)
    <2>1. 6 \in 1 .. HeadRevision /\ 6 - 1 = 5
        BY DEF HeadRevision
    <2>2. QED
        BY <1>4, <1>10, <2>1
<1>12. SchemaAt[7] = Link(7)
    <2>1. 7 \in 1 .. HeadRevision /\ 7 - 1 = 6
        BY DEF HeadRevision
    <2>2. QED
        BY <1>4, <1>11, <2>1
<1>13. SchemaAt[8] = Link(8)
    <2>1. 8 \in 1 .. HeadRevision /\ 8 - 1 = 7
        BY DEF HeadRevision
    <2>2. QED
        BY <1>4, <1>12, <2>1
<1>14. SchemaAt[9] = Link(9)
    <2>1. 9 \in 1 .. HeadRevision /\ 9 - 1 = 8
        BY DEF HeadRevision
    <2>2. QED
        BY <1>4, <1>13, <2>1
<1>15. SchemaAt[10] = Link(10)
    <2>1. 10 \in 1 .. HeadRevision /\ 10 - 1 = 9
        BY DEF HeadRevision
    <2>2. QED
        BY <1>4, <1>14, <2>1
<1>16. k \in 0 .. 10
    BY DEF HeadRevision
<1>17. QED
    BY <1>5, <1>6, <1>7, <1>8, <1>9, <1>10, <1>11, <1>12, <1>13, <1>14, <1>15, <1>16

\* What a database shows at each revision.
LEMMA SchemaTold ==
    /\ ClosedForm
    /\ ColumnsAt(HeadRevision) = OrmColumns
<1>1. ClosedForm
    <2>1. ASSUME NEW k \in 0 .. HeadRevision
          PROVE  SchemaAt[k].columns = ColumnsAt(k) /\ SchemaAt[k].index = (k = HeadRevision)
        <3>1. SchemaAt[k] = Link(k)
            BY SchemasAreLinks
        <3>2. QED
            BY <3>1 DEF Link
    <2>2. QED
        BY <2>1 DEF ClosedForm
<1>2. ColumnsAt(HeadRevision) = OrmColumns
    <2>1. UsersAt(10) = OrmColumns.users
        BY DEF UsersAt, Types, Times, OrmColumns, ++, Typed
    <2>2. TeamsAt(10) = OrmColumns.teams
        BY DEF TeamsAt, Types, Times, HeadRevision, OrmColumns, ++, Typed
    <2>3. MembershipsAt(10) = OrmColumns.team_memberships
          /\ MessagesAt(10) = OrmColumns.chat_messages
        BY DEF MembershipsAt, MessagesAt
    <2>4. OrmColumns = [t \in Tables |-> OrmColumns[t]]
        BY DEF OrmColumns, Tables
    <2>5. \A t \in Tables : ColumnsAt(HeadRevision)[t] = OrmColumns[t]
        BY <2>1, <2>2, <2>3, ColumnsAtMakes DEF Tables, HeadRevision
    <2>6. QED
        BY <2>4, <2>5, ColumnsAtMakes
<1>3. QED
    BY <1>1, <1>2

-----------------------------------------------------------------------------
(* What a revision leaves is sound again *)

At(d, r) ==
    [revision |-> r, columns |-> d.columns, index |-> d.index,
     rows |-> d.rows, periods |-> d.periods]

LEMMA AtMakes ==
    ASSUME NEW d, WellFormed(d), NEW r \in 0 .. HeadRevision
    PROVE  [d EXCEPT !.revision = r] = At(d, r) /\ WellFormed(At(d, r))
<1>1. [d EXCEPT !.revision = r] = At(d, r)
    BY DEF WellFormed, At
<1>2. WellFormed(At(d, r))
    BY DEF WellFormed, At
<1>3. QED
    BY <1>1, <1>2

LEMMA AtFields ==
    /\ \A d, r : At(d, r).revision = r
    /\ \A d, r : At(d, r).columns = d.columns
    /\ \A d, r : At(d, r).index = d.index
    /\ \A d, r : At(d, r).rows = d.rows
    /\ \A d, r : At(d, r).periods = d.periods
BY DEF At

\* What fits a revision has the tables that it does not make, and going down the
\* index that it drops.
LEMMA FitTells ==
    ASSUME NEW d, NEW i \in 1 .. HeadRevision
    PROVE  /\ Fits(i, SchemaAt[i - 1], SchemaAt[i], d) => Standing(i, d)
           /\ Fits(i, SchemaAt[i], SchemaAt[i - 1], d) =>
                Standing(i, d) /\ (i = HeadRevision => d.index = TRUE)
<1>1. i \in 0 .. HeadRevision /\ i - 1 \in 0 .. HeadRevision /\ i - 1 # HeadRevision /\ i \in Int
    BY DEF HeadRevision
<1>2. /\ SchemaAt[i].columns = ColumnsAt(i) /\ SchemaAt[i - 1].columns = ColumnsAt(i - 1)
      /\ SchemaAt[i].index = (i = HeadRevision) /\ SchemaAt[i - 1].index = FALSE
    BY <1>1, SchemaTold DEF ClosedForm
<1>3. ASSUME NEW t \in Altered(i), i # Born(t)
      PROVE  ColumnsAt(i)[t] # << >> /\ ColumnsAt(i - 1)[t] # << >>
    <2>1. t \in Tables /\ i >= Born(t) /\ Born(t) \in Int
        BY BornByThen
    <2>2. ~(i < Born(t)) /\ ~(i - 1 < Born(t))
        BY <1>1, <1>3, <2>1
    <2>3. QED
        BY <1>1, <2>1, <2>2, ColumnsAtTell
<1>4. ASSUME Fits(i, SchemaAt[i - 1], SchemaAt[i], d) PROVE Standing(i, d)
    BY <1>2, <1>3, <1>4, ColumnsMade DEF Fits, Standing
<1>5. ASSUME Fits(i, SchemaAt[i], SchemaAt[i - 1], d)
      PROVE  Standing(i, d) /\ (i = HeadRevision => d.index = TRUE)
    <2>1. Standing(i, d)
        BY <1>2, <1>3, <1>5, ColumnsMade DEF Fits, Standing
    <2>2. i = HeadRevision => SchemaAt[i].index = TRUE
        BY <1>2
    <2>3. i = HeadRevision => d.index = SchemaAt[i].index
        BY <1>2, <1>5, <2>2 DEF Fits
    <2>4. QED
        BY <2>1, <2>2, <2>3
<1>6. QED
    BY <1>4, <1>5

\* When the ids of users change type.
LEMMA Rekeys ==
    ASSUME NEW d, WellFormed(d)
    PROVE  /\ Upgrade(3, d).columns["users"]["id"] = "ulid"
           /\ Downgrade(3, d).columns["users"]["id"] = "integer"
<1>1. "users" \in Tables
    BY DEF Tables
<1>2. ASSUME NEW e, NEW cols, NEW type
      PROVE  With(e, "users", Typed({"id"}, type) ++ cols).columns["users"]["id"] = type
    <2>1. (Typed({"id"}, type) ++ cols)["id"] = type
        BY DEF ++, Typed
    <2>2. QED
        BY <1>1, <2>1, WithFields
<1>3. Upgrade(3, d) =
        With(Emptied(d, "users"), "users", Typed({"id"}, "ulid") ++ d.columns["users"])
    BY Upgrades
<1>4. Downgrade(3, d) =
        With(Emptied(d, "users"), "users", Typed({"id"}, "integer") ++ d.columns["users"])
    BY Downgrades
<1>5. QED
    BY <1>2, <1>3, <1>4

\* No revision makes duplicates.
LEMMA NoDuplicatesStay ==
    ASSUME NEW d, NEW u, ~Duplicates(d), u.periods = d.periods \/ u.periods = Empty.periods
    PROVE  ~Duplicates(u)
BY DEF Duplicates, Empty

\* The common part of the next two lemmas; r is the revision that is recorded.
LEMMA RevisedIsGood ==
    ASSUME NEW d, NEW u, NEW i \in 1 .. HeadRevision, Good(d), Revised(i, d, u),
           NEW r \in 0 .. HeadRevision,
           i = HeadRevision => ~Duplicates(d),
           IF i = 3
           THEN u.columns["users"]["id"] = IF r < 3 THEN "integer" ELSE "ulid"
           ELSE (d.revision < 3) = (r < 3) /\ (i = 1 => r < 3)
    PROVE  Good(At(u, r))
<1>. DEFINE e == At(u, r)
<1>1. /\ e.revision = r /\ e.columns = u.columns /\ e.index = u.index
      /\ e.rows = u.rows /\ e.periods = u.periods
    BY AtFields
<1>2. WellFormed(e)
    BY AtMakes DEF Revised
<1>. HIDE DEF e
<1>3. WholeTables(e)
    BY <1>1 DEF Revised, WholeTables
<1>4. IdsAreTyped(e)
    BY <1>1 DEF Revised, IdsAreTyped, Good
<1>5. e.index => ~Duplicates(e)
    <2>1. ASSUME e.index PROVE ~Duplicates(d)
        BY <1>1, <2>1 DEF Revised, Good
    <2>2. e.periods = d.periods \/ e.periods = Empty.periods
        BY <1>1 DEF Revised
    <2>3. QED
        BY <2>1, <2>2, NoDuplicatesStay
<1>6. Good(e)
    BY <1>2, <1>3, <1>4, <1>5 DEF Good
<1>7. QED
    BY <1>6 DEF e

\* An upgrade that its guard admits leaves a good database, recorded or not.
LEMMA UpgradeIsGood ==
    ASSUME NEW d, NEW i \in 1 .. HeadRevision, Good(d), d.revision = i - 1,
           Fits(i, SchemaAt[i - 1], SchemaAt[i], d), i = HeadRevision => ~Duplicates(d)
    PROVE  /\ Revised(i, d, Upgrade(i, d))
           /\ [Upgrade(i, d) EXCEPT !.revision = i] = At(Upgrade(i, d), i)
           /\ Good(At(Upgrade(i, d), i))
           /\ i # 3 => Good(Upgrade(i, d))
<1>. DEFINE u == Upgrade(i, d)
<1>1. Revised(i, d, u)
    BY FitTells, UpgradeRevises DEF Good
<1>2. i = 3 => u.columns["users"]["id"] = "ulid"
    BY Rekeys DEF Good
<1>. HIDE DEF u
<1>3. i \in 0 .. HeadRevision /\ i - 1 \in 0 .. HeadRevision /\ i \in Int
    BY DEF HeadRevision
<1>4. [u EXCEPT !.revision = i] = At(u, i)
    BY <1>1, <1>3, AtMakes DEF Revised
<1>5. Good(At(u, i))
    BY <1>1, <1>2, <1>3, RevisedIsGood
<1>6. ASSUME i # 3 PROVE Good(u)
    <2>1. u = At(u, i - 1)
        BY <1>1 DEF Revised, WellFormed, At
    <2>2. Good(At(u, i - 1))
        BY <1>1, <1>3, <1>6, RevisedIsGood
    <2>3. QED
        BY <2>1, <2>2
<1>7. QED
    BY <1>1, <1>4, <1>5, <1>6 DEF u

\* So does a downgrade.
LEMMA DowngradeIsGood ==
    ASSUME NEW d, NEW i \in 1 .. HeadRevision, Good(d), d.revision = i,
           Fits(i, SchemaAt[i], SchemaAt[i - 1], d)
    PROVE  /\ Revised(i, d, Downgrade(i, d))
           /\ [Downgrade(i, d) EXCEPT !.revision = i - 1] = At(Downgrade(i, d), i - 1)
           /\ Good(At(Downgrade(i, d), i - 1))
           /\ i # 3 => Good(Downgrade(i, d))
<1>. DEFINE u == Downgrade(i, d)
<1>1. Revised(i, d, u)
    BY FitTells, DowngradeRevises DEF Good
<1>2. i = 3 => u.columns["users"]["id"] = "integer"
    BY Rekeys DEF Good
<1>. HIDE DEF u
<1>3. i \in 0 .. HeadRevision /\ i - 1 \in 0 .. HeadRevision /\ i \in Int
    BY DEF HeadRevision
<1>4. [u EXCEPT !.revision = i - 1] = At(u, i - 1)
    BY <1>1, <1>3, AtMakes DEF Revised
<1>5. i = HeadRevision => ~Duplicates(d)
    BY FitTells DEF Good
<1>6. Good(At(u, i - 1))
    BY <1>1, <1>2, <1>3, <1>5, RevisedIsGood
<1>7. ASSUME i # 3 PROVE Good(u)
    <2>1. u = At(u, i)
        BY <1>1 DEF Revised, WellFormed, At
    <2>2. Good(At(u, i))
        BY <1>1, <1>3, <1>5, <1>7, RevisedIsGood
    <2>3. QED
        BY <2>1, <2>2
<1>8. QED
    BY <1>1, <1>4, <1>6, <1>7 DEF u

\* The two ways to say that a schema is exact.
LEMMA ExactButNothing ==
    ASSUME NEW d, WellFormed(d)
    PROVE  /\ ExactBut(d, {}) => Exact(d)
           /\ \A ts : Exact(d) => ExactBut(d, ts)
<1>1. ExactBut(d, {}) => Exact(d)
    BY ColumnsAtMakes DEF ExactBut, Exact, WellFormed
<1>2. QED
    BY <1>1 DEF ExactBut, Exact

\* Of an exact schema, the revision tells which tables there are, and that users
\* have an id.
LEMMA ExactTells ==
    ASSUME NEW d, WellFormed(d), Exact(d)
    PROVE  /\ \A t \in Tables : d.columns[t] = << >> <=> d.revision < Born(t)
           /\ d.revision >= 1 => "id" \in DOMAIN d.columns["users"]
<1>1. d.revision \in 0 .. HeadRevision /\ d.columns = ColumnsAt(d.revision)
    BY DEF WellFormed, Exact
<1>2. \A t \in Tables : d.columns[t] = << >> <=> d.revision < Born(t)
    BY <1>1, ColumnsAtTell
<1>3. "users" \in Tables /\ Born("users") = 1
    BY DEF Tables, Born
<1>4. d.revision >= 1 => "id" \in DOMAIN d.columns["users"]
    <2>1. ~(d.revision < 1) => "id" \in DOMAIN d.columns["users"]
        BY <1>1, <1>3, ColumnsAtTell
    <2>2. d.revision \in 0 .. 10
        BY <1>1 DEF HeadRevision
    <2>3. QED
        BY <2>1, <2>2
<1>5. QED
    BY <1>2, <1>4

\* On PostgreSQL a revision starts from an exact schema and makes another; parties
\* go when there are no periods left, or none yet.
LEMMA RevisedKeepsParties ==
    ASSUME NEW d, NEW i \in 1 .. HeadRevision, NEW u, Revised(i, d, u), HaveParties(d),
           NEW r \in 0 .. HeadRevision, Exact(At(u, r)), i = 3 => r < 8
    PROVE  HaveParties(At(u, r))
<1>. DEFINE e == At(u, r)
<1>1. /\ e.revision = r /\ e.columns = u.columns /\ e.index = u.index
      /\ e.rows = u.rows /\ e.periods = u.periods
    BY AtFields
<1>2. WellFormed(e) /\ Exact(e)
    BY AtMakes DEF Revised
<1>. SUFFICES HaveParties(e)
    OBVIOUS
<1>. HIDE DEF e
<1>3. \A t \in Tables : u.columns[t] = << >> <=> r < Born(t)
    BY <1>1, <1>2, ExactTells
<1>4. r < 8 => \A p \in Periods : u.periods[p] = NoPeriod
    BY <1>3 DEF Revised, WholeTables, Born, Tables, Empty
<1>5. CASE r < 8
    BY <1>1, <1>4, <1>5 DEF HaveParties
<1>6. CASE ~(r < 8)
    <2>1. u.columns["users"] # << >> /\ u.columns["teams"] # << >>
        BY <1>3, <1>6 DEF Born, Tables, HeadRevision
    <2>2. u.rows["users"] = d.rows["users"] /\ u.rows["teams"] = d.rows["teams"]
        BY <1>6, <2>1 DEF Revised, Tables
    <2>3. \A p \in Periods : u.periods[p] # NoPeriod => u.periods[p] = d.periods[p]
        BY DEF Revised, Empty
    <2>4. QED
        BY <1>1, <2>2, <2>3 DEF HaveParties
<1>7. QED
    BY <1>5, <1>6

\* A table that is as the revision has it is so again after the next one, or before
\* this one, whatever state the others are in; and parties stay with periods.
LEMMA UpgradeIsSound ==
    ASSUME NEW d, NEW i \in 1 .. HeadRevision, Good(d), d.revision = i - 1,
           Fits(i, SchemaAt[i - 1], SchemaAt[i], d), i = HeadRevision => ~Duplicates(d),
           NEW ts, ExactBut(d, ts)
    PROVE  /\ ExactBut(At(Upgrade(i, d), i), ts)
           /\ Exact(d) /\ HaveParties(d) => HaveParties(At(Upgrade(i, d), i))
<1>. DEFINE u == Upgrade(i, d)
            e == Link(i - 1)
<1>1. i \in 0 .. HeadRevision /\ i - 1 \in 0 .. HeadRevision /\ i - 1 # HeadRevision
    BY DEF HeadRevision
<1>2. WellFormed(d) /\ WellFormed(e) /\ e.columns = ColumnsAt(i - 1)
    BY <1>1, LinksAreWellFormed DEF Good, Link
<1>3. ASSUME NEW t \in Tables, d.columns[t] = ColumnsAt(i - 1)[t]
      PROVE  u.columns[t] = ColumnsAt(i)[t]
    <2>. HIDE DEF e
    <2>1. u.columns[t] = Upgrade(i, e).columns[t]
        BY <1>2, <1>3, RevisionsAreLocal
    <2>2. QED
        BY <1>2, <2>1, UpgradeIsExact
<1>4. Revised(i, d, u)
    BY UpgradeIsGood
<1>5. i = HeadRevision => u.index = TRUE
    <2>1. Upgrade(10, d) = Indexed(d, TRUE)
        BY <1>2, Upgrades
    <2>2. Upgrade(10, d).index = TRUE
        BY <2>1 DEF Indexed
    <2>3. QED
        BY <2>2 DEF HeadRevision
<1>. HIDE DEF u
<1>6. "team_memberships" \notin ts => u.index = (i = HeadRevision)
    BY <1>1, <1>4, <1>5 DEF ExactBut, Revised, WellFormed
<1>7. ExactBut(At(u, i), ts)
    BY <1>3, <1>6, AtFields DEF ExactBut
<1>8. ASSUME Exact(d), HaveParties(d) PROVE HaveParties(At(u, i))
    <2>1. u.columns = ColumnsAt(i)
        BY <1>2, <1>3, <1>4, <1>8, ColumnsAtMakes DEF Exact, Revised, WellFormed
    <2>2. u.index = (i = HeadRevision)
        BY <1>1, <1>4, <1>5, <1>8 DEF Exact, Revised, WellFormed
    <2>3. Exact(At(u, i))
        BY <2>1, <2>2, AtFields DEF Exact
    <2>4. QED
        BY <1>1, <1>4, <1>8, <2>3, RevisedKeepsParties
<1>9. QED
    BY <1>7, <1>8 DEF u

LEMMA DowngradeIsSound ==
    ASSUME NEW d, NEW i \in 1 .. HeadRevision, Good(d), d.revision = i,
           Fits(i, SchemaAt[i], SchemaAt[i - 1], d), NEW ts, ExactBut(d, ts)
    PROVE  /\ ExactBut(At(Downgrade(i, d), i - 1), ts)
           /\ Exact(d) /\ HaveParties(d) => HaveParties(At(Downgrade(i, d), i - 1))
<1>. DEFINE u == Downgrade(i, d)
            e == Link(i)
<1>1. i \in 0 .. HeadRevision /\ i - 1 \in 0 .. HeadRevision /\ i - 1 # HeadRevision
    BY DEF HeadRevision
<1>2. WellFormed(d) /\ WellFormed(e) /\ e.columns = ColumnsAt(i)
    BY <1>1, LinksAreWellFormed DEF Good, Link
<1>3. ASSUME NEW t \in Tables, d.columns[t] = ColumnsAt(i)[t]
      PROVE  u.columns[t] = ColumnsAt(i - 1)[t]
    <2>. HIDE DEF e
    <2>1. u.columns[t] = Downgrade(i, e).columns[t]
        BY <1>2, <1>3, RevisionsAreLocal
    <2>2. QED
        BY <1>2, <2>1, DowngradeIsExact
<1>4. Revised(i, d, u)
    BY DowngradeIsGood
<1>5. i = HeadRevision => u.index = FALSE
    <2>1. Downgrade(10, d) = Indexed(d, FALSE)
        BY <1>2, Downgrades
    <2>2. Downgrade(10, d).index = FALSE
        BY <2>1 DEF Indexed
    <2>3. QED
        BY <2>2 DEF HeadRevision
<1>. HIDE DEF u
<1>6. ASSUME d.index = (d.revision = HeadRevision) PROVE u.index = FALSE
    <2>1. i # HeadRevision => d.index = FALSE
        BY <1>6
    <2>2. QED
        BY <1>4, <1>5, <2>1 DEF Revised, WellFormed
<1>7. ExactBut(At(u, i - 1), ts)
    BY <1>1, <1>3, <1>6 DEF ExactBut, At
<1>8. ASSUME Exact(d), HaveParties(d) PROVE HaveParties(At(u, i - 1))
    <2>1. u.columns = ColumnsAt(i - 1)
        BY <1>2, <1>3, <1>4, <1>8, ColumnsAtMakes DEF Exact, Revised, WellFormed
    <2>2. u.index = FALSE
        BY <1>6, <1>8 DEF Exact
    <2>3. Exact(At(u, i - 1))
        BY <1>1, <2>1, <2>2 DEF Exact, At
    <2>4. QED
        BY <1>1, <1>4, <1>8, <2>3, RevisedKeepsParties
<1>9. QED
    BY <1>7, <1>8 DEF u

\* A revision that is applied and not recorded scars the tables it has altered.
LEMMA ScarredIsSound ==
    ASSUME NEW d, NEW ts, ExactBut(d, ts), NEW u, NEW scar, u.revision = d.revision,
           \A t \in Tables \ scar : u.columns[t] = d.columns[t],
           "team_memberships" \notin scar => u.index = d.index
    PROVE  ExactBut(u, ts \cup scar)
BY DEF ExactBut

-----------------------------------------------------------------------------
(* What is stored and what is seen *)

\* The tables ts as v has them, the others as they are.
Merged(v, ts, rs, ps) ==
    [revision |-> v.revision, columns |-> v.columns, index |-> v.index,
     rows |-> [t \in Tables |-> IF t \in ts THEN v.rows[t] ELSE rs[t]],
     periods |-> IF "team_memberships" \in ts THEN v.periods ELSE ps]

LEMMA MergedMakes ==
    ASSUME NEW v, WellFormed(v), NEW ts, NEW all, NEW ps
    PROVE  [v EXCEPT !.rows = all, !.periods = IF "team_memberships" \in ts THEN @ ELSE ps]
            = [revision |-> v.revision, columns |-> v.columns, index |-> v.index, rows |-> all,
               periods |-> IF "team_memberships" \in ts THEN v.periods ELSE ps]
<1>. DEFINE now == IF "team_memberships" \in ts THEN v.periods ELSE ps
            half == [v EXCEPT !.rows = all]
<1>1. [v EXCEPT !.rows = all, !.periods = IF "team_memberships" \in ts THEN @ ELSE ps]
        = [half EXCEPT !.periods = now]
    OBVIOUS
<1>. HIDE DEF now
<1>2. half = [revision |-> v.revision, columns |-> v.columns, index |-> v.index,
              rows |-> all, periods |-> v.periods]
    BY DEF WellFormed
<1>. HIDE DEF half
<1>3. [half EXCEPT !.periods = now] =
        [revision |-> v.revision, columns |-> v.columns, index |-> v.index,
         rows |-> all, periods |-> now]
    BY <1>2
<1>. USE DEF now, half
<1>4. QED
    BY <1>1, <1>3

Managed == Transactional /\ Running

\* Seen, as one record.
LEMMA SeenIs ==
    /\ ~Managed => Seen = Stored
    /\ Managed /\ WellFormed(view) => Seen = Merged(view, touched, rows, periods)
<1>1. ~Managed => Seen = Stored
    BY DEF Managed, Seen
<1>2. ASSUME Managed, WellFormed(view) PROVE Seen = Merged(view, touched, rows, periods)
    <2>. DEFINE all == [t \in Tables |-> IF t \in touched THEN view.rows[t] ELSE rows[t]]
    <2>1. Seen = [view EXCEPT !.rows = all,
                              !.periods = IF "team_memberships" \in touched THEN @ ELSE periods]
        BY <1>2 DEF Managed, Seen
    <2>. HIDE DEF all
    <2>2. Seen = [revision |-> view.revision, columns |-> view.columns, index |-> view.index,
                  rows |-> all,
                  periods |-> IF "team_memberships" \in touched THEN view.periods ELSE periods]
        BY <1>2, <2>1, MergedMakes
    <2>3. QED
        BY <2>2 DEF Merged, all
<1>3. QED
    BY <1>1, <1>2

LEMMA SeenNext ==
    /\ ~Managed' => Seen' = Stored'
    /\ Managed' /\ WellFormed(view') => Seen' = Merged(view', touched', rows', periods')
<1>1. ~Managed' => Seen' = Stored'
    BY DEF Managed, Seen
<1>2. ASSUME Managed', WellFormed(view')
      PROVE  Seen' = Merged(view', touched', rows', periods')
    <2>. DEFINE all == [t \in Tables |-> IF t \in touched' THEN view'.rows[t] ELSE rows'[t]]
    <2>1. Seen' = [view' EXCEPT !.rows = all,
                                !.periods = IF "team_memberships" \in touched' THEN @ ELSE periods']
        BY <1>2 DEF Managed, Seen
    <2>. HIDE DEF all
    <2>2. Seen' = [revision |-> view'.revision, columns |-> view'.columns,
                   index |-> view'.index, rows |-> all,
                   periods |-> IF "team_memberships" \in touched' THEN view'.periods ELSE periods']
        BY <1>2, <2>1, MergedMakes
    <2>3. QED
        BY <2>2 DEF Merged, all
<1>3. QED
    BY <1>1, <1>2

LEMMA StoredFields ==
    /\ Stored.revision = revision /\ Stored.columns = columns /\ Stored.index = index
    /\ Stored.rows = rows /\ Stored.periods = periods
BY DEF Stored

LEMMA MergedFields ==
    ASSUME NEW v, NEW ts, NEW rs, NEW ps
    PROVE  LET m == Merged(v, ts, rs, ps) IN
           /\ m.revision = v.revision /\ m.columns = v.columns /\ m.index = v.index
           /\ \A t \in Tables : m.rows[t] = IF t \in ts THEN v.rows[t] ELSE rs[t]
           /\ m.periods = IF "team_memberships" \in ts THEN v.periods ELSE ps
BY DEF Merged

LEMMA InstallMakes ==
    ASSUME NEW d, WellFormed(d), Install(d)
    PROVE  Stored' = d
BY DEF WellFormed, Install, Stored

\* What every invariant state says of Seen.
LEMMA SeenOfInv ==
    ASSUME MInv, Managed
    PROVE  /\ Seen.revision = view.revision /\ Seen.columns = view.columns
           /\ Seen.index = view.index
           /\ \A t \in Tables \ touched : Seen.rows[t] = rows[t]
           /\ "team_memberships" \notin touched => Seen.periods = periods
           /\ \A t \in Tables \ touched : Seen.columns[t] = columns[t]
           /\ "team_memberships" \notin touched => Seen.index = index
<1>1. WellFormed(view)
    BY DEF MInv, RunInOrder, Managed
<1>2. Seen = Merged(view, touched, rows, periods)
    BY <1>1, SeenIs
<1>3. QED
    BY <1>2, MergedFields DEF MInv, LocksHold, Managed

-----------------------------------------------------------------------------
(* The steps of a command *)

LEMMA TargetsAreNumbers == \A target \in Targets : target \in 0 .. 10 /\ target \in Int
BY TargetsAssumption

\* On PostgreSQL: revision i, applied to what the command sees.
LEMMA ManagedStep ==
    ASSUME MInv, Managed, NEW i \in 1 .. HeadRevision, NEW u, NEW r \in 0 .. HeadRevision,
           Revised(i, Seen, u), Good(At(u, r)), Exact(At(u, r)), HaveParties(At(u, r)),
           CanAlter(Altered(i)),
           \/ r = i /\ Seen.revision = i - 1 /\ Seen.revision < run.target
           \/ r = i - 1 /\ Seen.revision = i /\ Seen.revision > run.target,
           view' = At(u, r), touched' = touched \cup Altered(i),
           UNCHANGED <<database, run, dialect, joins, torn>>
    PROVE  MInv'
<1>. DEFINE e == At(u, r)
<1>1. /\ e.revision = r /\ e.columns = u.columns /\ e.index = u.index
      /\ e.rows = u.rows /\ e.periods = u.periods
    BY AtFields
<1>2. Good(e) /\ Exact(e) /\ HaveParties(e) /\ WellFormed(e) /\ view' = e
    BY DEF Good
<1>. HIDE DEF e
<1>3. Stored' = Stored /\ Managed' /\ UNCHANGED <<revision, columns, index, rows, periods>>
    BY DEF Stored, database, schema, Managed, Transactional, Running
<1>4. Altered(i) \subseteq Tables
    BY AlteredTables
<1>5. Seen' = e
    <2>1. Seen' = Merged(e, touched', rows, periods)
        BY <1>2, <1>3, SeenNext
    <2>2. \A t \in Tables \ touched' : e.rows[t] = rows[t]
        BY <1>1, SeenOfInv DEF Revised
    <2>3. "team_memberships" \notin touched' => e.periods = periods
        BY <1>1, SeenOfInv DEF Revised
    <2>4. Merged(e, touched', rows, periods) = e
        BY <1>2, <2>2, <2>3 DEF WellFormed, Merged
    <2>5. QED
        BY <2>1, <2>4
<1>6. view.revision = Seen.revision /\ revision \in 0 .. 10 /\ i \in 1 .. 10 /\ run.target \in Int
    <2>1. run.target \in Targets
        BY DEF MInv, RunInOrder, Managed, Running, Runs
    <2>2. revision \in 0 .. HeadRevision
        BY StoredFields DEF MInv, Sound, Good, WellFormed
    <2>3. view.revision = Seen.revision
        BY SeenOfInv
    <2>4. run.target \in Int
        BY ONLY <2>1, TargetsAreNumbers
    <2>5. QED
        BY <2>2, <2>3, <2>4 DEF HeadRevision
<1>7. RunInOrder'
    <2>1. \/ revision <= r /\ r <= run.target
          \/ run.target <= r /\ r <= revision
        BY <1>6 DEF MInv, RunInOrder, Managed
    <2>2. QED
        BY <1>1, <1>2, <1>3, <1>4, <2>1 DEF MInv, RunInOrder, Managed, Transactional, Running
<1>8. Sound(Stored)'
    BY <1>3 DEF MInv, Sound, Transactional
<1>9. Sound(Seen)'
    BY <1>2, <1>5, ExactButNothing DEF Sound
<1>10. LocksHold'
    <2>1. \A t \in Tables \ touched' : e.columns[t] = columns[t]
        BY <1>1, SeenOfInv DEF Revised
    <2>2. "team_memberships" \notin touched' => e.index = index
        BY <1>1, SeenOfInv DEF Revised
    <2>3. \A h \in Handlers : Uses(h)' = Uses(h)
        BY DEF Uses
    <2>4. \A h \in Handlers : Uses(h) \cap touched' = {}
        BY DEF CanAlter, Managed, MInv, LocksHold
    <2>5. QED
        BY <1>2, <1>3, <2>1, <2>2, <2>3, <2>4 DEF LocksHold
<1>11. WellFormed(Stored) /\ Exact(Stored)
    BY ExactButNothing DEF Managed, MInv, RunInOrder, Sound, Good
<1>12. \A t \in Tables : columns[t] = << >> <=> revision < Born(t)
    BY <1>11, StoredFields, ExactTells
<1>13. \A t \in Tables : e.columns[t] = << >> <=> r < Born(t)
    BY <1>1, <1>2, ExactTells
<1>14. RowsStay'
    <2>1. ASSUME NEW t \in Tables
          PROVE  rows[t] \subseteq e.rows[t] \/ Lost(t, revision, r)
        <3>1. rows[t] \subseteq Seen.rows[t] \/ Lost(t, revision, view.revision)
            BY DEF MInv, RowsStay, Managed
        <3>2. CASE e.rows[t] = Seen.rows[t] /\ rows[t] \subseteq Seen.rows[t]
            BY <3>2
        <3>3. CASE e.rows[t] = {} /\ e.columns[t] = << >>
            BY <1>13, <3>3 DEF Lost
        <3>4. CASE e.rows[t] = {} /\ i = 3 /\ t = "users"
            <4>1. \/ r = 3 /\ revision <= 2
                  \/ r = 2 /\ revision >= 3
                BY <1>6, <3>4 DEF MInv, RunInOrder, Managed
            <4>2. QED
                BY <1>6, <3>4, <4>1 DEF Lost
        <3>5. CASE Lost(t, revision, view.revision)
            <4>1. Born(t) \in Int
                BY DEF Born, Tables
            <4>2. revision < Born(t) => rows[t] = {}
                BY <1>12, StoredFields DEF MInv, Sound, Good, WholeTables
            <4>3. CASE revision < Born(t)
                BY <4>2, <4>3
            <4>4. CASE revision >= Born(t)
                BY <1>6, <3>5, <4>1, <4>4 DEF MInv, RunInOrder, Managed, Lost
            <4>5. QED
                BY <1>6, <4>1, <4>3, <4>4
        <3>6. QED
            BY <1>1, <3>1, <3>2, <3>3, <3>4, <3>5 DEF Revised
    <2>2. ASSUME NEW p \in Periods, periods[p] # NoPeriod
          PROVE  e.periods[p] # NoPeriod \/ r < 8
        <3>1. Born("team_memberships") = 8 /\ "team_memberships" \in Tables
            BY DEF Born, Tables
        <3>2. Seen.periods[p] # NoPeriod \/ view.revision < 8
            BY <2>2, <3>1 DEF MInv, RowsStay, Managed, Exists
        <3>3. ~(revision < 8)
            BY <1>12, <2>2, <3>1, StoredFields DEF MInv, Sound, Good, WholeTables, Empty
        <3>4. CASE view.revision < 8
            BY <1>6, <3>3, <3>4 DEF MInv, RunInOrder, Managed
        <3>5. CASE e.periods = Empty.periods /\ e.columns["team_memberships"] = << >>
            BY <1>13, <3>1, <3>5
        <3>6. QED
            BY <1>1, <3>2, <3>4, <3>5 DEF Revised
    <2>3. Born("team_memberships") = 8
        BY DEF Born
    <2>4. QED
        BY <1>1, <1>2, <1>3, <1>5, <2>1, <2>2, <2>3 DEF RowsStay, Exists
<1>15. JoinsInOrder'
    BY <1>3 DEF MInv, JoinsInOrder, Writing, Current, Exists, Transactional
<1>16. QED
    BY <1>7, <1>8, <1>9, <1>10, <1>14, <1>15 DEF MInv

\* On SQLite: revision i, whose record may be missing.
LEMMA CommittedStep ==
    ASSUME MInv, ~Transactional, Running, NEW i \in 1 .. HeadRevision, NEW u, NEW e,
           Revised(i, Stored, u), e.columns = u.columns, Good(e), CanAlter(Altered(i)),
           Install(e), torn' \subseteq Tables, ExactBut(e, torn'),
           UNCHANGED <<dialect, joins>>,
           UNCHANGED runner \/ EndRun
    PROVE  MInv'
<1>1. Stored' = e
    BY InstallMakes DEF Good
<1>2. ~Transactional' /\ ~Managed'
    BY DEF Transactional, Managed
<1>3. Seen' = e
    BY <1>1, <1>2, SeenNext
<1>4. touched = {} /\ touched' = {}
    BY DEF MInv, RunInOrder, runner, EndRun
<1>5. RunInOrder'
    BY <1>2, <1>4 DEF MInv, RunInOrder, Managed, Running, Transactional, runner, EndRun
<1>6. Sound(Stored)' /\ Sound(Seen)'
    BY <1>1, <1>2, <1>3 DEF Sound
<1>7. LocksHold' /\ RowsStay'
    BY <1>2 DEF LocksHold, RowsStay, Managed
<1>8. \A h \in Handlers : ~Writing(h)'
    BY DEF CanAlter, Writing
<1>9. JoinsInOrder'
    BY <1>2, <1>8 DEF JoinsInOrder
<1>10. QED
    BY <1>5, <1>6, <1>7, <1>9 DEF MInv

\* A command that begins, is refused or given up sees what is stored.
LEMMA SeesWhatIsStored ==
    ASSUME MInv, UNCHANGED <<dialect, database, joins, torn>>, touched' = {},
           Managed' => view' = Stored, run' \in Runs \cup {NoRun}
    PROVE  MInv'
<1>1. Stored' = Stored /\ UNCHANGED <<revision, columns, index, rows, periods>>
    BY DEF Stored, database, schema
<1>2. WellFormed(Stored) /\ revision \in 0 .. 10
    BY StoredFields DEF MInv, Sound, Good, WellFormed, HeadRevision
<1>3. Seen' = Stored
    <2>1. CASE Managed'
        <3>1. Seen' = Merged(Stored, {}, rows, periods)
            BY <1>1, <1>2, <2>1, SeenNext
        <3>2. Merged(Stored, {}, rows, periods) = Stored
            BY <1>2, StoredFields DEF Merged, WellFormed
        <3>3. QED
            BY <3>1, <3>2
    <2>2. CASE ~Managed'
        BY <1>1, <2>2, SeenNext
    <2>3. QED
        BY <2>1, <2>2
<1>4. RunInOrder'
    <2>1. ASSUME Managed'
          PROVE  /\ WellFormed(view') /\ view'.revision = revision
                 /\ revision <= run'.target \/ run'.target <= revision
        <3>1. run'.target \in Targets
            BY <2>1 DEF Managed, Running, Runs
        <3>2. run'.target \in Int
            BY ONLY <3>1, TargetsAreNumbers
        <3>3. QED
            BY <1>2, <2>1, <3>2, StoredFields
    <2>2. QED
        BY <1>1, <1>2, <2>1 DEF MInv, RunInOrder, Managed, Transactional
<1>5. Sound(Stored)' /\ Sound(Seen)'
    BY <1>1, <1>3 DEF MInv, Sound, Transactional
<1>6. LocksHold'
    BY <1>1, StoredFields DEF LocksHold, Managed
<1>7. RowsStay'
    BY <1>1, <1>3, StoredFields DEF RowsStay, Exists, Managed
<1>8. JoinsInOrder'
    BY <1>1 DEF MInv, JoinsInOrder, Writing, Current, Exists, Transactional
<1>9. QED
    BY <1>4, <1>5, <1>6, <1>7, <1>8 DEF MInv

RowsKept ==
    /\ \A t \in Tables :
        \/ rows[t] \subseteq rows'[t]
        \/ columns'[t] = << >>
        \/ columns[t]["id"] # columns'[t]["id"]
    /\ \A p \in Periods :
        Exists(p) => Exists(p)' \/ columns'["team_memberships"] = << >>

LEMMA UnchangedRowsAreKept ==
    ASSUME UNCHANGED <<rows, periods>>
    PROVE  RowsKept
BY DEF RowsKept, Exists

\* alembic upgrade and downgrade begin.
LEMMA StartKeeps ==
    ASSUME MInv, NEW target \in Targets, NEW offline \in BOOLEAN, Start(target, offline)
    PROVE  MInv' /\ RowsKept
<1>1. touched' = {} /\ (Managed' => view' = Stored) /\ run' \in Runs
    BY DEF Start, MInv, RunInOrder, Managed, Transactional, Runs
<1>2. MInv'
    BY <1>1, SeesWhatIsStored DEF Start
<1>3. RowsKept
    BY UnchangedRowsAreKept DEF Start, database
<1>4. QED
    BY <1>2, <1>3

\* A statement of the command fails, or its process dies.
LEMMA AbortKeeps ==
    ASSUME MInv, Abort
    PROVE  MInv' /\ RowsKept
<1>1. ~Managed' /\ touched' = {} /\ run' = NoRun
    BY DEF Abort, EndRun, Managed, Running
<1>2. MInv'
    BY <1>1, SeesWhatIsStored DEF Abort
<1>3. RowsKept
    BY UnchangedRowsAreKept DEF Abort, database
<1>4. QED
    BY <1>2, <1>3

\* The check for duplicates, passed or not.
LEMMA PreflightKeeps ==
    ASSUME MInv, Preflight
    PROVE  MInv' /\ RowsKept
<1>1. RowsKept
    BY UnchangedRowsAreKept DEF Preflight, database
<1>2. CASE EndRun
    <2>1. ~Managed' /\ touched' = {} /\ run' = NoRun
        BY <1>2 DEF EndRun, Managed, Running
    <2>2. MInv'
        BY <2>1, SeesWhatIsStored DEF Preflight
    <2>3. QED
        BY <1>1, <2>2
<1>3. CASE run' = [run EXCEPT !.checked = TRUE] /\ UNCHANGED <<view, touched>>
    <2>1. run \in Runs
        BY DEF Preflight, Upgrading, Running, MInv, RunInOrder
    <2>2. run' \in Runs /\ run'.target = run.target
        BY <1>3, <2>1 DEF Runs
    <2>3. NoRun \notin Runs
        <3>1. \A target \in Targets : target # -1
            BY TargetsAreNumbers
        <3>2. QED
            BY <3>1 DEF NoRun, Runs
    <2>4. Managed' = Managed /\ Running' = Running
        BY <2>1, <2>2, <2>3 DEF Managed, Running, Transactional, Preflight
    <2>5. UNCHANGED <<dialect, revision, columns, index, rows, periods, view, touched, joins, torn>>
        BY <1>3 DEF Preflight, database, schema
    <2>6. Stored' = Stored
        BY <2>5 DEF Stored
    <2>7. Seen' = Seen
        <3>1. Managed \/ ~Managed
            OBVIOUS
        <3>2. Managed => WellFormed(view)
            BY DEF MInv, RunInOrder, Managed
        <3>3. QED
            BY <2>4, <2>5, <2>6, <3>1, <3>2, SeenIs, SeenNext
    <2>8. RunInOrder'
        BY <2>2, <2>4, <2>5 DEF MInv, RunInOrder, Transactional
    <2>9. Sound(Stored)' /\ Sound(Seen)'
        BY <2>5, <2>6, <2>7 DEF MInv, Sound, Transactional
    <2>10. LocksHold'
        BY <2>4, <2>5 DEF MInv, LocksHold, Uses, Transactional, Managed
    <2>11. RowsStay'
        BY <2>4, <2>5, <2>7 DEF MInv, RowsStay, Exists, Managed
    <2>12. JoinsInOrder'
        BY <2>5 DEF MInv, JoinsInOrder, Writing, Current, Exists, Transactional
    <2>13. QED
        BY <1>1, <2>8, <2>9, <2>10, <2>11, <2>12 DEF MInv
<1>4. QED
    BY <1>2, <1>3 DEF Preflight

\* The change of ids of users, as their columns show it.
LEMMA LostMeansChanged ==
    ASSUME MInv, Managed, NEW t \in Tables, Lost(t, revision, view.revision)
    PROVE  \/ rows[t] = {}
           \/ Seen.columns[t] = << >>
           \/ columns[t]["id"] # Seen.columns[t]["id"]
<1>1. /\ Good(Stored) /\ Exact(Stored) /\ Good(Seen) /\ Exact(Seen)
      /\ Seen.revision = view.revision
    BY SeenOfInv, ExactButNothing DEF MInv, RunInOrder, Sound, Managed, Good
<1>2. revision \in 0 .. 10 /\ view.revision \in 0 .. 10
    BY <1>1, StoredFields DEF Good, WellFormed, HeadRevision
<1>3. /\ columns[t] = << >> <=> revision < Born(t)
      /\ Seen.columns[t] = << >> <=> view.revision < Born(t)
      /\ revision >= 1 => "id" \in DOMAIN columns["users"]
      /\ view.revision >= 1 => "id" \in DOMAIN Seen.columns["users"]
    BY <1>1, StoredFields, ExactTells DEF Good
<1>4. columns[t] = << >> => rows[t] = {}
    BY <1>1, StoredFields DEF Good, WholeTables
<1>5. CASE view.revision < Born(t)
    BY <1>3, <1>5
<1>6. CASE t = "users" /\ (revision < 3) # (view.revision < 3)
    <2>1. Born("users") = 1
        BY DEF Born
    <2>2. CASE revision >= 1 /\ view.revision >= 1
        BY <1>1, <1>3, <1>6, <2>2, StoredFields DEF Good, IdsAreTyped
    <2>3. CASE ~(revision >= 1 /\ view.revision >= 1)
        BY <1>2, <1>3, <1>4, <1>6, <2>1, <2>3
    <2>4. QED
        BY <2>2, <2>3
<1>7. QED
    BY <1>5, <1>6 DEF Lost

\* PostgreSQL commits what the command has seen; SQLite has nothing left to do.
LEMMA FinishKeeps ==
    ASSUME MInv, Finish
    PROVE  MInv' /\ RowsKept
<1>1. WellFormed(Seen) /\ UNCHANGED <<dialect, joins, torn>> /\ ~Managed' /\ touched' = {}
      /\ run' = NoRun
    BY DEF Finish, EndRun, MInv, Sound, Good, Managed, Running
<1>2. Stored' = Seen
    BY <1>1, InstallMakes DEF Finish
<1>3. Seen' = Seen
    BY <1>1, <1>2, SeenNext
<1>4. /\ revision' = Seen.revision /\ columns' = Seen.columns /\ index' = Seen.index
      /\ rows' = Seen.rows /\ periods' = Seen.periods
    BY DEF Finish, Install
<1>5. RunInOrder'
    BY <1>1 DEF MInv, RunInOrder, Managed, Transactional, Running
<1>6. Sound(Stored)' /\ Sound(Seen)'
    BY <1>1, <1>2, <1>3 DEF MInv, Sound, Transactional
<1>7. LocksHold' /\ RowsStay'
    BY <1>1 DEF LocksHold, RowsStay, Managed
<1>8. CASE ~Managed
    <2>1. UNCHANGED <<revision, columns, index, rows, periods>>
        BY <1>4, <1>8, SeenIs, StoredFields
    <2>2. JoinsInOrder'
        BY <1>1, <2>1 DEF MInv, JoinsInOrder, Writing, Current, Exists, Transactional
    <2>3. RowsKept
        BY <2>1, UnchangedRowsAreKept
    <2>4. QED
        BY <1>5, <1>6, <1>7, <2>2, <2>3 DEF MInv
<1>9. CASE Managed
    <2>1. \A h \in Handlers : Uses(h) \cap touched = {}
        BY <1>9 DEF MInv, LocksHold, Managed
    <2>2. ASSUME NEW h \in Handlers, joins[h].place # "idle"
          PROVE  rows'["users"] = rows["users"] /\ rows'["teams"] = rows["teams"]
        <3>1. joins[h].place \in {"found", "inserted"}
            BY <2>2 DEF MInv, RunInOrder, Joining, Idle
        <3>2. "users" \notin touched /\ "teams" \notin touched
            BY <2>1, <3>1 DEF Uses
        <3>3. QED
            BY <1>4, <1>9, <3>2, SeenOfInv DEF Tables
    <2>3. ASSUME NEW h \in Handlers, Writing(h)
          PROVE  /\ columns'["team_memberships"] = columns["team_memberships"]
                 /\ index' = index /\ periods' = periods
        <3>1. "team_memberships" \notin touched
            BY <2>1, <2>3 DEF Uses, Writing
        <3>2. QED
            BY <1>4, <1>9, <3>1, SeenOfInv DEF Tables
    <2>4. JoinsInOrder'
        BY <1>1, <2>2, <2>3 DEF MInv, JoinsInOrder, Writing, Current, Exists, Transactional
    <2>5. RowsKept
        <3>1. ASSUME NEW t \in Tables
              PROVE  \/ rows[t] \subseteq rows'[t]
                     \/ columns'[t] = << >>
                     \/ columns[t]["id"] # columns'[t]["id"]
            BY <1>4, <1>9, LostMeansChanged DEF MInv, RowsStay, Managed
        <3>2. ASSUME NEW p \in Periods, Exists(p)
              PROVE  Exists(p)' \/ columns'["team_memberships"] = << >>
            <4>1. Seen.periods[p] # NoPeriod \/ Seen.revision < Born("team_memberships")
                BY <1>9, <3>2, SeenOfInv DEF MInv, RowsStay, Managed
            <4>2. Exact(Seen)
                BY <1>1, <1>9, ExactButNothing DEF MInv, RunInOrder, Sound, Managed
            <4>3. "team_memberships" \in Tables
                BY DEF Tables
            <4>4. QED
                BY <1>1, <1>4, <4>1, <4>2, <4>3, ExactTells DEF Exists
        <3>3. QED
            BY <3>1, <3>2 DEF RowsKept
    <2>6. QED
        BY <1>5, <1>6, <1>7, <2>4, <2>5 DEF MInv
<1>10. QED
    BY <1>8, <1>9

-----------------------------------------------------------------------------
(* The steps of a command *)

\* A revision committed by itself loses no rows but with their table or their type.
LEMMA RevisionKeepsRows ==
    ASSUME NEW i, NEW u, Revised(i, Stored, u),
           rows' = u.rows, columns' = u.columns, periods' = u.periods,
           i = 3 => columns["users"]["id"] # u.columns["users"]["id"]
    PROVE  RowsKept
<1>1. ASSUME NEW t \in Tables
      PROVE  \/ rows[t] \subseteq rows'[t]
             \/ columns'[t] = << >>
             \/ columns[t]["id"] # columns'[t]["id"]
    BY StoredFields DEF Revised
<1>2. \/ periods' = periods
      \/ columns'["team_memberships"] = << >>
    BY StoredFields DEF Revised
<1>3. QED
    BY <1>1, <1>2 DEF RowsKept, Exists

\* Before and after the third revision the ids of users have different types.
LEMMA RekeyedFrom ==
    ASSUME NEW d, Good(d), Standing(3, d)
    PROVE  /\ d.revision = 2 => d.columns["users"]["id"] # Upgrade(3, d).columns["users"]["id"]
           /\ d.revision = 3 => d.columns["users"]["id"] # Downgrade(3, d).columns["users"]["id"]
<1>1. "id" \in DOMAIN d.columns["users"]
    BY StandingTables DEF Good, HeadRevision
<1>2. /\ d.revision = 2 => d.columns["users"]["id"] = "integer"
      /\ d.revision = 3 => d.columns["users"]["id"] = "ulid"
    BY <1>1 DEF Good, IdsAreTyped
<1>3. QED
    BY <1>2, Rekeys DEF Good

\* What a command that may upgrade or downgrade sees.
LEMMA SeenIsSound ==
    ASSUME MInv
    PROVE  /\ Good(Seen) /\ Good(Stored)
           /\ Managed => Exact(Seen) /\ HaveParties(Seen)
           /\ ~Managed => Seen = Stored
           /\ ExactBut(Seen, torn)
           /\ torn \subseteq Tables
<1>1. ~Managed => Seen = Stored
    BY SeenIs
<1>2. WellFormed(Seen)
    BY DEF MInv, Sound, Good
<1>3. QED
    BY <1>1, <1>2, ExactButNothing DEF MInv, Sound, RunInOrder, Managed

\* A revision is applied, within a transaction or by itself.
LEMMA StepUpKeeps ==
    ASSUME MInv, NEW i \in 1 .. HeadRevision, StepUp(i)
    PROVE  MInv' /\ RowsKept
<1>. DEFINE u == Upgrade(i, Seen)
<1>1. /\ Running /\ Seen.revision < run.target /\ i = Seen.revision + 1
      /\ Fits(i, SchemaAt[i - 1], SchemaAt[i], Seen)
      /\ CanAlter(Altered(i)) /\ (i = HeadRevision => ~Duplicates(Seen))
    BY DEF StepUp, MayUpgrade, Upgrading
<1>2. Seen.revision = i - 1 /\ i \in 0 .. HeadRevision
    <2>1. Seen.revision \in 0 .. 10
        BY SeenIsSound DEF Good, WellFormed, HeadRevision
    <2>2. QED
        BY <1>1, <2>1 DEF HeadRevision
<1>3. /\ Revised(i, Seen, u) /\ Good(At(u, i))
      /\ [u EXCEPT !.revision = i] = At(u, i)
    BY <1>1, <1>2, SeenIsSound, UpgradeIsGood
<1>4. /\ ExactBut(At(u, i), torn)
      /\ Exact(Seen) /\ HaveParties(Seen) => HaveParties(At(u, i))
    BY <1>1, <1>2, SeenIsSound, UpgradeIsSound
<1>5. i = 3 => Seen.columns["users"]["id"] # u.columns["users"]["id"]
    <2>1. i = 3 => Seen.revision = 2
        BY <1>2
    <2>2. QED
        BY <1>1, <2>1, SeenIsSound, FitTells, RekeyedFrom
<1>6. Record(i, At(u, i)) /\ UNCHANGED <<dialect, joins, torn>>
    BY <1>3 DEF StepUp
<1>. HIDE DEF u
<1>7. CASE Managed
    <2>1. /\ view' = At(u, i) /\ touched' = touched \cup Altered(i)
          /\ UNCHANGED <<database, run, dialect, joins, torn>>
        BY <1>6, <1>7 DEF Record, Managed
    <2>2. Exact(At(u, i)) /\ HaveParties(At(u, i))
        <3>1. torn = {}
            BY <1>7 DEF MInv, RunInOrder, Managed
        <3>2. QED
            BY <1>3, <1>4, <1>7, <3>1, SeenIsSound, ExactButNothing DEF Good
    <2>3. MInv'
        BY <1>1, <1>2, <1>3, <1>7, <2>1, <2>2, ManagedStep
    <2>4. RowsKept
        BY <2>1, UnchangedRowsAreKept DEF database
    <2>5. QED
        BY <2>3, <2>4
<1>8. CASE ~Managed
    <2>1. ~Transactional /\ Install(At(u, i)) /\ UNCHANGED runner /\ Seen = Stored
        BY <1>1, <1>6, <1>8, SeenIsSound DEF Record, Managed
    <2>2. torn' \subseteq Tables /\ ExactBut(At(u, i), torn')
        BY <1>4, <1>6, <2>1, SeenIsSound
    <2>3. At(u, i).columns = u.columns
        BY AtFields
    <2>4. MInv'
        BY <1>1, <1>3, <1>6, <2>1, <2>2, <2>3, CommittedStep
    <2>5. rows' = u.rows /\ columns' = u.columns /\ periods' = u.periods
        BY <2>1, AtFields DEF Install
    <2>6. i = 3 => columns["users"]["id"] # u.columns["users"]["id"]
        BY <1>5, <2>1, StoredFields
    <2>7. RowsKept
        BY <1>3, <2>1, <2>5, <2>6, RevisionKeepsRows
    <2>8. QED
        BY <2>4, <2>7
<1>9. QED
    BY <1>7, <1>8

\* A revision is taken back, within a transaction or by itself.
LEMMA StepDownKeeps ==
    ASSUME MInv, NEW i \in 1 .. HeadRevision, StepDown(i)
    PROVE  MInv' /\ RowsKept
<1>. DEFINE u == Downgrade(i, Seen)
            r == i - 1
<1>1. /\ Running /\ Seen.revision > run.target /\ Seen.revision = i
      /\ Fits(i, SchemaAt[i], SchemaAt[i - 1], Seen) /\ CanAlter(Altered(i))
    BY DEF StepDown, MayDowngrade, Downgrading
<1>2. r \in 0 .. HeadRevision
    BY DEF HeadRevision
<1>3. /\ Revised(i, Seen, u) /\ Good(At(u, r))
      /\ [u EXCEPT !.revision = r] = At(u, r)
    BY <1>1, SeenIsSound, DowngradeIsGood
<1>4. /\ ExactBut(At(u, r), torn)
      /\ Exact(Seen) /\ HaveParties(Seen) => HaveParties(At(u, r))
    BY <1>1, SeenIsSound, DowngradeIsSound
<1>5. i = 3 => Seen.columns["users"]["id"] # u.columns["users"]["id"]
    BY <1>1, SeenIsSound, FitTells, RekeyedFrom
<1>6. Record(i, At(u, r)) /\ UNCHANGED <<dialect, joins, torn>>
    BY <1>3 DEF StepDown
<1>7. r = i - 1
    OBVIOUS
<1>. HIDE DEF u, r
<1>8. CASE Managed
    <2>1. /\ view' = At(u, r) /\ touched' = touched \cup Altered(i)
          /\ UNCHANGED <<database, run, dialect, joins, torn>>
        BY <1>6, <1>8 DEF Record, Managed
    <2>2. Exact(At(u, r)) /\ HaveParties(At(u, r))
        <3>1. torn = {}
            BY <1>8 DEF MInv, RunInOrder, Managed
        <3>2. QED
            BY <1>3, <1>4, <1>8, <3>1, SeenIsSound, ExactButNothing DEF Good
    <2>3. MInv'
        BY <1>1, <1>2, <1>3, <1>7, <1>8, <2>1, <2>2, ManagedStep
    <2>4. RowsKept
        BY <2>1, UnchangedRowsAreKept DEF database
    <2>5. QED
        BY <2>3, <2>4
<1>9. CASE ~Managed
    <2>1. ~Transactional /\ Install(At(u, r)) /\ UNCHANGED runner /\ Seen = Stored
        BY <1>1, <1>6, <1>9, SeenIsSound DEF Record, Managed
    <2>2. torn' \subseteq Tables /\ ExactBut(At(u, r), torn')
        BY <1>4, <1>6, <2>1, SeenIsSound
    <2>3. At(u, r).columns = u.columns
        BY AtFields
    <2>4. MInv'
        BY <1>1, <1>3, <1>6, <2>1, <2>2, <2>3, CommittedStep
    <2>5. rows' = u.rows /\ columns' = u.columns /\ periods' = u.periods
        BY <2>1, AtFields DEF Install
    <2>6. i = 3 => columns["users"]["id"] # u.columns["users"]["id"]
        BY <1>5, <2>1, StoredFields
    <2>7. RowsKept
        BY <1>3, <2>1, <2>5, <2>6, RevisionKeepsRows
    <2>8. QED
        BY <2>4, <2>7
<1>10. QED
    BY <1>8, <1>9

\* Of the last but two, SQLite may be left with the new table alone.
LEMMA MembershipsMadeIsGood ==
    ASSUME NEW d, Good(d), d.revision = 7
    PROVE  /\ Revised(8, d, MembershipsMade(d)) /\ Good(MembershipsMade(d))
           /\ MembershipsMade(d).index = d.index
           /\ \A t \in Tables \ {"team_memberships"} :
                MembershipsMade(d).columns[t] = d.columns[t]
<1>. DEFINE u == MembershipsMade(d)
<1>1. u = With(d, "team_memberships", MembershipsAt(8)) /\ WellFormed(d) /\ WellFormed(u)
    BY MembershipsMakes DEF Good
<1>. HIDE DEF u
<1>2. /\ u.revision = d.revision /\ u.index = d.index /\ u.rows = d.rows
      /\ u.periods = d.periods /\ u.columns["team_memberships"] = MembershipsAt(8)
      /\ \A s \in Tables \ {"team_memberships"} : u.columns[s] = d.columns[s]
    BY <1>1, WithFields DEF Tables
<1>3. "id" \in DOMAIN MembershipsAt(8) /\ Altered(8) = {"users", "team_memberships"}
    BY CreatedColumns DEF Altered
<1>4. WholeTables(u)
    BY <1>2, <1>3, ColumnsMade DEF Good, WholeTables
<1>5. u.columns["users"] = d.columns["users"]
    BY <1>2 DEF Tables
<1>6. Revised(8, d, u)
    BY <1>1, <1>2, <1>3, <1>4, <1>5 DEF Revised
<1>7. IdsAreTyped(u) /\ (u.index => ~Duplicates(u))
    BY <1>2, <1>5 DEF Good, IdsAreTyped, Duplicates
<1>8. QED
    BY <1>1, <1>2, <1>4, <1>6, <1>7 DEF Good, u

\* SQLite is left with a revision applied and not recorded.
LEMMA AbortTornKeeps ==
    ASSUME MInv, NEW i \in 1 .. HeadRevision, AbortTorn(i)
    PROVE  MInv' /\ RowsKept
<1>1. /\ ~Transactional /\ ~Managed /\ i # 3 /\ Seen = Stored
      /\ ExactBut(Stored, torn) /\ torn \subseteq Tables /\ Altered(i) \subseteq Tables
    BY SeenIsSound, AlteredTables DEF AbortTorn, Managed
<1>2. ASSUME NEW u, Revised(i, Stored, u), Good(u), Tears(u), CanAlter(Altered(i)), Running,
             NEW scar \in SUBSET Altered(i), torn' = torn \cup scar,
             \A t \in Tables \ scar : u.columns[t] = Stored.columns[t],
             "team_memberships" \notin scar => u.index = Stored.index
      PROVE  MInv' /\ RowsKept
    <2>1. torn' \subseteq Tables /\ u.revision = Stored.revision
        BY <1>1, <1>2 DEF Revised
    <2>2. ExactBut(u, torn')
        BY <1>1, <1>2, <2>1, ScarredIsSound
    <2>3. MInv'
        BY <1>1, <1>2, <2>1, <2>2, CommittedStep DEF Tears
    <2>4. RowsKept
        BY <1>1, <1>2, RevisionKeepsRows DEF Tears, Install
    <2>5. QED
        BY <2>3, <2>4
<1>3. \A u : Revised(i, Stored, u) =>
        /\ \A t \in Tables \ Altered(i) : u.columns[t] = Stored.columns[t]
        /\ "team_memberships" \notin Altered(i) => u.index = Stored.index
    BY DEF Revised
<1>4. ASSUME MayUpgrade(i)
      PROVE  /\ Running /\ Seen.revision = i - 1 /\ CanAlter(Altered(i))
             /\ Fits(i, SchemaAt[i - 1], SchemaAt[i], Seen)
             /\ i = HeadRevision => ~Duplicates(Seen)
    <2>1. i = Seen.revision + 1
        BY <1>4 DEF MayUpgrade
    <2>2. Seen.revision \in 0 .. 10
        BY SeenIsSound DEF Good, WellFormed, HeadRevision
    <2>3. Seen.revision = i - 1
        BY <2>1, <2>2
    <2>4. QED
        BY <1>4, <2>3 DEF MayUpgrade, Upgrading
<1>5. CASE MayUpgrade(i) /\ Tears(Upgrade(i, Seen)) /\ torn' = torn \cup Altered(i)
    <2>1. Revised(i, Stored, Upgrade(i, Seen)) /\ Good(Upgrade(i, Seen))
        BY <1>1, <1>4, <1>5, SeenIsSound, UpgradeIsGood
    <2>2. QED
        BY <1>2, <1>3, <1>4, <1>5, <2>1
<1>6. CASE /\ MayUpgrade(i) /\ i = 8 /\ Tears(MembershipsMade(Seen))
           /\ torn' = torn \cup {"team_memberships"}
    <2>1. Seen.revision = 7
        BY <1>4, <1>6
    <2>2. /\ Revised(8, Stored, MembershipsMade(Stored)) /\ Good(MembershipsMade(Stored))
          /\ \A t \in Tables \ {"team_memberships"} :
                MembershipsMade(Stored).columns[t] = Stored.columns[t]
        BY <1>1, <2>1, SeenIsSound, MembershipsMadeIsGood
    <2>. DEFINE scar == {"team_memberships"}
    <2>3. scar \in SUBSET Altered(i) /\ "team_memberships" \in scar
        BY <1>6 DEF Altered
    <2>4. /\ \A t \in Tables \ scar : MembershipsMade(Stored).columns[t] = Stored.columns[t]
          /\ torn' = torn \cup scar
        BY <1>6, <2>2
    <2>. HIDE DEF scar
    <2>5. Revised(i, Stored, MembershipsMade(Stored)) /\ Tears(MembershipsMade(Stored))
        BY <1>1, <1>6, <2>2
    <2>6. QED
        BY <1>2, <1>4, <1>6, <2>2, <2>3, <2>4, <2>5
<1>7. CASE MayDowngrade(i) /\ Tears(Downgrade(i, Seen)) /\ torn' = torn \cup Altered(i)
    <2>1. /\ Running /\ Seen.revision = i /\ CanAlter(Altered(i))
          /\ Fits(i, SchemaAt[i], SchemaAt[i - 1], Seen)
        BY <1>7 DEF MayDowngrade, Downgrading
    <2>2. Revised(i, Stored, Downgrade(i, Seen)) /\ Good(Downgrade(i, Seen))
        BY <1>1, <2>1, SeenIsSound, DowngradeIsGood
    <2>3. QED
        BY <1>2, <1>3, <1>7, <2>1, <2>2
<1>8. QED
    BY <1>5, <1>6, <1>7 DEF AbortTorn

-----------------------------------------------------------------------------
(* The steps of the use cases: a row more, a period written, a transaction *)

Filled(d, t, id) ==
    [revision |-> d.revision, columns |-> d.columns, index |-> d.index,
     rows |-> [d.rows EXCEPT ![t] = @ \cup {id}], periods |-> d.periods]

Written(d, p, x) ==
    [revision |-> d.revision, columns |-> d.columns, index |-> d.index,
     rows |-> d.rows, periods |-> [d.periods EXCEPT ![p] = x]]

LEMMA FilledFields ==
    ASSUME NEW d, NEW t, NEW id
    PROVE  LET e == Filled(d, t, id) IN
           /\ e.revision = d.revision /\ e.columns = d.columns /\ e.index = d.index
           /\ e.rows = [d.rows EXCEPT ![t] = @ \cup {id}] /\ e.periods = d.periods
BY DEF Filled

\* A row more in a table that is there.
LEMMA FilledIsSound ==
    ASSUME NEW d, Good(d), NEW t \in Tables, NEW id, d.columns[t] # << >>
    PROVE  /\ Good(Filled(d, t, id))
           /\ \A ts : ExactBut(d, ts) => ExactBut(Filled(d, t, id), ts)
           /\ HaveParties(d) => HaveParties(Filled(d, t, id))
<1>. DEFINE e == Filled(d, t, id)
<1>1. /\ e.revision = d.revision /\ e.columns = d.columns /\ e.index = d.index
      /\ e.rows = [d.rows EXCEPT ![t] = @ \cup {id}] /\ e.periods = d.periods
    BY FilledFields
<1>2. e = [revision |-> e.revision, columns |-> e.columns, index |-> e.index,
           rows |-> e.rows, periods |-> e.periods]
    BY DEF Filled
<1>. HIDE DEF e
<1>3. d.rows = [s \in Tables |-> d.rows[s]]
    BY DEF Good, WellFormed
<1>4. /\ e.rows = [s \in Tables |-> e.rows[s]]
      /\ \A s \in Tables : d.rows[s] \subseteq e.rows[s]
      /\ \A s \in Tables \ {t} : e.rows[s] = d.rows[s]
    BY <1>1, <1>3
<1>5. WellFormed(e)
    BY <1>1, <1>2, <1>4 DEF Good, WellFormed
<1>6. IdsAreTyped(e) /\ WholeTables(e)
    BY <1>1, <1>4 DEF Good, IdsAreTyped, WholeTables
<1>7. e.index => ~Duplicates(e)
    BY <1>1 DEF Good, Duplicates
<1>8. \A ts : ExactBut(d, ts) => ExactBut(e, ts)
    BY <1>1 DEF ExactBut
<1>9. HaveParties(d) => HaveParties(e)
    BY <1>1, <1>4 DEF HaveParties, Tables
<1>10. QED
    BY <1>5, <1>6, <1>7, <1>8, <1>9 DEF Good, e

\* One period opened or changed.
LEMMA WrittenIsSound ==
    ASSUME NEW d, Good(d), NEW p \in Periods, NEW x \in Period,
           d.columns["team_memberships"] # << >>,
           d.index => \A q \in Periods \ {p} :
                ~(/\ d.periods[q] # NoPeriod /\ d.periods[q].status # "LEAVED"
                  /\ x.status # "LEAVED" /\ SameParties(d.periods[q], x))
    PROVE  /\ Good(Written(d, p, x))
           /\ \A ts : ExactBut(d, ts) => ExactBut(Written(d, p, x), ts)
           /\ HaveParties(d) /\ x.team \in d.rows["teams"] /\ x.user \in d.rows["users"] =>
                HaveParties(Written(d, p, x))
<1>. DEFINE e == Written(d, p, x)
<1>1. /\ e.revision = d.revision /\ e.columns = d.columns /\ e.index = d.index
      /\ e.rows = d.rows /\ e.periods = [d.periods EXCEPT ![p] = x]
    BY DEF Written
<1>2. e = [revision |-> e.revision, columns |-> e.columns, index |-> e.index,
           rows |-> e.rows, periods |-> e.periods]
    BY DEF Written
<1>. HIDE DEF e
<1>3. d.periods \in [Periods -> Period \cup {NoPeriod}]
    BY DEF Good, WellFormed
<1>4. /\ e.periods \in [Periods -> Period \cup {NoPeriod}]
      /\ e.periods[p] = x
      /\ \A q \in Periods \ {p} : e.periods[q] = d.periods[q]
    BY <1>1, <1>3
<1>5. WellFormed(e)
    BY <1>1, <1>2, <1>4 DEF Good, WellFormed
<1>6. IdsAreTyped(e) /\ WholeTables(e)
    BY <1>1 DEF Good, IdsAreTyped, WholeTables
<1>7. ASSUME e.index PROVE ~Duplicates(e)
    <2>1. d.index /\ ~Duplicates(d)
        BY <1>1, <1>7 DEF Good
    <2>2. ASSUME NEW q \in Periods \ {p}, e.periods[q] # NoPeriod, e.periods[q].status # "LEAVED",
                 x.status # "LEAVED"
          PROVE  ~(e.periods[q].team = x.team /\ e.periods[q].user = x.user)
        BY <1>4, <2>1, <2>2 DEF SameParties
    <2>3. QED
        BY <1>4, <2>1, <2>2 DEF Duplicates
<1>8. \A ts : ExactBut(d, ts) => ExactBut(e, ts)
    BY <1>1 DEF ExactBut
<1>9. HaveParties(d) /\ x.team \in d.rows["teams"] /\ x.user \in d.rows["users"] => HaveParties(e)
    BY <1>1, <1>4 DEF HaveParties
<1>10. QED
    BY <1>5, <1>6, <1>7, <1>8, <1>9 DEF Good, e

\* A table that a use case can write to is there.
LEMMA UsableIsThere ==
    ASSUME NEW t \in Tables, Usable(t)
    PROVE  columns[t] # << >>
<1>1. /\ "id" \in DOMAIN OrmColumns["users"] /\ "id" \in DOMAIN OrmColumns["teams"]
      /\ "id" \in DOMAIN OrmColumns["team_memberships"]
      /\ "id" \in DOMAIN OrmColumns["chat_messages"]
    <2>1. /\ "id" \in DOMAIN OrmColumns.users /\ "id" \in DOMAIN OrmColumns.teams
          /\ "id" \in DOMAIN OrmColumns.team_memberships
          /\ "id" \in DOMAIN OrmColumns.chat_messages
        BY DEF OrmColumns, ++, Typed
    <2>2. QED
        BY <2>1
<1>2. "id" \in DOMAIN columns[t]
    BY <1>1 DEF Usable, Tables
<1>3. QED
    BY <1>2, ColumnsMade

\* A table that the command has not locked is the same in what it sees.
LEMMA UnlockedIsSeen ==
    ASSUME MInv, NEW t \in Tables, t \notin touched
    PROVE  /\ Seen.columns[t] = columns[t] /\ Seen.rows[t] = rows[t]
           /\ t = "team_memberships" => Seen.periods = periods /\ Seen.index = index
<1>1. CASE Managed
    BY <1>1, SeenOfInv
<1>2. CASE ~Managed
    BY <1>2, SeenIs, StoredFields
<1>3. QED
    BY <1>1, <1>2

\* A user, a team or a chat message is stored.
LEMMA InsertKeeps ==
    ASSUME MInv, NEW t \in Tables \ {"team_memberships"}, NEW id, Insert(t, id)
    PROVE  MInv' /\ RowsKept
<1>1. /\ t \notin touched /\ rows' = [rows EXCEPT ![t] = @ \cup {id}]
      /\ UNCHANGED <<dialect, revision, columns, index, periods, run, view, touched, joins, torn>>
      /\ Managed' = Managed /\ Transactional' = Transactional /\ Running' = Running
    BY DEF Insert, schema, runner, Managed, Transactional, Running
<1>2. columns[t] # << >> /\ Seen.columns[t] = columns[t] /\ Seen.rows[t] = rows[t]
    BY <1>1, UsableIsThere, UnlockedIsSeen DEF Insert
<1>3. Good(Seen) /\ Good(Stored) /\ WellFormed(Seen) /\ WellFormed(Stored)
    BY SeenIsSound DEF Good
<1>4. rows = [s \in Tables |-> rows[s]]
    BY <1>3, StoredFields DEF WellFormed
<1>5. /\ \A s \in Tables : rows[s] \subseteq rows'[s]
      /\ \A s \in Tables \ {t} : rows'[s] = rows[s]
      /\ rows'[t] = rows[t] \cup {id}
    BY <1>1, <1>4
<1>6. Stored' = Filled(Stored, t, id)
    BY <1>1 DEF Stored, Filled
<1>7. Seen' = Filled(Seen, t, id)
    <2>1. CASE ~Managed
        BY <1>1, <1>6, <2>1, SeenIs, SeenNext
    <2>2. CASE Managed
        <3>1. WellFormed(view)
            BY <2>2 DEF MInv, RunInOrder, Managed
        <3>2. /\ Seen' = Merged(view, touched, rows', periods)
              /\ Seen = Merged(view, touched, rows, periods)
            BY <1>1, <2>2, <3>1, SeenIs, SeenNext
        <3>3. [s \in Tables |-> IF s \in touched THEN view.rows[s] ELSE rows'[s]]
                = [[s \in Tables |-> IF s \in touched THEN view.rows[s] ELSE rows[s]]
                    EXCEPT ![t] = @ \cup {id}]
            BY <1>1, <1>5
        <3>4. Merged(view, touched, rows', periods)
                = Filled(Merged(view, touched, rows, periods), t, id)
            BY <3>3 DEF Merged, Filled
        <3>5. QED
            BY <3>2, <3>4
    <2>3. QED
        BY <2>1, <2>2
<1>8. Sound(Stored)'
    BY <1>1, <1>2, <1>6, FilledIsSound, StoredFields DEF MInv, Sound
<1>9. Sound(Seen)'
    BY <1>1, <1>2, <1>7, FilledIsSound DEF MInv, Sound
<1>10. RunInOrder'
    BY <1>1 DEF MInv, RunInOrder
<1>11. LocksHold'
    BY <1>1 DEF MInv, LocksHold, Uses
<1>12. /\ Seen'.periods = Seen.periods
       /\ \A s \in Tables : Seen'.rows[s] = IF s = t THEN Seen.rows[s] \cup {id} ELSE Seen.rows[s]
    <2>1. Seen.rows = [s \in Tables |-> Seen.rows[s]]
        BY <1>3 DEF WellFormed
    <2>2. Seen'.periods = Seen.periods /\ Seen'.rows = [Seen.rows EXCEPT ![t] = @ \cup {id}]
        BY <1>7, FilledFields
    <2>. DEFINE now == Seen'
    <2>. HIDE DEF now
    <2>3. QED
        BY <2>1, <2>2
<1>13. RowsStay'
    <2>1. ASSUME Managed, NEW s \in Tables
          PROVE  rows'[s] \subseteq Seen'.rows[s] \/ Lost(s, revision, view.revision)
        BY <1>5, <1>12, <2>1 DEF MInv, RowsStay, Managed
    <2>2. QED
        BY <1>1, <1>12, <2>1 DEF MInv, RowsStay, Exists, Managed
<1>14. JoinsInOrder'
    BY <1>1, <1>5 DEF MInv, JoinsInOrder, Writing, Current, Exists, Tables
<1>15. RowsKept
    BY <1>1, <1>5 DEF RowsKept, Exists
<1>16. QED
    BY <1>8, <1>9, <1>10, <1>11, <1>13, <1>14, <1>15 DEF MInv

\* A transaction goes on or ends, and writes nothing yet.
LEMMA JoinStep ==
    ASSUME MInv, UNCHANGED <<dialect, database, runner, torn>>,
           joins' \in [Handlers -> Joining \cup {Idle}],
           Transactional => \A h \in Handlers : Uses(h)' \cap touched = {},
           JoinsInOrder'
    PROVE  MInv' /\ RowsKept
<1>1. /\ UNCHANGED <<dialect, revision, columns, index, rows, periods, run, view, touched, torn>>
      /\ Managed' = Managed /\ Transactional' = Transactional /\ Running' = Running
    BY DEF database, schema, runner, Managed, Transactional, Running
<1>2. Stored' = Stored
    BY <1>1 DEF Stored
<1>3. Seen' = Seen
    <2>1. Managed => WellFormed(view)
        BY DEF MInv, RunInOrder, Managed
    <2>2. Managed \/ ~Managed
        OBVIOUS
    <2>3. QED
        BY <1>1, <1>2, <2>1, <2>2, SeenIs, SeenNext
<1>4. RunInOrder'
    BY <1>1 DEF MInv, RunInOrder
<1>5. Sound(Stored)' /\ Sound(Seen)'
    BY <1>1, <1>2, <1>3 DEF MInv, Sound
<1>6. LocksHold'
    BY <1>1 DEF MInv, LocksHold
<1>7. RowsStay'
    BY <1>1, <1>3 DEF MInv, RowsStay, Exists
<1>8. RowsKept
    BY <1>1, UnchangedRowsAreKept
<1>9. QED
    BY <1>4, <1>5, <1>6, <1>7, <1>8 DEF MInv

\* A join finds its team and user: their tables are now locked for revisions.
LEMMA FindPartiesKeeps ==
    ASSUME MInv, NEW h \in Handlers, NEW p \in Periods, NEW t \in Teams, NEW u \in Users,
           NEW status \in {"PENDING", "ACTIVE"}, FindParties(h, p, t, u, status)
    PROVE  MInv' /\ RowsKept
<1>. DEFINE j == [place |-> "found", period |-> p, team |-> t, user |-> u, status |-> status]
<1>1. /\ UNCHANGED <<dialect, database, runner, torn>>
      /\ "users" \notin touched /\ "teams" \notin touched
      /\ t \in rows["teams"] /\ u \in rows["users"]
      /\ joins' = [joins EXCEPT ![h] = j]
    BY DEF FindParties, CanRead
<1>2. joins \in [Handlers -> Joining \cup {Idle}]
    BY DEF MInv, RunInOrder
<1>3. j \in Joining /\ j.place = "found" /\ j.team = t /\ j.user = u
    BY DEF Joining
<1>. HIDE DEF j
<1>4. /\ joins' \in [Handlers -> Joining \cup {Idle}]
      /\ joins'[h] = j /\ \A o \in Handlers \ {h} : joins'[o] = joins[o]
    BY <1>1, <1>2, <1>3
<1>5. UNCHANGED <<dialect, columns, index, rows, periods, touched>>
    BY <1>1 DEF database, schema, runner
<1>6. Transactional => \A o \in Handlers : Uses(o)' \cap touched = {}
    BY <1>1, <1>3, <1>4 DEF Uses, MInv, LocksHold
<1>7. /\ Transactional' = Transactional
      /\ ~Writing(h)' /\ \A o \in Handlers \ {h} : Writing(o)' = Writing(o)
    BY <1>3, <1>4, <1>5 DEF Writing, Transactional
<1>8. JoinsInOrder'
    BY <1>1, <1>3, <1>4, <1>5, <1>7 DEF MInv, JoinsInOrder, Current, Exists, SameParties
<1>9. QED
    BY <1>1, <1>4, <1>6, <1>8, JoinStep

\* Its INSERT, behind every other entry of the index.
LEMMA InsertPeriodKeeps ==
    ASSUME MInv, NEW h \in Handlers, InsertPeriod(h)
    PROVE  MInv' /\ RowsKept
<1>1. /\ joins[h].place = "found" /\ "team_memberships" \notin touched
      /\ columns["team_memberships"] # << >>
      /\ UNCHANGED <<dialect, database, runner, torn>>
      /\ joins' = [joins EXCEPT ![h].place = "inserted"]
    BY UsableIsThere DEF InsertPeriod, CanWrite, Tables
<1>2. index =>
        /\ \A o \in Handlers \ {h} : Writing(o) => ~SameParties(joins[o], joins[h])
        /\ \A q \in Periods : ~(Current(q) /\ SameParties(periods[q], joins[h]))
    BY DEF InsertPeriod
<1>3. joins \in [Handlers -> Joining \cup {Idle}]
    BY DEF MInv, RunInOrder
<1>4. joins[h] \in Joining
    BY <1>1, <1>3 DEF Idle
<1>5. /\ joins' \in [Handlers -> Joining \cup {Idle}]
      /\ joins'[h].place = "inserted" /\ joins'[h].team = joins[h].team
      /\ joins'[h].user = joins[h].user
      /\ \A o \in Handlers \ {h} : joins'[o] = joins[o]
    BY <1>1, <1>3, <1>4 DEF Joining
<1>6. UNCHANGED <<dialect, columns, index, rows, periods, touched>>
    BY <1>1 DEF database, schema, runner
<1>7. Transactional => \A o \in Handlers : Uses(o)' \cap touched = {}
    <2>1. Transactional => \A o \in Handlers : Uses(o) \cap touched = {}
        BY DEF MInv, LocksHold
    <2>2. Uses(h)' = Uses(h) \cup {"team_memberships"}
        BY <1>1, <1>5 DEF Uses
    <2>3. \A o \in Handlers \ {h} : Uses(o)' = Uses(o)
        BY <1>5 DEF Uses
    <2>4. QED
        BY <1>1, <2>1, <2>2, <2>3
<1>8. /\ Transactional' = Transactional
      /\ Writing(h)' /\ \A o \in Handlers \ {h} : Writing(o)' = Writing(o)
    BY <1>5, <1>6 DEF Writing, Transactional
<1>9. JoinsInOrder'
    <2>1. ASSUME NEW o \in Handlers, Transactional, joins'[o].place # "idle"
          PROVE  joins'[o].team \in rows["teams"] /\ joins'[o].user \in rows["users"]
        BY <1>1, <1>5, <2>1 DEF MInv, JoinsInOrder
    <2>2. ASSUME index, NEW o \in Handlers, NEW q \in Handlers \ {o}, Writing(o)', Writing(q)'
          PROVE  ~SameParties(joins'[q], joins'[o])
        BY <1>2, <1>5, <1>8, <2>2 DEF MInv, JoinsInOrder, SameParties
    <2>3. ASSUME index, NEW o \in Handlers, Writing(o)', NEW q \in Periods
          PROVE  ~(Current(q) /\ SameParties(periods[q], joins'[o]))
        BY <1>2, <1>5, <1>8, <2>3 DEF MInv, JoinsInOrder, SameParties
    <2>4. \A q \in Periods : Current(q)' = Current(q)
        BY <1>6 DEF Current, Exists
    <2>5. QED
        BY <1>1, <1>6, <1>8, <2>1, <2>2, <2>3, <2>4 DEF JoinsInOrder
<1>10. QED
    BY <1>1, <1>5, <1>7, <1>9, JoinStep

\* Its ROLLBACK.
LEMMA LeaveScopeKeeps ==
    ASSUME MInv, NEW h \in Handlers, LeaveScope(h)
    PROVE  MInv' /\ RowsKept
<1>1. /\ UNCHANGED <<dialect, database, runner, torn>>
      /\ joins' = [joins EXCEPT ![h] = Idle]
    BY DEF LeaveScope
<1>2. joins \in [Handlers -> Joining \cup {Idle}]
    BY DEF MInv, RunInOrder
<1>3. /\ joins' \in [Handlers -> Joining \cup {Idle}]
      /\ joins'[h].place = "idle" /\ \A o \in Handlers \ {h} : joins'[o] = joins[o]
    BY <1>1, <1>2 DEF Idle
<1>4. UNCHANGED <<dialect, columns, index, rows, periods, touched>>
    BY <1>1 DEF database, schema, runner
<1>5. Transactional => \A o \in Handlers : Uses(o)' \cap touched = {}
    BY <1>3 DEF Uses, MInv, LocksHold
<1>6. /\ Transactional' = Transactional
      /\ ~Writing(h)' /\ \A o \in Handlers \ {h} : Writing(o)' = Writing(o)
    BY <1>3, <1>4 DEF Writing, Transactional
<1>7. JoinsInOrder'
    BY <1>3, <1>4, <1>6 DEF MInv, JoinsInOrder, Current, Exists
<1>8. QED
    BY <1>1, <1>3, <1>5, <1>7, JoinStep

\* One period is written; whoever writes it has seen its parties.
LEMMA PeriodStep ==
    ASSUME MInv, UNCHANGED <<dialect, schema, rows, runner, torn>>,
           "team_memberships" \notin touched, columns["team_memberships"] # << >>,
           NEW p \in Periods, NEW x \in Period, periods' = [periods EXCEPT ![p] = x],
           Transactional =>
                /\ x.team \in rows["teams"] /\ x.team \in Seen.rows["teams"]
                /\ x.user \in rows["users"] /\ x.user \in Seen.rows["users"],
           index => \A q \in Periods \ {p} :
                ~(Current(q) /\ x.status # "LEAVED" /\ SameParties(periods[q], x)),
           joins' \in [Handlers -> Joining \cup {Idle}],
           Transactional => \A h \in Handlers : Uses(h)' \cap touched = {},
           JoinsInOrder'
    PROVE  MInv' /\ RowsKept
<1>1. /\ UNCHANGED <<dialect, revision, columns, index, rows, run, view, touched, torn>>
      /\ Managed' = Managed /\ Transactional' = Transactional /\ Running' = Running
    BY DEF schema, runner, Managed, Transactional, Running
<1>2. /\ Good(Seen) /\ Good(Stored) /\ WellFormed(Stored)
      /\ Seen.columns["team_memberships"] = columns["team_memberships"]
      /\ Seen.periods = periods /\ Seen.index = index
    BY SeenIsSound, UnlockedIsSeen DEF Good, Tables
<1>3. periods \in [Periods -> Period \cup {NoPeriod}]
    BY <1>2, StoredFields DEF WellFormed
<1>4. /\ periods'[p] = x /\ x # NoPeriod
      /\ \A q \in Periods \ {p} : periods'[q] = periods[q]
    BY <1>3, LifecycleAssumption
<1>5. Stored' = Written(Stored, p, x)
    BY <1>1 DEF Stored, Written
<1>6. Seen' = Written(Seen, p, x)
    <2>1. CASE ~Managed
        BY <1>1, <1>5, <2>1, SeenIs, SeenNext
    <2>2. CASE Managed
        <3>1. WellFormed(view)
            BY <2>2 DEF MInv, RunInOrder, Managed
        <3>2. /\ Seen' = Merged(view, touched, rows, periods')
              /\ Seen = Merged(view, touched, rows, periods)
            BY <1>1, <2>2, <3>1, SeenIs, SeenNext
        <3>3. Merged(view, touched, rows, periods')
                = Written(Merged(view, touched, rows, periods), p, x)
            BY DEF Merged, Written
        <3>4. QED
            BY <3>2, <3>3
    <2>3. QED
        BY <2>1, <2>2
<1>7. index => \A q \in Periods \ {p} :
        ~(/\ periods[q] # NoPeriod /\ periods[q].status # "LEAVED"
          /\ x.status # "LEAVED" /\ SameParties(periods[q], x))
    BY DEF Current, Exists
<1>8. Sound(Stored)'
    <2>1. /\ Good(Written(Stored, p, x))
          /\ ExactBut(Stored, torn) => ExactBut(Written(Stored, p, x), torn)
          /\ HaveParties(Stored) /\ x.team \in rows["teams"] /\ x.user \in rows["users"] =>
                HaveParties(Written(Stored, p, x))
        BY <1>2, <1>7, StoredFields, WrittenIsSound
    <2>2. QED
        BY <1>1, <1>5, <2>1 DEF MInv, Sound
<1>9. Sound(Seen)'
    <2>1. /\ Good(Written(Seen, p, x))
          /\ ExactBut(Seen, torn) => ExactBut(Written(Seen, p, x), torn)
          /\ HaveParties(Seen) /\ x.team \in Seen.rows["teams"] /\ x.user \in Seen.rows["users"] =>
                HaveParties(Written(Seen, p, x))
        BY <1>2, <1>7, WrittenIsSound
    <2>2. QED
        BY <1>1, <1>6, <2>1 DEF MInv, Sound
<1>10. RunInOrder'
    BY <1>1 DEF MInv, RunInOrder
<1>11. LocksHold'
    BY <1>1 DEF MInv, LocksHold
<1>12. Seen'.rows = Seen.rows /\ Seen'.periods = periods'
    <2>1. Written(Seen, p, x).rows = Seen.rows
          /\ Written(Seen, p, x).periods = [Seen.periods EXCEPT ![p] = x]
        BY DEF Written
    <2>2. Written(Seen, p, x).periods = periods'
        BY <1>2, <2>1
    <2>3. QED
        BY <1>6, <2>1, <2>2
<1>13. RowsStay'
    BY <1>1, <1>12 DEF MInv, RowsStay, Exists
<1>14. RowsKept
    BY <1>1, <1>4 DEF RowsKept, Exists
<1>15. QED
    BY <1>8, <1>9, <1>10, <1>11, <1>13, <1>14 DEF MInv

\* Its COMMIT.
LEMMA CommitPeriodKeeps ==
    ASSUME MInv, NEW h \in Handlers, CommitPeriod(h)
    PROVE  MInv' /\ RowsKept
<1>. DEFINE p == joins[h].period
            x == [team |-> joins[h].team, user |-> joins[h].user, role |-> InitialRole,
                  status |-> joins[h].status]
<1>1. /\ joins[h].place = "inserted" /\ Writing(h)
      /\ UNCHANGED <<dialect, schema, rows, runner, torn>>
      /\ joins' = [joins EXCEPT ![h] = Idle]
      /\ periods' = [periods EXCEPT ![p] = x] /\ ~Exists(p)
    BY DEF CommitPeriod, OpenBesideCurrent, Writing
<1>2. joins \in [Handlers -> Joining \cup {Idle}]
    BY DEF MInv, RunInOrder
<1>3. joins[h] \in Joining
    BY <1>1, <1>2 DEF Idle
<1>4. p \in Periods /\ x \in Period /\ x.team = joins[h].team /\ x.user = joins[h].user
    BY <1>3, LifecycleAssumption DEF Joining, Period, Statuses
<1>. HIDE DEF p, x
<1>5. UNCHANGED <<dialect, columns, index, rows, touched>>
    BY <1>1 DEF schema, runner
<1>6. /\ joins' \in [Handlers -> Joining \cup {Idle}]
      /\ joins'[h].place = "idle" /\ \A o \in Handlers \ {h} : joins'[o] = joins[o]
    BY <1>1, <1>2 DEF Idle
<1>7. "team_memberships" \notin touched /\ (Transactional => {"teams", "users"} \cap touched = {})
    <2>1. Uses(h) = {"users", "teams", "team_memberships"}
        BY <1>1 DEF Uses
    <2>2. CASE Transactional
        BY <2>1, <2>2 DEF MInv, LocksHold
    <2>3. CASE ~Transactional
        BY <2>3 DEF MInv, RunInOrder
    <2>4. QED
        BY <2>2, <2>3
<1>8. /\ columns["team_memberships"] # << >>
      /\ index =>
            /\ \A o \in Handlers \ {h} : Writing(o) => ~SameParties(joins[o], joins[h])
            /\ \A q \in Periods : ~(Current(q) /\ SameParties(periods[q], joins[h]))
    BY <1>1 DEF MInv, JoinsInOrder
<1>9. Transactional =>
        /\ x.team \in rows["teams"] /\ x.team \in Seen.rows["teams"]
        /\ x.user \in rows["users"] /\ x.user \in Seen.rows["users"]
    <2>1. Transactional => x.team \in rows["teams"] /\ x.user \in rows["users"]
        BY <1>1, <1>4 DEF MInv, JoinsInOrder
    <2>2. Transactional => Seen.rows["teams"] = rows["teams"] /\ Seen.rows["users"] = rows["users"]
        BY <1>7, UnlockedIsSeen DEF Tables
    <2>3. QED
        BY <2>1, <2>2
<1>10. index => \A q \in Periods \ {p} :
        ~(Current(q) /\ x.status # "LEAVED" /\ SameParties(periods[q], x))
    BY <1>4, <1>8 DEF SameParties
<1>11. Transactional => \A o \in Handlers : Uses(o)' \cap touched = {}
    BY <1>6 DEF Uses, MInv, LocksHold
<1>12. periods \in [Periods -> Period \cup {NoPeriod}]
    BY StoredFields DEF MInv, Sound, Good, WellFormed
<1>13. JoinsInOrder'
    <2>1. /\ Transactional' = Transactional
          /\ ~Writing(h)' /\ \A o \in Handlers \ {h} : Writing(o)' = Writing(o)
        BY <1>5, <1>6 DEF Writing, Transactional
    <2>2. ASSUME NEW o \in Handlers, Transactional, joins'[o].place # "idle"
          PROVE  joins'[o].team \in rows["teams"] /\ joins'[o].user \in rows["users"]
        BY <1>6, <2>2 DEF MInv, JoinsInOrder
    <2>3. ASSUME index, NEW o \in Handlers, NEW q \in Handlers \ {o}, Writing(o)', Writing(q)'
          PROVE  ~SameParties(joins'[q], joins'[o])
        BY <1>6, <2>1, <2>3 DEF MInv, JoinsInOrder
    <2>4. ASSUME index, NEW o \in Handlers, Writing(o)', NEW q \in Periods
          PROVE  ~(Current(q)' /\ SameParties(periods'[q], joins'[o]))
        <3>1. o # h /\ Writing(o) /\ joins'[o] = joins[o]
            BY <1>6, <2>1, <2>4
        <3>2. CASE q = p
            <4>1. periods'[q] = x
                BY <1>1, <1>12, <3>2
            <4>2. ~SameParties(joins[o], joins[h])
                BY <1>8, <2>4, <3>1
            <4>3. QED
                BY <1>4, <3>1, <4>1, <4>2 DEF SameParties
        <3>3. CASE q # p
            <4>1. periods'[q] = periods[q]
                BY <1>1, <1>12, <3>3
            <4>2. Current(q)' = Current(q)
                BY <4>1 DEF Current, Exists
            <4>3. QED
                BY <2>4, <3>1, <4>1, <4>2 DEF MInv, JoinsInOrder
        <3>4. QED
            BY <3>2, <3>3
    <2>5. \A o \in Handlers : Writing(o)' => columns["team_memberships"] # << >>
        BY <1>8
    <2>6. QED
        BY <1>5, <2>1, <2>2, <2>3, <2>4, <2>5 DEF JoinsInOrder
<1>14. QED
    BY <1>1, <1>4, <1>6, <1>7, <1>8, <1>9, <1>10, <1>11, <1>13, PeriodStep

\* approve, leave and change_role.
LEMMA ChangePeriodKeeps ==
    ASSUME MInv, NEW p \in Periods, ChangePeriod(p)
    PROVE  MInv' /\ RowsKept
<1>1. /\ "team_memberships" \notin touched /\ columns["team_memberships"] # << >>
      /\ UNCHANGED <<dialect, schema, rows, runner, joins, torn>>
    BY UsableIsThere DEF ChangePeriod, Tables
<1>2. periods \in [Periods -> Period \cup {NoPeriod}]
    BY StoredFields DEF MInv, Sound, Good, WellFormed
<1>3. PICK x \in Period :
        /\ Current(p) /\ periods' = [periods EXCEPT ![p] = x]
        /\ x.team = periods[p].team /\ x.user = periods[p].user
    <2>1. ASSUME Exists(p) PROVE periods[p] \in Period
        BY <1>2, <2>1 DEF Exists
    <2>2. CASE ApprovePeriod(p)
        <3>. DEFINE x == [periods[p] EXCEPT !.status = "ACTIVE"]
        <3>1. x \in Period /\ x.team = periods[p].team /\ x.user = periods[p].user
            BY <2>1, <2>2 DEF ApprovePeriod, Period, Statuses
        <3>2. Current(p) /\ periods' = [periods EXCEPT ![p] = x]
            BY <2>2 DEF ApprovePeriod, Current
        <3>3. QED
            BY <3>1, <3>2
    <2>3. CASE LeavePeriod(p)
        <3>. DEFINE x == [periods[p] EXCEPT !.status = "LEAVED"]
        <3>1. x \in Period /\ x.team = periods[p].team /\ x.user = periods[p].user
            BY <2>1, <2>3 DEF LeavePeriod, Current, Period, Statuses
        <3>2. Current(p) /\ periods' = [periods EXCEPT ![p] = x]
            BY <2>3 DEF LeavePeriod
        <3>3. QED
            BY <3>1, <3>2
    <2>4. ASSUME NEW role \in Roles, GiveRole(p, role)
          PROVE  \E x \in Period :
                    /\ Current(p) /\ periods' = [periods EXCEPT ![p] = x]
                    /\ x.team = periods[p].team /\ x.user = periods[p].user
        <3>. DEFINE x == [periods[p] EXCEPT !.role = role]
        <3>1. x \in Period /\ x.team = periods[p].team /\ x.user = periods[p].user
            BY <2>1, <2>4 DEF GiveRole, Current, Period
        <3>2. Current(p) /\ periods' = [periods EXCEPT ![p] = x]
            BY <2>4 DEF GiveRole
        <3>3. QED
            BY <3>1, <3>2
    <2>5. QED
        BY <2>2, <2>3, <2>4 DEF ChangePeriod
<1>4. Seen.periods = periods
    BY <1>1, UnlockedIsSeen DEF Tables
<1>5. Transactional =>
        /\ x.team \in rows["teams"] /\ x.team \in Seen.rows["teams"]
        /\ x.user \in rows["users"] /\ x.user \in Seen.rows["users"]
    <2>1. Transactional => HaveParties(Stored) /\ HaveParties(Seen)
        BY DEF MInv, Sound
    <2>2. QED
        BY <1>3, <1>4, <2>1, StoredFields DEF HaveParties, Current, Exists
<1>6. index => \A q \in Periods \ {p} :
        ~(Current(q) /\ x.status # "LEAVED" /\ SameParties(periods[q], x))
    <2>1. index => ~Duplicates(Stored)
        BY StoredFields DEF MInv, Sound, Good
    <2>2. QED
        BY <1>3, <2>1, StoredFields DEF Duplicates, Current, Exists, SameParties
<1>7. /\ joins' \in [Handlers -> Joining \cup {Idle}]
      /\ (Transactional => \A h \in Handlers : Uses(h)' \cap touched = {})
    BY <1>1 DEF MInv, RunInOrder, LocksHold, Uses
<1>8. JoinsInOrder'
    <2>1. UNCHANGED <<dialect, columns, index, rows, joins>>
        BY <1>1 DEF schema
    <2>2. ASSUME NEW q \in Periods
          PROVE  /\ Current(q)' => Current(q)
                 /\ Current(q)' => periods'[q].team = periods[q].team
                                /\ periods'[q].user = periods[q].user
        <3>1. CASE q = p
            BY <1>2, <1>3, <3>1
        <3>2. CASE q # p
            BY <1>2, <1>3, <3>2 DEF Current, Exists
        <3>3. QED
            BY <3>1, <3>2
    <2>3. QED
        BY <2>1, <2>2 DEF MInv, JoinsInOrder, Writing, SameParties, Transactional
<1>9. QED
    BY <1>1, <1>3, <1>5, <1>6, <1>7, <1>8, PeriodStep

-----------------------------------------------------------------------------
(* The invariant, and what follows from it *)

\* The empty database is the first of the chain.
LEMMA InitIsSound == MigrationsInit => MInv
<1>. SUFFICES ASSUME MigrationsInit PROVE MInv
    OBVIOUS
<1>1. /\ dialect \in {"postgresql", "sqlite"} /\ run = NoRun /\ touched = {} /\ torn = {}
      /\ joins = [h \in Handlers |-> Idle] /\ ~Managed /\ ~Running
    BY DEF MigrationsInit, Managed, Running
<1>2. Stored = Link(0)
    <2>1. Stored = Empty
        BY DEF MigrationsInit, LifecycleInit, Stored, Empty
    <2>2. QED
        BY <2>1, LinksConnect
<1>3. Seen = Stored
    BY <1>1, SeenIs
<1>4. /\ Stored.revision = 0 /\ Stored.columns = ColumnsAt(0) /\ Stored.index = FALSE
      /\ Stored.periods = Empty.periods
    <2>1. 0 # HeadRevision
        BY DEF HeadRevision
    <2>2. QED
        BY <1>2, <2>1 DEF Link
<1>5. Good(Stored)
    <2>1. WellFormed(Stored) /\ WholeTables(Stored)
        BY <1>2, LinksAreWellFormed DEF HeadRevision
    <2>2. "id" \notin DOMAIN Stored.columns["users"]
        <3>1. UsersAt(0) = << >>
            BY DEF UsersAt
        <3>2. QED
            BY <1>4, <3>1, ColumnsAtMakes, ColumnsMade
    <2>3. QED
        BY <1>4, <2>1, <2>2 DEF Good, IdsAreTyped
<1>6. Exact(Stored)
    <2>1. (Stored.revision = HeadRevision) = FALSE
        BY <1>4 DEF HeadRevision
    <2>2. QED
        BY <1>4, <2>1 DEF Exact
<1>7. HaveParties(Stored)
    BY <1>4 DEF HaveParties, Empty
<1>8. Sound(Stored) /\ Sound(Seen)
    BY <1>3, <1>5, <1>6, <1>7, ExactButNothing DEF Sound, Good
<1>9. \A h \in Handlers : joins[h].place = "idle"
    BY <1>1 DEF Idle
<1>10. RunInOrder
    BY <1>1 DEF RunInOrder, Managed
<1>11. LocksHold /\ RowsStay /\ JoinsInOrder
    BY <1>1, <1>9 DEF LocksHold, RowsStay, JoinsInOrder, Writing, Managed
<1>12. QED
    BY <1>8, <1>10, <1>11 DEF MInv

\* Every step keeps the invariant and the rows.
LEMMA StepIsSound ==
    ASSUME MInv, [MigrationsNext]_migrationVars
    PROVE  MInv' /\ RowsKept
<1>1. CASE UNCHANGED migrationVars
    <2>1. UNCHANGED <<dialect, database, run, view, touched, joins, torn>>
          /\ UNCHANGED <<dialect, database, runner, torn>>
        BY <1>1 DEF migrationVars, runner
    <2>2. joins' \in [Handlers -> Joining \cup {Idle}]
        BY <2>1 DEF MInv, RunInOrder
    <2>3. Transactional => \A h \in Handlers : Uses(h)' \cap touched = {}
        BY <2>1 DEF MInv, LocksHold, Uses
    <2>4. JoinsInOrder'
        BY <2>1 DEF MInv, JoinsInOrder, Writing, Current, Exists, Transactional, database, schema
    <2>5. QED
        BY <2>1, <2>2, <2>3, <2>4, JoinStep
<1>2. CASE MigrationsNext
    <2>1. CASE \E target \in Targets, offline \in BOOLEAN : Start(target, offline)
        BY <2>1, StartKeeps
    <2>2. CASE Preflight \/ Finish \/ Abort
        BY <2>2, PreflightKeeps, FinishKeeps, AbortKeeps
    <2>3. CASE \E i \in 1 .. HeadRevision : StepUp(i) \/ StepDown(i) \/ AbortTorn(i)
        BY <2>3, StepUpKeeps, StepDownKeeps, AbortTornKeeps
    <2>4. CASE \E u \in Users : CreateUser(u)
        BY <2>4, InsertKeeps DEF CreateUser, Tables
    <2>5. CASE \E t \in Teams : CreateTeam(t)
        BY <2>5, InsertKeeps DEF CreateTeam, Tables
    <2>6. CASE \E m \in Messages : SaveMessage(m)
        BY <2>6, InsertKeeps DEF SaveMessage, Tables
    <2>7. ASSUME NEW h \in Handlers,
                 \/ \E p \in Periods, t \in Teams, u \in Users, status \in {"PENDING", "ACTIVE"} :
                        FindParties(h, p, t, u, status)
                 \/ InsertPeriod(h) \/ CommitPeriod(h) \/ LeaveScope(h)
          PROVE  MInv' /\ RowsKept
        BY <2>7, FindPartiesKeeps, InsertPeriodKeeps, CommitPeriodKeeps, LeaveScopeKeeps
    <2>8. CASE \E p \in Periods : ChangePeriod(p)
        BY <2>8, ChangePeriodKeeps
    <2>9. QED
        BY <1>2, <2>1, <2>2, <2>3, <2>4, <2>5, <2>6, <2>7, <2>8 DEF MigrationsNext
<1>3. QED
    BY <1>1, <1>2

\* The inductive invariant: what is stored and what a command sees are databases
\* of the chain, the locks keep the two apart, and open transactions hold what
\* they have found.
THEOREM Invariance == MigrationsSpec => []MInv
<1>1. MInv /\ [MigrationsNext]_migrationVars => MInv'
    BY StepIsSound
<1>2. QED
    BY <1>1, InitIsSound, PTL DEF MigrationsSpec

\* While the partial index of 7d5f0d6a2b31 exists, no user has two current
\* periods in one team, whatever revisions ran and whoever joined meanwhile.
THEOREM IndexKeepsOneCurrent == MigrationsSpec => []OneCurrentWhileIndexed
<1>1. MInv => OneCurrentWhileIndexed
    <2>. SUFFICES ASSUME MInv, index PROVE OneCurrentPeriod
        BY DEF OneCurrentWhileIndexed
    <2>1. ~Duplicates(Stored)
        BY StoredFields DEF MInv, Sound, Good
    <2>2. QED
        BY <2>1, StoredFields DEF Duplicates, OneCurrentPeriod, Current, Exists
<1>2. QED
    BY <1>1, Invariance, PTL

\* alembic_version tells the schema by whatever ups, downs and failures it was
\* reached, but for the tables of a revision that SQLite was left in the middle of;
\* and the chain ends in the schema of the ORM models.
THEOREM RevisionsAreExact == MigrationsSpec => []RevisionTellsTheSchema
<1>1. MInv => RevisionTellsTheSchema
    <2>. SUFFICES ASSUME MInv PROVE RevisionTellsTheSchema
        OBVIOUS
    <2>1. revision \in 0 .. HeadRevision /\ HeadRevision \in 0 .. HeadRevision
        BY StoredFields DEF MInv, Sound, Good, WellFormed, HeadRevision
    <2>2. /\ \A t \in Tables \ torn : columns[t] = ColumnsAt(revision)[t]
          /\ "team_memberships" \notin torn => index = (revision = HeadRevision)
        BY StoredFields DEF MInv, Sound, ExactBut
    <2>3. /\ SchemaAt[revision].columns = ColumnsAt(revision)
          /\ SchemaAt[revision].index = (revision = HeadRevision)
          /\ SchemaAt[HeadRevision].columns = OrmColumns
        BY <2>1, SchemaTold DEF ClosedForm
    <2>4. QED
        BY <2>2, <2>3 DEF RevisionTellsTheSchema
<1>2. QED
    BY <1>1, Invariance, PTL

\* On PostgreSQL the team and the user of a period are there as long as it is,
\* though no foreign key says so.
THEOREM PartiesStay == MigrationsSpec => []PartiesOutlivePeriods
<1>1. MInv => PartiesOutlivePeriods
    BY StoredFields DEF MInv, Sound, HaveParties, PartiesOutlivePeriods, Exists
<1>2. QED
    BY <1>1, Invariance, PTL

\* No step loses rows, but those of a table that has gone or of users whose ids
\* change type: a refused, failed or given-up command leaves them all.
THEOREM RowsAreKept == MigrationsSpec => MigrationsKeepRows
<1>1. MInv /\ [MigrationsNext]_migrationVars => [RowsKept]_migrationVars
    BY StepIsSound
<1>2. MigrationsSpec => [][RowsKept]_migrationVars
    BY <1>1, Invariance, PTL DEF MigrationsSpec
<1>3. QED
    BY <1>2 DEF MigrationsKeepRows, RowsKept

-----------------------------------------------------------------------------
(* The lifecycle itself, which always has its index *)

\* The facts that hold of every reachable state; the second needs the first to
\* speak of the fields of a period.
LifecycleInv == LifecycleTypeOK /\ OneCurrentPeriod

\* Every step keeps the types.
LEMMA LifecycleStepKeepsType ==
    LifecycleTypeOK /\ [LifecycleNext]_periods => LifecycleTypeOK'
<1>1. SUFFICES ASSUME LifecycleTypeOK, LifecycleNext PROVE LifecycleTypeOK'
    BY DEF LifecycleTypeOK
<1>2. PICK p \in Periods :
        \/ \E t \in Teams, u \in Users, status \in {"PENDING", "ACTIVE"} :
            OpenPeriod(p, t, u, status)
        \/ ApprovePeriod(p)
        \/ \E role \in Roles : GiveRole(p, role)
        \/ LeavePeriod(p)
    BY <1>1 DEF LifecycleNext
<1>3. CASE \E t \in Teams, u \in Users, status \in {"PENDING", "ACTIVE"} :
            OpenPeriod(p, t, u, status)
    BY <1>1, <1>3, LifecycleAssumption DEF LifecycleTypeOK, OpenPeriod, Period, Statuses
<1>4. ASSUME Exists(p) PROVE periods[p] \in Period
    BY <1>1, <1>4 DEF LifecycleTypeOK, Exists
<1>5. CASE ApprovePeriod(p)
    BY <1>1, <1>4, <1>5 DEF LifecycleTypeOK, ApprovePeriod, Period, Statuses
<1>6. CASE \E role \in Roles : GiveRole(p, role)
    BY <1>1, <1>4, <1>6 DEF LifecycleTypeOK, GiveRole, Current, Period
<1>7. CASE LeavePeriod(p)
    BY <1>1, <1>4, <1>7 DEF LifecycleTypeOK, LeavePeriod, Current, Period, Statuses
<1>8. QED
    BY <1>2, <1>3, <1>5, <1>6, <1>7

\* Opening is the only step that can add a current period, and it finds none
\* beside it; the others leave team and user alone and make no period current.
LEMMA LifecycleStepKeepsOneCurrent ==
    LifecycleInv /\ [LifecycleNext]_periods => OneCurrentPeriod'
<1>1. SUFFICES ASSUME LifecycleInv, LifecycleNext PROVE OneCurrentPeriod'
    BY DEF LifecycleInv, OneCurrentPeriod, Current, Exists
<1>. USE <1>1 DEF LifecycleInv, LifecycleTypeOK
<1>2. PICK p \in Periods :
        \/ \E t \in Teams, u \in Users, status \in {"PENDING", "ACTIVE"} :
            OpenPeriod(p, t, u, status)
        \/ ApprovePeriod(p)
        \/ \E role \in Roles : GiveRole(p, role)
        \/ LeavePeriod(p)
    BY DEF LifecycleNext
<1>3. CASE \E t \in Teams, u \in Users, status \in {"PENDING", "ACTIVE"} :
            OpenPeriod(p, t, u, status)
    BY <1>3 DEF OneCurrentPeriod, OpenPeriod, Current, Exists, Period
<1>4. SUFFICES ASSUME \A q \in Periods :
                        /\ Current(q)' => Current(q)
                        /\ Exists(q) => /\ periods'[q].team = periods[q].team
                                        /\ periods'[q].user = periods[q].user
               PROVE  OneCurrentPeriod'
    <2>1. ASSUME Exists(p) PROVE periods[p] \in Period
        BY <2>1 DEF Exists
    <2>2. CASE ApprovePeriod(p)
        BY <2>1, <2>2, <1>4 DEF ApprovePeriod, Current, Exists, Period
    <2>3. CASE \E role \in Roles : GiveRole(p, role)
        BY <2>1, <2>3, <1>4 DEF GiveRole, Current, Exists, Period
    <2>4. CASE LeavePeriod(p)
        BY <2>1, <2>4, <1>4 DEF LeavePeriod, Current, Exists, Period
    <2>5. QED
        BY <1>2, <1>3, <2>2, <2>3, <2>4
<1>5. QED
    BY <1>4 DEF OneCurrentPeriod, Current

\* The lifecycle keeps its types and never has two current periods of one user
\* in one team.
THEOREM LifecycleInvariant == LifecycleSpec => [](LifecycleTypeOK /\ OneCurrentPeriod)
<1>1. LifecycleInit => LifecycleInv
    BY DEF LifecycleInit, LifecycleInv, LifecycleTypeOK, OneCurrentPeriod, Current, Exists
<1>2. LifecycleInv /\ [LifecycleNext]_periods => LifecycleInv'
    BY LifecycleStepKeepsType, LifecycleStepKeepsOneCurrent DEF LifecycleInv
<1>3. QED
    BY <1>1, <1>2, PTL DEF LifecycleSpec, LifecycleInv

\* A period that its user has left is never changed, reopened or removed: every
\* step of every other period, and every step of a current one, leaves it alone.
THEOREM LeavingIsFinal == LifecycleSpec => LeftForGood
<1>1. ASSUME LifecycleTypeOK, [LifecycleNext]_periods, NEW q \in Periods, Left(q)
      PROVE  periods'[q] = periods[q]
    <2>1. CASE LifecycleNext
        BY <1>1, <2>1 DEF LifecycleTypeOK, LifecycleNext, OpenPeriod, ApprovePeriod, GiveRole,
                          LeavePeriod, Left, Current, Exists
    <2>2. QED
        BY <1>1, <2>1
<1>2. LifecycleTypeOK /\ [LifecycleNext]_periods =>
        [\A p \in Periods : Left(p) => periods'[p] = periods[p]]_periods
    BY <1>1
<1>3. QED
    BY <1>2, LifecycleInvariant, PTL DEF LifecycleSpec, LeftForGood

=============================================================================
