---------------------------- MODULE ChatMessages ----------------------------
(***************************************************************************)
(* Chat messages, the rows they are stored in, and the history query.       *)
(* A message belongs to one conversation: a Discord channel of a guild, or  *)
(* exactly one LINE user, group or room.  Identifiers are members of a set; *)
(* text, sender and author kind stand behind "content", which the code only *)
(* carries.                                                                 *)
(***************************************************************************)
EXTENDS Integers, Sequences, FiniteSets, SequencesExt

CONSTANTS
    Identifiers,    \* of guilds, channels, users, groups and rooms alike
    Contents,
    None,           \* Python's None
    Invalid         \* what a conversion that raises ValueError "returns"

ASSUME IdentifiersAssumption == None \notin Identifiers

-----------------------------------------------------------------------------
(* Conversation scopes *)

DiscordConversationScope == [guild_id : Identifiers, channel_id : Identifiers]

LineFields == {"line_user_id", "line_group_id", "line_room_id"}
LineConversationScope ==
    {s \in [LineFields -> Identifiers \cup {None}] :
        Cardinality({f \in LineFields : s[f] # None}) = 1}

\* LineConversationScope.user(id), .group(id) and .room(id).
LineUser(id) == [f \in LineFields |-> IF f = "line_user_id" THEN id ELSE None]
LineGroup(id) == [f \in LineFields |-> IF f = "line_group_id" THEN id ELSE None]
LineRoom(id) == [f \in LineFields |-> IF f = "line_room_id" THEN id ELSE None]

ConversationScope == DiscordConversationScope \cup LineConversationScope

IsDiscord(scope) == "guild_id" \in DOMAIN scope
Platform(scope) == IF IsDiscord(scope) THEN "DISCORD" ELSE "LINE"

LocatorField(scope) == CHOOSE f \in LineFields : scope[f] # None
Kind(scope) ==
    CASE scope["line_user_id"] # None -> "user"
      [] scope["line_group_id"] # None -> "group"
      [] OTHER -> "room"
Locator(scope) == scope[LocatorField(scope)]

-----------------------------------------------------------------------------
(* Messages and rows *)

Message(id, platform, scope, content, time) ==
    [id |-> id, platform |-> platform, conversation_scope |-> scope,
     content |-> content, occurred_at |-> time]

CreateDiscord(id, guild, channel, content, time) ==
    Message(id, "DISCORD", [guild_id |-> guild, channel_id |-> channel], content, time)

CreateLine(id, scope, content, time) == Message(id, "LINE", scope, content, time)

\* Mutant: the persisted scope has one more key.
ToPrimitiveWithField(scope) ==
    IF IsDiscord(scope)
    THEN [platform |-> "DISCORD", guild_id |-> scope.guild_id, channel_id |-> scope.channel_id]
    ELSE [platform |-> "LINE", kind |-> Kind(scope), locator |-> Locator(scope),
          field |-> LocatorField(scope)]

\* The JSON form of a scope.
ToPrimitive(scope) ==
    IF IsDiscord(scope)
    THEN [platform |-> "DISCORD", guild_id |-> scope.guild_id, channel_id |-> scope.channel_id]
    ELSE [platform |-> "LINE", kind |-> Kind(scope), locator |-> Locator(scope)]

\* What can be restored; an error is none of it.
Messages ==
    [id : Nat, platform : {"DISCORD", "LINE"}, conversation_scope : ConversationScope,
     content : Contents, occurred_at : Nat]

ASSUME InvalidAssumption == Invalid \notin ConversationScope \cup Messages

ToOrm(message) == [message EXCEPT !.conversation_scope = ToPrimitive(@)]

ScopeFromOrm(platform, scope) ==
    CASE scope["platform"] # platform -> Invalid
      [] platform = "DISCORD" ->
            IF DOMAIN scope = {"platform", "guild_id", "channel_id"}
            THEN [guild_id |-> scope.guild_id, channel_id |-> scope.channel_id]
            ELSE Invalid
      [] OTHER ->
            IF DOMAIN scope = {"platform", "kind", "locator"}
            THEN CASE scope.kind = "user" -> LineUser(scope.locator)
                   [] scope.kind = "group" -> LineGroup(scope.locator)
                   [] scope.kind = "room" -> LineRoom(scope.locator)
                   [] OTHER -> Invalid
            ELSE Invalid

FromOrm(row) ==
    LET scope == ScopeFromOrm(row.platform, row.conversation_scope) IN
    IF scope = Invalid THEN Invalid ELSE [row EXCEPT !.conversation_scope = scope]

-----------------------------------------------------------------------------
(* The history query *)

\* Mutant: the kind of a LINE scope is not compared.
MatchesAnyKind(row, scope) ==
    /\ row.platform = Platform(scope)
    /\ IF IsDiscord(scope)
       THEN /\ row.conversation_scope.guild_id = scope.guild_id
            /\ row.conversation_scope.channel_id = scope.channel_id
       ELSE row.conversation_scope.locator = Locator(scope)

\* The WHERE clause.
Matches(row, scope) ==
    /\ row.platform = Platform(scope)
    /\ IF IsDiscord(scope)
       THEN /\ row.conversation_scope.guild_id = scope.guild_id
            /\ row.conversation_scope.channel_id = scope.channel_id
       ELSE /\ row.conversation_scope.kind = Kind(scope)
            /\ row.conversation_scope.locator = Locator(scope)

\* The ORDER BY clause.
Newer(a, b) ==
    \/ a.occurred_at > b.occurred_at
    \/ a.occurred_at = b.occurred_at /\ a.id > b.id

Ok(messages) == [ok |-> TRUE, messages |-> messages]
Err == [ok |-> FALSE, messages |-> <<>>]

\* The rows in this order: a rank of its own for each.
Newest(rows) ==
    CHOOSE s \in [1 .. Cardinality(rows) -> rows] :
        \A i, j \in DOMAIN s : i < j => Newer(s[i], s[j])

\* get_recent_history: one row that does not restore fails the whole query.
RecentHistory(rows, scope, limit) ==
    LET newest == Newest({row \in rows : Matches(row, scope)})
        taken == Reverse(SubSeq(newest, 1, Min({limit, Len(newest)})))
        messages == [i \in DOMAIN taken |-> FromOrm(taken[i])]
    IN IF limit <= 0 \/ \E i \in DOMAIN messages : messages[i] = Invalid
       THEN Err
       ELSE Ok(messages)

=============================================================================
