---------------------------- MODULE MCChatIngest ----------------------------
(***************************************************************************)
(* Small instances of ChatIngest for TLC.                                   *)
(***************************************************************************)
EXTENDS ChatIngest

\* One identifier serves as user, group and channel.
Text(where, time) == [what |-> "text", in |-> where, id |-> "x", time |-> time]
Other(what) == [what |-> what, in |-> "group", id |-> "x", time |-> 1]

MCAbout ==
    [early |-> Text("group", 1),
     late |-> Text("group", 2),
     private |-> Text("user", 1),
     elsewhere |-> Text("room", 1),
     sticker |-> Other("sticker"),
     broken |-> Other("badTimestamp"),
     direct |-> Text("channel", 1),
     public |-> [what |-> "guildMessage", in |-> "channel", id |-> "x", time |-> 1]]

MCContents == DOMAIN MCAbout
MCIdentifiers == {"DM", "x"}
MCDiscordEvents == {"direct", "public"}

\* The oldest message is saved last, and two messages share their time; an event
\* that is passed over, and one that raises halfway.
MCBatches == {<<"late", "sticker", "early">>, <<"private", "broken", "late">>, <<"elsewhere">>}

=============================================================================
