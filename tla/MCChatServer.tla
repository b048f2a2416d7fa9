----------------------------- MODULE MCChatServer -----------------------------
(***************************************************************************)
(* Values for the constants of ChatServer.  Addresses are model values and *)
(* symmetric; names are strings, so that a name with a capital letter, a   *)
(* name USERNAME_PATTERN refuses and a channel without "#" can be given.   *)
(***************************************************************************)
EXTENDS ChatServerPresence, ChatServerReads, TLC

Symmetry == Permutations(Addr)

\* Two users, one channel: presence.
UserAB          == {"a", "b", "b c"}
UserABArg       == {"a", "B", "b c"}
LowerUserAB     == "a" :> "a" @@ "B" :> "b" @@ "b c" :> "b c"
ValidAB         == {"a", "b"}

\* One user, two channels: viewing.
UserA           == {"a"}
LowerUserA      == "a" :> "a"

ChannelX        == {"#x"}
ChannelXArg     == {"#X"}
LowerX          == "#X" :> "#x"

ChannelXY       == {"#x", "#y", "z"}
ChannelXYArg    == {"#X", "#y", "z"}
LowerXY         == "#X" :> "#x" @@ "#y" :> "#y" @@ "z" :> "z"
HashXY          == {"#x", "#y"}
=============================================================================
