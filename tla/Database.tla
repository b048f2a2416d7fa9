------------------------------- MODULE Database -------------------------------
(***************************************************************************)
(* The tables of table_initialization.sql and the queries sqlite.rs runs   *)
(* on them.  A database is a record d; an operator named ...Ok says        *)
(* whether the constraints of the tables (UNIQUE, NOT NULL, FOREIGN KEY,   *)
(* which sqlx enforces) let a statement run, and the operator without Ok   *)
(* gives the database after it.                                            *)
(*                                                                         *)
(* Abstractions: a row of users or channels is the name it is UNIQUE on,   *)
(* which stands for its AUTOINCREMENT id as well (ids and names are in     *)
(* bijection, and rows of these tables are never deleted); the id of a     *)
(* message is its index in the sequence of the messages; the password, the *)
(* time and the text of a message are left out.                            *)
(***************************************************************************)
EXTENDS ChatTypes, Naturals, Sequences, FiniteSetsExt

Message  == [user : User, channel : Channel]
ReadMark == [user : User, channel : Channel, message : Nat]

DatabaseType ==
  [users        : SUBSET User,
   channels     : SUBSET Channel,
   userChannels : SUBSET (User \X Channel),
   messages     : Seq(Message),
   lastRead     : SUBSET ReadMark]

\* setup_database on a new file.
EmptyDatabase ==
  [users |-> {}, channels |-> {}, userChannels |-> {}, messages |-> <<>>, lastRead |-> {}]

-----------------------------------------------------------------------------
(* users, channels and user_channels                                       *)

RegisterUserOk(d, u) == u \notin d.users
RegisterUser(d, u)   == [d EXCEPT !.users = @ \cup {u}]

\* verify_login: matches says whether the password hashes to the stored one.
VerifyLogin(d, u, matches) == u \in d.users /\ matches

MakeChannelOk(d, c) == c \notin d.channels
MakeChannel(d, c)   == [d EXCEPT !.channels = @ \cup {c}]

JoinChannelOk(d, u, c) ==
  /\ <<u, c>> \notin d.userChannels
  /\ u \in d.users /\ c \in d.channels
JoinChannel(d, u, c) == [d EXCEPT !.userChannels = @ \cup {<<u, c>>}]

\* get_channels: the LEFT JOIN read into Channel.users.
MembersOf(d, c) == {u \in User : <<u, c>> \in d.userChannels}

-----------------------------------------------------------------------------
(* messages and user_last_read_messages                                    *)

AddMessageOk(d, u, c) == u \in d.users /\ c \in d.channels
AddMessage(d, u, c)   == [d EXCEPT !.messages = Append(@, [user |-> u, channel |-> c])]

MessagesIn(d, c) == {i \in DOMAIN d.messages : d.messages[i].channel = c}
Authors(d, c)    == {d.messages[i].user : i \in MessagesIn(d, c)}

\* SELECT MAX(id) ... WHERE channel_id = ?: NULL when the channel has no message.
LastId(d, c) == Max(MessagesIn(d, c))

\* REPLACE INTO user_last_read_messages.  On a channel without a message the
\* value read for message_id names no row of messages, so the statement breaks
\* NOT NULL or the foreign key and fails.  The UNIQUE key is the whole row: a
\* mark of the same user on the same channel with another message stays.
\* SetLastRead runs the statement for every channel of C.
SetLastReadOk(d, u, c) ==
  /\ MessagesIn(d, c) # {}
  /\ <<u, c>> \in d.userChannels
MarkOf(d, u, c)      == [user |-> u, channel |-> c, message |-> LastId(d, c)]

\* MUTANT: the UNIQUE key is the user alone, so that REPLACE drops the user's
\* marks on other channels.
SetLastReadReplaces(d, u, C) ==
  [d EXCEPT !.lastRead = {r \in @ : r.user # u \/ C = {}} \cup {MarkOf(d, u, c) : c \in C}]

SetLastRead(d, u, C) == [d EXCEPT !.lastRead = @ \cup {MarkOf(d, u, c) : c \in C}]

\* MUTANT: only a mark on the newest message is deleted.
ClearLastReadNewest(d, u, c) ==
  [d EXCEPT !.lastRead = {r \in @ : ~(r.user = u /\ r.channel = c /\ r.message = LastId(d, c))}]

ClearLastRead(d, u, c) ==
  [d EXCEPT !.lastRead = {r \in @ : ~(r.user = u /\ r.channel = c)}]

Marks(d, u, c) == {r \in d.lastRead : r.user = u /\ r.channel = c}
=============================================================================
