------------------------------ MODULE ChatServer ------------------------------
(***************************************************************************)
(* The ChatServer struct, the loop of manager.rs that owns it, the command *)
(* handlers of src/commands and the database behind them.                  *)
(*                                                                         *)
(* One manager task owns the ChatServer and handles one message at a time, *)
(* so a handler is one action: all its changes to memory, to the database  *)
(* and to what clients are told.  A handler may stop between two database  *)
(* statements when the second one fails, and the process may be restarted  *)
(* between any two handlers.  A process killed between two statements of a *)
(* handler leaves the database a failed second statement leaves, so the    *)
(* two together also cover kills inside a handler.                         *)
(*                                                                         *)
(* What a client receives is modelled by what it was last told: its queue  *)
(* and socket are the subject of other modules.                            *)
(***************************************************************************)
EXTENDS Database, UserModel

CONSTANTS UserArg,       \* user names as they come in a command
          ChannelArg,    \* channel names as they come in a command
          LowerUser,     \* to_lowercase on them
          LowerChannel,
          ValidUser,     \* the names USERNAME_PATTERN matches
          HashChannel,   \* the names that start with "#"
          NoUser,        \* no username (an absent key of connections)
          DbMayFail,     \* whether a statement may fail for no fault of its own
          MaxMessages    \* bound on the messages of a behaviour

ASSUME NamesAssumption ==
  /\ LowerUser    \in [UserArg -> User]
  /\ LowerChannel \in [ChannelArg -> Channel]
  /\ ValidUser \subseteq User
  /\ HashChannel \subseteq Channel
  /\ NoUser \notin User

ASSUME BoundsAssumption ==
  /\ DbMayFail \in BOOLEAN
  /\ MaxMessages \in Nat

VARIABLES
  db,              \* the database
  users,           \* keys of ChatServer.users
  user,            \* the User stored under each of them
  channels,        \* keys of ChatServer.channels
  members,         \* Channel.users of each of them
  allConnections,  \* keys of all_connections in manager.rs
  unauth,          \* keys of ChatServer.unauth_connections
  connections,     \* ChatServer.connections: the name an address identified as
  kicked,          \* first Disconnect sent to an address
  toldStatus,      \* last status of each user told to an address
  toldViewing      \* channels an address was last told its user views

memory == <<users, user, channels, members, allConnections, unauth, connections>>
told   == <<kicked, toldStatus, toldViewing>>
vars   == <<db, memory, told>>

-----------------------------------------------------------------------------
(* Types                                                                   *)

Kicks == {"No", "Refused", "Internal", "DidNotAuth"}
Views == Statuses \cup {"Unknown"}

TypeOK ==
  /\ db \in DatabaseType
  /\ users \in SUBSET User
  /\ user \in [User -> UserType]
  /\ channels \in SUBSET Channel
  /\ members \in [Channel -> SUBSET User]
  /\ allConnections \in SUBSET Addr
  /\ unauth \in SUBSET Addr
  /\ connections \in [Addr -> User \cup {NoUser}]
  /\ kicked \in [Addr -> Kicks]
  /\ toldStatus \in [Addr -> [User -> Views]]
  /\ toldViewing \in [Addr -> SUBSET Channel]

-----------------------------------------------------------------------------
(* Helper state functions                                                  *)

\* get_user: the connection has identified as a user.
Authed(a) == connections[a] \in users

MembersIn(c)   == members[c] \cap users
ChannelsOf(u)  == {c \in channels : u \in members[c]}
Comembers(u)   == UNION {MembersIn(c) : c \in ChannelsOf(u)}
AddrsOf(r, W)  == UNION {r[w].connections : w \in W}

\* The addresses X are told the current status of every user of V.
TellStatus(t, X, V, r) ==
  [x \in Addr |-> [v \in User |-> IF x \in X /\ v \in V THEN r[v].status ELSE t[x][v]]]

\* send_user_status_update: everyone else in a channel of u is told.
StatusUpdate(t, u, r) == TellStatus(t, AddrsOf(r, Comembers(u) \ {u}), {u}, r)

\* The first Disconnect in the queue of a client is the one it acts on.
Kick(a, e) == kicked' = [kicked EXCEPT ![a] = IF @ = "No" THEN e ELSE @]

\* A command that fails before it has changed anything.
Reject(a, e) == Kick(a, e) /\ UNCHANGED <<db, memory, toldStatus, toldViewing>>
Refuse(a)    == Reject(a, "Refused")
Fail(a)      == Reject(a, "Internal")

-----------------------------------------------------------------------------
(* ChatServer::new, on an empty file or on what an earlier process left    *)

Init ==
  /\ db = EmptyDatabase
  /\ users = {}
  /\ user = [u \in User |-> NewUser]
  /\ channels = {}
  /\ members = [c \in Channel |-> {}]
  /\ allConnections = {} /\ unauth = {}
  /\ connections = [a \in Addr |-> NoUser]
  /\ kicked = [a \in Addr |-> "No"]
  /\ toldStatus = [a \in Addr |-> [u \in User |-> "Unknown"]]
  /\ toldViewing = [a \in Addr |-> {}]

Restart ==
  /\ users' = db.users
  /\ user' = [u \in User |-> NewUser]
  /\ channels' = db.channels
  /\ members' = [c \in Channel |-> IF c \in db.channels THEN MembersOf(db, c) ELSE {}]
  /\ allConnections' = {} /\ unauth' = {}
  /\ connections' = [a \in Addr |-> NoUser]
  /\ kicked' = [a \in Addr |-> "No"]
  /\ toldStatus' = [a \in Addr |-> [u \in User |-> "Unknown"]]
  /\ toldViewing' = [a \in Addr |-> {}]
  /\ UNCHANGED db

-----------------------------------------------------------------------------
(* Connections: manager.rs                                                 *)

\* A new connection never has the address of one the manager still tracks:
\* a TCP peer address is in use once at a time.
NewConnection(a) ==
  /\ a \notin allConnections
  /\ allConnections' = allConnections \cup {a}
  /\ unauth' = unauth \cup {a}
  /\ UNCHANGED <<db, users, user, channels, members, connections, told>>

\* The connections that have stayed 30 s without identifying are told to go.
CheckUnauthUsers(late) ==
  /\ kicked' = [x \in Addr |-> IF x \in late /\ kicked[x] = "No" THEN "DidNotAuth" ELSE kicked[x]]
  /\ UNCHANGED <<db, memory, toldStatus, toldViewing>>

\* JSON that does not parse, a missing or unknown command, a missing argument.
Malformed(a) == Refuse(a)

-----------------------------------------------------------------------------
(* IDENT and REGISTER                                                      *)

\* add_connection for a user that ChatServer.users holds, and the WELCOME.
Identify(a, u) ==
  LET after == [user EXCEPT ![u] = AddConnection(@, a)]
      seen  == IF ComesOnline(user[u]) THEN StatusUpdate(toldStatus, u, after) ELSE toldStatus
  IN  /\ unauth' = unauth \ {a}
      /\ connections' = [connections EXCEPT ![a] = u]
      /\ user' = after
      /\ toldStatus' = TellStatus(seen, {a}, Comembers(u), after)
      /\ toldViewing' = [toldViewing EXCEPT ![a] = user[u].active]

IdentRefused(a, u, matches) ==
  /\ \/ u \notin ValidUser
     \/ ~VerifyLogin(db, u, matches)
     \/ u \notin users
     \/ a \notin unauth
  /\ Refuse(a)

IdentFails(a, u) == DbMayFail /\ u \in ValidUser /\ Fail(a)

IdentOk(a, u) ==
  /\ u \in ValidUser /\ VerifyLogin(db, u, TRUE) /\ u \in users
  /\ a \in unauth
  /\ Identify(a, u)
  /\ UNCHANGED <<db, users, channels, members, allConnections, kicked>>

Ident(a, arg) ==
  \/ \E matches \in BOOLEAN : IdentRefused(a, LowerUser[arg], matches)
  \/ IdentFails(a, LowerUser[arg])
  \/ IdentOk(a, LowerUser[arg])

RegisterRefused(a, u) == (u \notin ValidUser \/ u \in users) /\ Refuse(a)

RegisterFails(a, u) ==
  /\ u \in ValidUser /\ u \notin users
  /\ DbMayFail \/ ~RegisterUserOk(db, u)
  /\ Fail(a)

\* The row is inserted before the handler finds that the connection has
\* identified already and refuses the command.
RegisterTooLate(a, u) ==
  /\ u \in ValidUser /\ u \notin users
  /\ RegisterUserOk(db, u)
  /\ a \notin unauth
  /\ db' = RegisterUser(db, u)
  /\ Kick(a, "Refused")
  /\ UNCHANGED <<memory, toldStatus, toldViewing>>

RegisterOk(a, u) ==
  /\ u \in ValidUser /\ u \notin users
  /\ RegisterUserOk(db, u)
  /\ a \in unauth
  /\ db' = RegisterUser(db, u)
  /\ unauth' = unauth \ {a}
  /\ connections' = [connections EXCEPT ![a] = u]
  /\ users' = users \cup {u}
  /\ user' = [user EXCEPT ![u] = AddConnection(NewUser, a)]
  /\ toldViewing' = [toldViewing EXCEPT ![a] = {}]
  /\ UNCHANGED <<channels, members, allConnections, kicked, toldStatus>>

Register(a, arg) ==
  \/ RegisterRefused(a, LowerUser[arg])
  \/ RegisterFails(a, LowerUser[arg])
  \/ RegisterTooLate(a, LowerUser[arg])
  \/ RegisterOk(a, LowerUser[arg])

-----------------------------------------------------------------------------
(* JOIN, MSG and HISTORY                                                   *)

\* MUTANT: the channel is taken into memory without a row in channels.
WithChannelUnsaved(c) == db

\* The database after the channel is made, if it has to be.
WithChannel(c) == IF c \in channels THEN db ELSE MakeChannel(db, c)

JoinRefused(a, c) == (~Authed(a) \/ c \notin HashChannel) /\ Refuse(a)

JoinMakeFails(a, c) ==
  /\ Authed(a) /\ c \in HashChannel
  /\ c \notin channels
  /\ DbMayFail \/ ~MakeChannelOk(db, c)
  /\ Fail(a)

\* MUTANT: a failed JOIN undoes the channel, made just now or long ago.
JoinMemberFailsUndone(a, c) ==
  /\ Authed(a) /\ c \in HashChannel
  /\ c \in channels \/ MakeChannelOk(db, c)
  /\ DbMayFail \/ ~JoinChannelOk(WithChannel(c), connections[a], c)
  /\ db' = [db EXCEPT !.channels = @ \ {c}, !.userChannels = {m \in @ : m[2] # c}]
  /\ channels' = channels \ {c}
  /\ members' = [members EXCEPT ![c] = {}]
  /\ Kick(a, "Internal")
  /\ UNCHANGED <<users, user, allConnections, unauth, connections, toldStatus, toldViewing>>

\* The channel exists, made just now or not, and user_channels takes no row.
JoinMemberFails(a, c) ==
  /\ Authed(a) /\ c \in HashChannel
  /\ c \in channels \/ MakeChannelOk(db, c)
  /\ DbMayFail \/ ~JoinChannelOk(WithChannel(c), connections[a], c)
  /\ db' = WithChannel(c)
  /\ channels' = channels \cup {c}
  /\ Kick(a, "Internal")
  /\ UNCHANGED <<users, user, members, allConnections, unauth, connections, toldStatus, toldViewing>>

\* MUTANT: JOIN is broadcast before add_user.
InsideBefore(u, c) == members[c] \cap users

\* The users a JOIN is broadcast to: add_user comes first.
Inside(u, c) == (members[c] \cup {u}) \cap users

\* JOIN goes to every connection of every member, CHANNELINFO to a alone.
JoinOk(a, c) ==
  LET u      == connections[a]
      inside == Inside(u, c)
      joined == TellStatus(toldStatus, AddrsOf(user, inside), {u}, user)
  IN  /\ Authed(a) /\ c \in HashChannel
      /\ c \in channels \/ MakeChannelOk(db, c)
      /\ JoinChannelOk(WithChannel(c), u, c)
      /\ db' = JoinChannel(WithChannel(c), u, c)
      /\ channels' = channels \cup {c}
      /\ members' = [members EXCEPT ![c] = @ \cup {u}]
      /\ toldStatus' = TellStatus(joined, {a} \cap user[u].connections, inside, user)
      /\ UNCHANGED <<users, user, allConnections, unauth, connections, kicked, toldViewing>>

Join(a, arg) ==
  \/ JoinRefused(a, LowerChannel[arg])
  \/ JoinMakeFails(a, LowerChannel[arg])
  \/ JoinMemberFails(a, LowerChannel[arg])
  \/ JoinOk(a, LowerChannel[arg])

\* The check of MSG and VIEWING: a user, a known channel, a member of it.
InChannel(a, c) == Authed(a) /\ c \in channels /\ connections[a] \in members[c]

MsgRefused(a, c) == ~InChannel(a, c) /\ Refuse(a)

MsgFails(a, c) ==
  /\ InChannel(a, c)
  /\ DbMayFail \/ ~AddMessageOk(db, connections[a], c)
  /\ Fail(a)

\* The MSG broadcast carries the status of its author.
MsgOk(a, c) ==
  /\ InChannel(a, c)
  /\ AddMessageOk(db, connections[a], c)
  /\ Len(db.messages) < MaxMessages
  /\ db' = AddMessage(db, connections[a], c)
  /\ toldStatus' = TellStatus(toldStatus, AddrsOf(user, MembersIn(c)), {connections[a]}, user)
  /\ UNCHANGED <<memory, kicked, toldViewing>>

Msg(a, arg) ==
  \/ MsgRefused(a, LowerChannel[arg])
  \/ MsgFails(a, LowerChannel[arg])
  \/ MsgOk(a, LowerChannel[arg])

HistoryRefused(a) == ~Authed(a) /\ Refuse(a)

\* Only channels of the user are read from the database.
HistoryFails(a, C) ==
  /\ Authed(a) /\ C \cap ChannelsOf(connections[a]) # {}
  /\ DbMayFail
  /\ Fail(a)

\* Each message carries the status of its author; recent are the authors of
\* the rows LIMIT keeps.
HistoryOk(a, C) ==
  /\ Authed(a)
  /\ \E recent \in SUBSET UNION {Authors(db, c) : c \in C \cap ChannelsOf(connections[a])} :
       toldStatus' = TellStatus(toldStatus, {a} \cap user[connections[a]].connections,
                                recent \cap users, user)
  /\ UNCHANGED <<db, memory, kicked, toldViewing>>

History(a, args) ==
  \/ HistoryRefused(a)
  \/ HistoryFails(a, {LowerChannel[arg] : arg \in args})
  \/ HistoryOk(a, {LowerChannel[arg] : arg \in args})

-----------------------------------------------------------------------------
(* VIEWING, NOTVIEWING and Disconnected                                    *)

\* send_no_viewer_notifications stops at the first channel whose mark cannot
\* be stored: done are the channels it got through, all of left if it succeeds.
DoneChoice(d, u, left) ==
  {done \in SUBSET left :
     /\ \A c \in done : SetLastReadOk(d, u, c)
     /\ done = left \/ DbMayFail \/ \E c \in left \ done : ~SetLastReadOk(d, u, c)}

\* MUTANT: the handler returns before HASVIEWERS when it has sent NOVIEWERS.
TellViewingGoneOnly(X, gone, come) ==
  [x \in Addr |-> IF x \in X
                   THEN (toldViewing[x] \ gone) \cup (IF gone = {} THEN come ELSE {})
                   ELSE toldViewing[x]]

\* NOVIEWERS for gone and HASVIEWERS for come, to every connection in X.
TellViewing(X, gone, come) ==
  [x \in Addr |-> IF x \in X THEN (toldViewing[x] \ gone) \cup come ELSE toldViewing[x]]

ViewingRefused(a, c) == ~InChannel(a, c) /\ Refuse(a)

\* MUTANT: a failing DELETE is only logged, as it is in remove_connection.
ViewingFailsLogged(a, c) ==
  LET u == connections[a] IN
  /\ InChannel(a, c)
  /\ DbMayFail
  /\ \E stop \in StopChoice(user[u], a) :
       user' = [user EXCEPT ![u] = DropNoViewers(SetViewing(@, c, a, stop))]
  /\ UNCHANGED <<db, users, channels, members, allConnections, unauth, connections, told>>

\* set_viewing, then get_and_clear_no_viewers, whatever the database says next.
ViewingFails(a, c) ==
  LET u == connections[a] IN
  /\ InChannel(a, c)
  /\ DbMayFail
  /\ \E stop \in StopChoice(user[u], a) :
       user' = [user EXCEPT ![u] = DropNoViewers(SetViewing(@, c, a, stop))]
  /\ Kick(a, "Internal")
  /\ UNCHANGED <<db, users, channels, members, allConnections, unauth, connections,
                 toldStatus, toldViewing>>

ViewingStored(a, c) ==
  LET u == connections[a]
      cleared == ClearLastRead(db, u, c)
  IN
  /\ InChannel(a, c)
  /\ \E stop \in StopChoice(user[u], a) :
       LET seen == SetViewing(user[u], c, a, stop)
           left == NoViewers(seen) \cap channels
       IN  /\ user' = [user EXCEPT ![u] = DropNoViewers(seen)]
           /\ \E done \in DoneChoice(cleared, u, left) :
                /\ db' = SetLastRead(cleared, u, done)
                /\ \/ /\ done = left
                      /\ toldViewing' = TellViewing(seen.connections, done, {c})
                      /\ UNCHANGED kicked
                   \/ /\ done # left
                      /\ toldViewing' = TellViewing(seen.connections, done, {})
                      /\ Kick(a, "Internal")
  /\ UNCHANGED <<users, channels, members, allConnections, unauth, connections, toldStatus>>

Viewing(a, arg) ==
  \/ ViewingRefused(a, LowerChannel[arg])
  \/ ViewingFails(a, LowerChannel[arg])
  \/ ViewingStored(a, LowerChannel[arg])

NotViewingRefused(a) == ~Authed(a) /\ Refuse(a)

NotViewingOk(a) ==
  LET u == connections[a] IN
  /\ Authed(a)
  /\ \E stop \in StopChoice(user[u], a) :
       LET seen == ClearViewing(user[u], a, stop)
           left == NoViewers(seen) \cap channels
       IN  /\ user' = [user EXCEPT ![u] = DropNoViewers(seen)]
           /\ \E done \in DoneChoice(db, u, left) :
                /\ db' = SetLastRead(db, u, done)
                /\ toldViewing' = TellViewing(seen.connections, done, {})
                /\ \/ done = left /\ UNCHANGED kicked
                   \/ done # left /\ Kick(a, "Internal")
  /\ UNCHANGED <<users, channels, members, allConnections, unauth, connections, toldStatus>>

NotViewing(a) == NotViewingRefused(a) \/ NotViewingOk(a)

\* The Disconnected message, of a connection that never identified ...
DisconnectedAnonymous(a) ==
  /\ connections[a] = NoUser
  /\ allConnections' = allConnections \ {a}
  /\ unauth' = unauth \ {a}
  /\ kicked' = [kicked EXCEPT ![a] = "No"]
  /\ UNCHANGED <<db, users, user, channels, members, connections, toldStatus, toldViewing>>

\* ... and of one that did: remove_connection, whose database errors are only
\* logged.
DisconnectedUser(a) ==
  LET u == connections[a] IN
  /\ Authed(a)
  /\ \E stop \in StopChoice(user[u], a) :
       LET seen  == ClearViewing(RemoveConnection(user[u], a), a, stop)
           left  == NoViewers(seen) \cap channels
           after == [user EXCEPT ![u] = DropNoViewers(seen)]
           heard == IF GoesOffline(user[u], a) THEN StatusUpdate(toldStatus, u, after) ELSE toldStatus
       IN  /\ user' = after
           /\ toldStatus' = [heard EXCEPT ![a] = [v \in User |-> "Unknown"]]
           /\ \E done \in DoneChoice(db, u, left) :
                /\ db' = SetLastRead(db, u, done)
                /\ toldViewing' = [TellViewing(seen.connections, done, {}) EXCEPT ![a] = {}]
  /\ allConnections' = allConnections \ {a}
  /\ unauth' = unauth \ {a}
  /\ connections' = [connections EXCEPT ![a] = NoUser]
  /\ kicked' = [kicked EXCEPT ![a] = "No"]
  /\ UNCHANGED <<users, channels, members>>

Disconnected(a) == DisconnectedAnonymous(a) \/ DisconnectedUser(a)

-----------------------------------------------------------------------------

Command(a) ==
  \/ Malformed(a)
  \/ \E arg \in UserArg : Ident(a, arg) \/ Register(a, arg)
  \/ \E arg \in ChannelArg : Join(a, arg) \/ Msg(a, arg) \/ Viewing(a, arg)
  \/ \E args \in SUBSET ChannelArg : History(a, args)
  \/ NotViewing(a)

Next ==
  \/ \E a \in Addr : NewConnection(a)
  \/ \E a \in allConnections : Command(a) \/ Disconnected(a)
  \/ \E late \in SUBSET unauth : CheckUnauthUsers(late)
  \/ Restart

Spec == Init /\ [][Next]_vars

-----------------------------------------------------------------------------
(* Invariants                                                              *)

\* Every connection the manager tracks is in exactly one of the two tables of
\* ChatServer, and connections agrees with the connections of the users: an
\* address is a connection of the user it identified as and of nobody else
\* (add_connection, remove_connection, REGISTER's own User).
SessionTables ==
  /\ unauth \subseteq allConnections
  /\ \A a \in Addr :
       /\ connections[a] # NoUser <=> a \in allConnections \ unauth
       /\ connections[a] \in users \cup {NoUser}
       /\ \A u \in User : a \in user[u].connections <=> connections[a] = u

\* A user is Online exactly while it has a connection, over any number of
\* connections that come and go (user.rs, add_connection and remove_connection).
OnlineIffConnected ==
  \A u \in User : user[u].status = "Online" <=> user[u].connections # {}

\* active_channels between two messages: no entry without a viewer, viewers are
\* live connections of the user, no connection views two channels, and what is
\* viewed is a channel the user is in (set_viewing, get_and_clear_no_viewers).
ViewersConsistent ==
  \A u \in User, c \in Channel :
    /\ c \in user[u].active <=> user[u].viewers[c] # {}
    /\ user[u].viewers[c] \subseteq user[u].connections
    /\ \A d \in Channel \ {c} : user[u].viewers[c] \cap user[u].viewers[d] = {}
    /\ user[u].viewers[c] # {} => c \in channels /\ u \in members[c]

\* The channels and members ChatServer holds in memory are what get_channels would
\* read back, failed statements included, and its users are among those get_users
\* would, which may find the row of a REGISTER that was refused as well; and the
\* rows of user_channels name users and channels that exist, so the unwrap in
\* get_channels cannot fail.
MemoryMirrorsDatabase ==
  /\ users \subseteq db.users
  /\ channels = db.channels
  /\ \A c \in Channel : members[c] = MembersOf(db, c)
  /\ \A c \in Channel : members[c] \subseteq users
  /\ db.userChannels \subseteq db.users \X db.channels

\* The status of another user a connection was last told, in whatever message,
\* is the status that user has: no handler changes a status without telling
\* everyone who shares a channel and has been told one before.
KnownStatusIsCurrent ==
  \A a \in Addr, v \in User :
    toldStatus[a][v] # "Unknown" =>
      /\ connections[a] # NoUser
      /\ v \in Comembers(connections[a])
      /\ toldStatus[a][v] = user[v].status

\* While a connection that is not being disconnected views a channel, every
\* connection of its user has been told that the channel has viewers, the ones
\* that identified later too (WELCOME, HASVIEWERS, NOVIEWERS).
ViewersAnnounced ==
  \A u \in User, c \in Channel :
    (\E b \in user[u].viewers[c] : kicked[b] = "No") =>
      \A a \in user[u].connections : c \in toldViewing[a]

\* As long as no statement fails by itself, a channel a user is viewing has no
\* read mark, and no channel has two marks of one user, though the UNIQUE key
\* of user_last_read_messages would allow it.
ReadMarks ==
  ~DbMayFail =>
    \A u \in User, c \in Channel :
      /\ user[u].viewers[c] # {} => Marks(db, u, c) = {}
      /\ \A r1, r2 \in Marks(db, u, c) : r1 = r2

\* When clear_last_message_read fails, VIEWING has already made the connection a
\* viewer, so that a channel is read and marked as unread past some message at
\* once.  Only connections that are being disconnected are left in between: any
\* other viewer has cleared the mark, and none is stored while it views.
MarkedViewersAreKicked ==
  \A u \in User, c \in Channel :
    Marks(db, u, c) # {} => \A a \in user[u].viewers[c] : kicked[a] # "No"

(* Action properties                                                       *)

\* When the last viewer of a channel leaves it, by VIEWING another channel, by
\* NOTVIEWING or by disconnecting, the newest message of the channel is stored
\* as read and the connections the user still has are told.
LeavingMarksRead ==
  [][~DbMayFail /\ ~Restart =>
       \A u \in User, c \in Channel :
         (/\ user[u].viewers[c] # {} /\ user'[u].viewers[c] = {}
          /\ MessagesIn(db, c) # {})
         => /\ MarkOf(db, u, c) \in db'.lastRead
            /\ \A a \in user'[u].connections : c \notin toldViewing'[a]]_vars

\* What a handler took into memory is never lost again: a user that could log
\* in and a membership survive every failure and every restart.
AcknowledgedSurvives ==
  [][/\ users \subseteq users'
     /\ \A c \in Channel : members[c] \subseteq members'[c]]_vars

-----------------------------------------------------------------------------
(* What the repository says and the code does not do                       *)

\* register.rs checks "if already registered" by looking in ChatServer.users:
\* a name it lets through is not registered.
UnknownIsUnregistered == db.users \subseteq users

\* CommandError says "Internal server error" of the errors of the database: a
\* client is only told so when a statement failed for no fault of its own.
InternalErrorIsInternal == \A a \in Addr : kicked[a] = "Internal" => DbMayFail
=============================================================================
