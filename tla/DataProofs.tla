------------------------------ MODULE DataProofs -------------------------------
(***************************************************************************)
(* The data ChatServer is built from: what the methods of User do to each  *)
(* field of a user, what the statements of sqlite.rs do to each table, and *)
(* what MAX(id) returns.                                                   *)
(***************************************************************************)
EXTENDS UserModel, Database, WellFoundedInduction, TLAPS

-----------------------------------------------------------------------------
(* The methods of User                                                     *)

\* User::new.
LEMMA NewUserType == NewUser \in UserType
  BY DEF NewUser, UserType, Statuses

\* add_connection.
LEMMA AddConnectionFields ==
  ASSUME NEW r \in UserType, NEW a \in Addr
  PROVE  /\ AddConnection(r, a) \in UserType
         /\ AddConnection(r, a).connections = r.connections \cup {a}
         /\ AddConnection(r, a).status = "Online"
         /\ AddConnection(r, a).active = r.active
         /\ AddConnection(r, a).viewers = r.viewers
  BY DEF AddConnection, UserType, Statuses

\* remove_connection.
LEMMA RemoveConnectionFields ==
  ASSUME NEW r \in UserType, NEW a \in Addr
  PROVE  /\ RemoveConnection(r, a) \in UserType
         /\ RemoveConnection(r, a).connections = r.connections \ {a}
         /\ RemoveConnection(r, a).status =
              IF r.connections \subseteq {a} THEN "Offline" ELSE r.status
         /\ RemoveConnection(r, a).active = r.active
         /\ RemoveConnection(r, a).viewers = r.viewers
  BY DEF RemoveConnection, UserType, Statuses

\* clear_viewing: only viewers changes, on the channels of stop.
LEMMA ClearViewingFields ==
  ASSUME NEW r \in UserType, NEW a \in Addr, NEW stop
  PROVE  /\ ClearViewing(r, a, stop) \in UserType
         /\ ClearViewing(r, a, stop).connections = r.connections
         /\ ClearViewing(r, a, stop).status = r.status
         /\ ClearViewing(r, a, stop).active = r.active
  BY DEF ClearViewing, UserType, Statuses

\* What is left of viewers.
LEMMA ClearViewingViewers ==
  ASSUME NEW r \in UserType, NEW a \in Addr, NEW stop
  PROVE  ClearViewing(r, a, stop).viewers =
           [c \in Channel |-> IF c \in stop THEN r.viewers[c] \ {a} ELSE r.viewers[c]]
  BY DEF ClearViewing, UserType, Statuses

\* set_viewing: clear_viewing, then the connection views c.
LEMMA SetViewingFields ==
  ASSUME NEW r \in UserType, NEW a \in Addr, NEW stop, NEW c \in Channel
  PROVE  /\ SetViewing(r, c, a, stop) \in UserType
         /\ SetViewing(r, c, a, stop).connections = r.connections
         /\ SetViewing(r, c, a, stop).status = r.status
         /\ SetViewing(r, c, a, stop).active = r.active \cup {c}
<1> DEFINE q == ClearViewing(r, a, stop)
           W == [q.viewers EXCEPT ![c] = q.viewers[c] \cup {a}]
<1>1. q \in UserType /\ q.connections = r.connections /\ q.status = r.status /\ q.active = r.active
  BY ClearViewingFields
<1>2. SetViewing(r, c, a, stop) = [q EXCEPT !.active = @ \cup {c}, !.viewers[c] = @ \cup {a}]
  BY DEF SetViewing
<1> HIDE DEF q
<1>3. SetViewing(r, c, a, stop) =
        [connections |-> q.connections, active |-> q.active \cup {c}, viewers |-> W,
         status |-> q.status]
  BY <1>1, <1>2 DEF UserType
<1>4. W \in [Channel -> SUBSET Addr]
  BY <1>1 DEF UserType
<1> HIDE DEF W
<1> QED
  BY <1>1, <1>3, <1>4 DEF UserType

\* set_viewing adds a viewer to what clear_viewing leaves.
LEMMA SetViewingViewers ==
  ASSUME NEW r \in UserType, NEW a \in Addr, NEW stop, NEW c \in Channel
  PROVE  SetViewing(r, c, a, stop).viewers = [ClearViewing(r, a, stop).viewers EXCEPT ![c] = @ \cup {a}]
<1> DEFINE q == ClearViewing(r, a, stop)
           W == [q.viewers EXCEPT ![c] = q.viewers[c] \cup {a}]
<1>1. q \in UserType
  BY ClearViewingFields
<1>2. SetViewing(r, c, a, stop) = [q EXCEPT !.active = @ \cup {c}, !.viewers[c] = @ \cup {a}]
  BY DEF SetViewing
<1> HIDE DEF q
<1>3. SetViewing(r, c, a, stop).viewers = W
  BY <1>1, <1>2 DEF UserType
<1> QED
  BY <1>3 DEF q

\* get_and_clear_no_viewers: only keys of active_channels go.
LEMMA DropNoViewersFields ==
  ASSUME NEW r \in UserType
  PROVE  /\ DropNoViewers(r) \in UserType
         /\ DropNoViewers(r).connections = r.connections
         /\ DropNoViewers(r).status = r.status
         /\ DropNoViewers(r).active = r.active \ NoViewers(r)
         /\ DropNoViewers(r).viewers = r.viewers
  BY DEF DropNoViewers, UserType, Statuses

-----------------------------------------------------------------------------
(* The statements of sqlite.rs                                             *)

\* The relation < on the naturals, as a set of pairs.
Less == {ss \in Nat \X Nat : ss[1] < ss[2]}

\* The order of the naturals, as the relation the library proves well-founded.
LEMMA LessIsWellFounded == IsWellFoundedOn(Less, Nat)
<1>1. OpToRel(<, Nat) = Less
  BY Zenon DEF OpToRel, Less
<1> QED
  BY <1>1, NatLessThanWellFounded, Zenon

\* A non-empty set of naturals with an upper bound has a greatest element, the
\* one Max chooses.
LEMMA MaxOfBounded ==
  ASSUME NEW n \in Nat, NEW S \in SUBSET (0 .. n), S # {}
  PROVE  /\ Max(S) \in S
         /\ \A y \in S : y <= Max(S)
<1> DEFINE Bounds == {k \in Nat : \A y \in S : y <= k}
<1>1. Bounds \subseteq Nat /\ Bounds # {}
  <2>1. n \in Bounds
    OBVIOUS
  <2> QED
    BY <2>1
<1>2. PICK k \in Bounds : \A j \in Bounds : <<j, k>> \notin Less
  BY <1>1, WFMin, LessIsWellFounded, Zenon
<1>3. k \in Nat /\ \A y \in S : y \in Nat /\ y <= k
  OBVIOUS
<1>4. \A j \in Bounds : ~(j < k)
  BY <1>2, <1>3 DEF Less
<1>5. k \in S
  <2> SUFFICES ASSUME k \notin S PROVE FALSE
    OBVIOUS
  <2>1. \A y \in S : y < k
    BY <1>3
  <2>2. k - 1 \in Nat
    <3>1. PICK y \in S : y \in Nat /\ y < k
      BY <1>3, <2>1
    <3> QED
      BY <3>1, <1>3
  <2>3. \A y \in S : y <= k - 1
    BY <1>3, <2>1
  <2>4. k - 1 \in Bounds
    BY <2>2, <2>3
  <2> QED
    BY <2>4, <1>3, <1>4
<1>6. \A y \in S : k >= y
  BY <1>3
<1>7. /\ Max(S) \in S
      /\ \A y \in S : Max(S) >= y
  BY <1>5, <1>6 DEF Max
<1> QED
  BY <1>3, <1>7

\* The newest message of a channel that has one is a message of the channel,
\* and no message of the channel comes after it.
LEMMA LastIdIsNewest ==
  ASSUME NEW d \in DatabaseType, NEW c \in Channel, MessagesIn(d, c) # {}
  PROVE  /\ LastId(d, c) \in MessagesIn(d, c)
         /\ LastId(d, c) \in Nat
         /\ \A i \in MessagesIn(d, c) : i <= LastId(d, c)
<1> DEFINE n == Len(d.messages)
<1>1. n \in Nat /\ MessagesIn(d, c) \in SUBSET (0 .. n)
  BY DEF DatabaseType, MessagesIn
<1>2. /\ Max(MessagesIn(d, c)) \in MessagesIn(d, c)
      /\ \A i \in MessagesIn(d, c) : i <= Max(MessagesIn(d, c))
  BY <1>1, MaxOfBounded
<1> QED
  BY <1>1, <1>2 DEF LastId

\* The tables each statement writes, and the ones it leaves alone.
LEMMA RegisterUserTables ==
  ASSUME NEW d \in DatabaseType, NEW u \in User
  PROVE  /\ RegisterUser(d, u) \in DatabaseType
         /\ RegisterUser(d, u).users = d.users \cup {u}
         /\ RegisterUser(d, u).channels = d.channels
         /\ RegisterUser(d, u).userChannels = d.userChannels
         /\ RegisterUser(d, u).messages = d.messages
         /\ RegisterUser(d, u).lastRead = d.lastRead
  BY DEF RegisterUser, DatabaseType

\* INSERT INTO channels.
LEMMA MakeChannelTables ==
  ASSUME NEW d \in DatabaseType, NEW c \in Channel
  PROVE  /\ MakeChannel(d, c) \in DatabaseType
         /\ MakeChannel(d, c).users = d.users
         /\ MakeChannel(d, c).channels = d.channels \cup {c}
         /\ MakeChannel(d, c).userChannels = d.userChannels
         /\ MakeChannel(d, c).messages = d.messages
         /\ MakeChannel(d, c).lastRead = d.lastRead
  BY DEF MakeChannel, DatabaseType

\* INSERT INTO user_channels.
LEMMA JoinChannelTables ==
  ASSUME NEW d \in DatabaseType, NEW u \in User, NEW c \in Channel
  PROVE  /\ JoinChannel(d, u, c) \in DatabaseType
         /\ JoinChannel(d, u, c).users = d.users
         /\ JoinChannel(d, u, c).channels = d.channels
         /\ JoinChannel(d, u, c).userChannels = d.userChannels \cup {<<u, c>>}
         /\ JoinChannel(d, u, c).messages = d.messages
         /\ JoinChannel(d, u, c).lastRead = d.lastRead
  BY DEF JoinChannel, DatabaseType

\* INSERT INTO messages.
LEMMA AddMessageTables ==
  ASSUME NEW d \in DatabaseType, NEW u \in User, NEW c \in Channel
  PROVE  /\ AddMessage(d, u, c) \in DatabaseType
         /\ AddMessage(d, u, c).users = d.users
         /\ AddMessage(d, u, c).channels = d.channels
         /\ AddMessage(d, u, c).userChannels = d.userChannels
         /\ AddMessage(d, u, c).messages = Append(d.messages, [user |-> u, channel |-> c])
         /\ AddMessage(d, u, c).lastRead = d.lastRead
<1>1. Append(d.messages, [user |-> u, channel |-> c]) \in Seq(Message)
  BY DEF DatabaseType, Message
<1> QED
  BY <1>1 DEF AddMessage, DatabaseType

\* DELETE FROM user_last_read_messages.
LEMMA ClearLastReadTables ==
  ASSUME NEW d \in DatabaseType, NEW u \in User, NEW c \in Channel
  PROVE  /\ ClearLastRead(d, u, c) \in DatabaseType
         /\ ClearLastRead(d, u, c).users = d.users
         /\ ClearLastRead(d, u, c).channels = d.channels
         /\ ClearLastRead(d, u, c).userChannels = d.userChannels
         /\ ClearLastRead(d, u, c).messages = d.messages
  BY DEF ClearLastRead, DatabaseType

\* REPLACE INTO user_last_read_messages, on channels that have a message.
LEMMA SetLastReadTables ==
  ASSUME NEW d \in DatabaseType, NEW u \in User, NEW C \in SUBSET Channel,
         \A c \in C : SetLastReadOk(d, u, c)
  PROVE  /\ SetLastRead(d, u, C) \in DatabaseType
         /\ SetLastRead(d, u, C).users = d.users
         /\ SetLastRead(d, u, C).channels = d.channels
         /\ SetLastRead(d, u, C).userChannels = d.userChannels
         /\ SetLastRead(d, u, C).messages = d.messages
<1>1. \A c \in C : LastId(d, c) \in Nat
  BY LastIdIsNewest DEF SetLastReadOk
<1>2. {MarkOf(d, u, c) : c \in C} \subseteq ReadMark
  BY <1>1 DEF MarkOf, ReadMark
<1> QED
  BY <1>2 DEF SetLastRead, DatabaseType
=============================================================================
