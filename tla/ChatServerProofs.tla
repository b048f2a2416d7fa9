-------------------------- MODULE ChatServerProofs ----------------------------
(*****************************************************************************)
(* Invariants of ChatServer, proved for every set of addresses, users and    *)
(* channels, and whether or not statements of the database may fail.         *)
(*****************************************************************************)
EXTENDS ChatServer, DataProofs

-----------------------------------------------------------------------------
(* The steps of the system                                                 *)

\* The tables of the database once the channel of a JOIN is in them.
LEMMA WithChannelTables ==
  ASSUME db \in DatabaseType, NEW c \in Channel
  PROVE  /\ WithChannel(c) \in DatabaseType
         /\ WithChannel(c).users = db.users
         /\ WithChannel(c).channels = IF c \in channels THEN db.channels ELSE db.channels \cup {c}
         /\ WithChannel(c).userChannels = db.userChannels
         /\ WithChannel(c).messages = db.messages
         /\ WithChannel(c).lastRead = db.lastRead
  BY MakeChannelTables DEF WithChannel

\* The steps of VIEWING and NOTVIEWING that are not refused.
ViewingStep(a) ==
  \/ \E c \in Channel : ViewingFails(a, c) \/ ViewingStored(a, c)
  \/ NotViewingOk(a)

\* Every step is one of these: a command that is refused or fails before it has
\* changed anything is a Reject.
LEMMA StepCases ==
  ASSUME TypeOK, [Next]_vars
  PROVE  \/ \E a \in Addr : NewConnection(a)
         \/ \E late \in SUBSET unauth : CheckUnauthUsers(late)
         \/ \E a \in Addr, e \in Kicks : Reject(a, e)
         \/ \E a \in Addr, u \in User : \/ a \in allConnections /\ IdentOk(a, u)
                                        \/ a \in allConnections /\ RegisterTooLate(a, u)
                                        \/ a \in allConnections /\ RegisterOk(a, u)
         \/ \E a \in Addr, c \in Channel : \/ JoinMemberFails(a, c)
                                           \/ JoinOk(a, c)
                                           \/ MsgOk(a, c)
         \/ \E a \in Addr, C \in SUBSET Channel : HistoryOk(a, C)
         \/ \E a \in Addr : \/ ViewingStep(a)
                            \/ DisconnectedAnonymous(a)
                            \/ DisconnectedUser(a)
         \/ Restart
         \/ UNCHANGED vars
<1>1. ASSUME NEW a \in allConnections, NEW arg \in UserArg, Ident(a, arg)
      PROVE  LowerUser[arg] \in User /\
             (IdentOk(a, LowerUser[arg]) \/ Reject(a, "Refused") \/ Reject(a, "Internal"))
  BY <1>1, NamesAssumption DEF Ident, IdentRefused, IdentFails, Refuse, Fail
<1>2. ASSUME NEW a \in allConnections, NEW arg \in UserArg, Register(a, arg)
      PROVE  LowerUser[arg] \in User /\
             (\/ RegisterTooLate(a, LowerUser[arg]) \/ RegisterOk(a, LowerUser[arg])
              \/ Reject(a, "Refused") \/ Reject(a, "Internal"))
  BY <1>2, NamesAssumption DEF Register, RegisterRefused, RegisterFails, Refuse, Fail
<1>3. ASSUME NEW a \in allConnections, NEW arg \in ChannelArg, Join(a, arg)
      PROVE  LowerChannel[arg] \in Channel /\
             (\/ JoinMemberFails(a, LowerChannel[arg]) \/ JoinOk(a, LowerChannel[arg])
              \/ Reject(a, "Refused") \/ Reject(a, "Internal"))
  BY <1>3, NamesAssumption DEF Join, JoinRefused, JoinMakeFails, Refuse, Fail
<1>4. ASSUME NEW a \in allConnections, NEW arg \in ChannelArg, Msg(a, arg)
      PROVE  LowerChannel[arg] \in Channel /\
             (MsgOk(a, LowerChannel[arg]) \/ Reject(a, "Refused") \/ Reject(a, "Internal"))
  BY <1>4, NamesAssumption DEF Msg, MsgRefused, MsgFails, Refuse, Fail
<1>5. ASSUME NEW a \in allConnections, NEW arg \in ChannelArg, Viewing(a, arg)
      PROVE  ViewingStep(a) \/ Reject(a, "Refused")
  BY <1>5, NamesAssumption DEF Viewing, ViewingRefused, Refuse, ViewingStep
<1>6. ASSUME NEW a \in allConnections, NEW args \in SUBSET ChannelArg, History(a, args)
      PROVE  {LowerChannel[arg] : arg \in args} \in SUBSET Channel /\
             (\/ HistoryOk(a, {LowerChannel[arg] : arg \in args})
              \/ Reject(a, "Refused") \/ Reject(a, "Internal"))
  BY <1>6, NamesAssumption DEF History, HistoryRefused, HistoryFails, Refuse, Fail
<1>7. ASSUME NEW a \in allConnections, NotViewing(a)
      PROVE  ViewingStep(a) \/ Reject(a, "Refused")
  BY <1>7 DEF NotViewing, NotViewingRefused, Refuse, ViewingStep
<1>8. ASSUME NEW a \in allConnections, Malformed(a)
      PROVE  Reject(a, "Refused")
  BY <1>8 DEF Malformed, Refuse
<1>9. {"Refused", "Internal"} \subseteq Kicks /\ allConnections \subseteq Addr
  BY DEF Kicks, TypeOK
<1> QED
  BY <1>1, <1>2, <1>3, <1>4, <1>5, <1>6, <1>7, <1>8, <1>9 DEF Next, Command, Disconnected

-----------------------------------------------------------------------------
(* Types                                                                   *)

\* Messages to clients keep the types of what clients were told.
LEMMA ToldTypes ==
  ASSUME NEW t \in [Addr -> [User -> Views]], NEW r \in [User -> UserType],
         NEW X, NEW V, NEW u \in User
  PROVE  /\ TellStatus(t, X, V, r) \in [Addr -> [User -> Views]]
         /\ StatusUpdate(t, u, r) \in [Addr -> [User -> Views]]
<1>1. \A v \in User : r[v].status \in Views
  BY DEF UserType, Views
<1>2. \A Y, W : TellStatus(t, Y, W, r) \in [Addr -> [User -> Views]]
  BY <1>1 DEF TellStatus
<1> QED
  BY <1>2 DEF StatusUpdate

\* The NOVIEWERS and HASVIEWERS messages, in the same way.
LEMMA TellViewingType ==
  ASSUME toldViewing \in [Addr -> SUBSET Channel],
         NEW X, NEW gone, NEW come \in SUBSET Channel
  PROVE  TellViewing(X, gone, come) \in [Addr -> SUBSET Channel]
  BY DEF TellViewing

\* Kick keeps the type of kicked.
LEMMA KickType ==
  ASSUME kicked \in [Addr -> Kicks], NEW a \in Addr, NEW e \in Kicks, Kick(a, e)
  PROVE  kicked' \in [Addr -> Kicks]
  BY DEF Kick

\* The marks a handler stores are on channels that can have one.
LEMMA DoneChoiceSound ==
  ASSUME NEW d \in DatabaseType, NEW u \in User, NEW left \in SUBSET Channel,
         NEW done \in DoneChoice(d, u, left)
  PROVE  /\ done \in SUBSET Channel
         /\ \A c \in done : SetLastReadOk(d, u, c)
  BY DEF DoneChoice

\* Every step keeps the types, one case per kind of step.
LEMMA TypeOKStep ==
  ASSUME TypeOK, [Next]_vars
  PROVE  TypeOK'
<1> USE DEF TypeOK
<1>1. ASSUME NEW a \in Addr, NewConnection(a)
      PROVE  TypeOK'
  BY <1>1 DEF NewConnection, told
<1>2. ASSUME NEW late \in SUBSET unauth, CheckUnauthUsers(late)
      PROVE  TypeOK'
  BY <1>2 DEF CheckUnauthUsers, memory, Kicks
<1>3. ASSUME NEW a \in Addr, NEW e \in Kicks, Reject(a, e)
      PROVE  TypeOK'
  BY <1>3, KickType DEF Reject, memory
<1>4. ASSUME NEW a \in Addr, NEW u \in User, IdentOk(a, u)
      PROVE  TypeOK'
  <2> DEFINE after == [user EXCEPT ![u] = AddConnection(@, a)]
             seen  == IF ComesOnline(user[u]) THEN StatusUpdate(toldStatus, u, after) ELSE toldStatus
  <2>1. after \in [User -> UserType]
    BY AddConnectionFields
  <2>2. seen \in [Addr -> [User -> Views]]
    BY <2>1, ToldTypes
  <2>3. TellStatus(seen, {a}, Comembers(u), after) \in [Addr -> [User -> Views]]
    BY <2>1, <2>2, ToldTypes
  <2>4. [toldViewing EXCEPT ![a] = user[u].active] \in [Addr -> SUBSET Channel]
    BY DEF UserType
  <2> QED
    BY <1>4, <2>1, <2>3, <2>4 DEF IdentOk, Identify
<1>5. ASSUME NEW a \in Addr, NEW u \in User, RegisterTooLate(a, u)
      PROVE  TypeOK'
  BY <1>5, RegisterUserTables, KickType DEF RegisterTooLate, memory, Kicks
<1>6. ASSUME NEW a \in Addr, NEW u \in User, RegisterOk(a, u)
      PROVE  TypeOK'
  BY <1>6, RegisterUserTables, NewUserType, AddConnectionFields DEF RegisterOk
<1>7. ASSUME NEW a \in Addr, NEW c \in Channel, JoinMemberFails(a, c)
      PROVE  TypeOK'
  BY <1>7, WithChannelTables, KickType DEF JoinMemberFails, Kicks
<1>8. ASSUME NEW a \in Addr, NEW c \in Channel, JoinOk(a, c)
      PROVE  TypeOK'
  <2>1. connections[a] \in User
    BY <1>8 DEF JoinOk, Authed
  <2>2. db' \in DatabaseType
    BY <1>8, <2>1, WithChannelTables, JoinChannelTables DEF JoinOk
  <2>3. toldStatus' \in [Addr -> [User -> Views]]
    BY <1>8, <2>1, ToldTypes DEF JoinOk
  <2> QED
    BY <1>8, <2>1, <2>2, <2>3 DEF JoinOk
<1>9. ASSUME NEW a \in Addr, NEW c \in Channel, MsgOk(a, c)
      PROVE  TypeOK'
  <2>1. connections[a] \in User
    BY <1>9 DEF MsgOk, InChannel, Authed
  <2>2. toldStatus' \in [Addr -> [User -> Views]]
    BY <1>9, <2>1, ToldTypes DEF MsgOk
  <2> QED
    BY <1>9, <2>1, <2>2, AddMessageTables DEF MsgOk, memory
<1>10. ASSUME NEW a \in Addr, NEW C \in SUBSET Channel, HistoryOk(a, C)
       PROVE  TypeOK'
  <2>1. connections[a] \in User
    BY <1>10 DEF HistoryOk, Authed
  <2>2. toldStatus' \in [Addr -> [User -> Views]]
    BY <1>10, <2>1, ToldTypes DEF HistoryOk
  <2> QED
    BY <1>10, <2>2 DEF HistoryOk, memory
<1>11. ASSUME NEW a \in Addr, NEW c \in Channel, ViewingFails(a, c)
       PROVE  TypeOK'
  <2>1. connections[a] \in User
    BY <1>11 DEF ViewingFails, InChannel, Authed
  <2>2. \A stop : DropNoViewers(SetViewing(user[connections[a]], c, a, stop)) \in UserType
    BY <2>1, SetViewingFields, DropNoViewersFields
  <2> QED
    BY <1>11, <2>1, <2>2, KickType DEF ViewingFails, Kicks
<1>12. ASSUME NEW a \in Addr, NEW c \in Channel, ViewingStored(a, c)
       PROVE  TypeOK'
  <2> DEFINE u == connections[a]
             cleared == ClearLastRead(db, u, c)
  <2>1. u \in User /\ cleared \in DatabaseType
    BY <1>12, ClearLastReadTables DEF ViewingStored, InChannel, Authed
  <2>2. PICK stop \in StopChoice(user[u], a) :
          LET seen == SetViewing(user[u], c, a, stop)
              left == NoViewers(seen) \cap channels
          IN  /\ user' = [user EXCEPT ![u] = DropNoViewers(seen)]
              /\ \E done \in DoneChoice(cleared, u, left) :
                   /\ db' = SetLastRead(cleared, u, done)
                   /\ \/ /\ done = left
                         /\ toldViewing' = TellViewing(seen.connections, done, {c})
                         /\ UNCHANGED kicked
                      \/ /\ done # left
                         /\ toldViewing' = TellViewing(seen.connections, done, {})
                         /\ Kick(a, "Internal")
    BY <1>12 DEF ViewingStored
  <2> DEFINE seen == SetViewing(user[u], c, a, stop)
             left == NoViewers(seen) \cap channels
  <2>3. user' \in [User -> UserType]
    BY <2>1, <2>2, SetViewingFields, DropNoViewersFields
  <2>4. PICK done \in DoneChoice(cleared, u, left) :
          /\ db' = SetLastRead(cleared, u, done)
          /\ \/ toldViewing' = TellViewing(seen.connections, done, {c})
             \/ toldViewing' = TellViewing(seen.connections, done, {})
          /\ UNCHANGED kicked \/ Kick(a, "Internal")
    BY <2>2
  <2> HIDE DEF seen, cleared
  <2>5. db' \in DatabaseType
    BY <2>1, <2>4, DoneChoiceSound, SetLastReadTables
  <2>6. toldViewing' \in [Addr -> SUBSET Channel]
    <3>1. PICK come \in {{}, {c}} : toldViewing' = TellViewing(seen.connections, done, come)
      BY <2>4
    <3>2. come \in SUBSET Channel
      BY <3>1
    <3> QED
      BY <3>1, <3>2, TellViewingType
  <2>7. kicked' \in [Addr -> Kicks]
    BY <2>4, KickType DEF Kicks
  <2> QED
    BY <1>12, <2>3, <2>5, <2>6, <2>7 DEF ViewingStored
<1>13. ASSUME NEW a \in Addr, NotViewingOk(a)
       PROVE  TypeOK'
  <2> DEFINE u == connections[a]
  <2>1. u \in User
    BY <1>13 DEF NotViewingOk, Authed
  <2>2. PICK stop \in StopChoice(user[u], a) :
          LET seen == ClearViewing(user[u], a, stop)
              left == NoViewers(seen) \cap channels
          IN  /\ user' = [user EXCEPT ![u] = DropNoViewers(seen)]
              /\ \E done \in DoneChoice(db, u, left) :
                   /\ db' = SetLastRead(db, u, done)
                   /\ toldViewing' = TellViewing(seen.connections, done, {})
                   /\ \/ done = left /\ UNCHANGED kicked
                      \/ done # left /\ Kick(a, "Internal")
    BY <1>13 DEF NotViewingOk
  <2> DEFINE seen == ClearViewing(user[u], a, stop)
             left == NoViewers(seen) \cap channels
  <2>3. user' \in [User -> UserType]
    BY <2>1, <2>2, ClearViewingFields, DropNoViewersFields
  <2>4. PICK done \in DoneChoice(db, u, left) :
          /\ db' = SetLastRead(db, u, done)
          /\ toldViewing' = TellViewing(seen.connections, done, {})
          /\ UNCHANGED kicked \/ Kick(a, "Internal")
    BY <2>2
  <2> HIDE DEF seen
  <2>5. db' \in DatabaseType
    BY <2>1, <2>4, DoneChoiceSound, SetLastReadTables
  <2>6. toldViewing' \in [Addr -> SUBSET Channel]
    BY <2>4, TellViewingType
  <2>7. kicked' \in [Addr -> Kicks]
    BY <2>4, KickType DEF Kicks
  <2> QED
    BY <1>13, <2>3, <2>5, <2>6, <2>7 DEF NotViewingOk
<1>14. ASSUME NEW a \in Addr, DisconnectedAnonymous(a)
       PROVE  TypeOK'
  BY <1>14 DEF DisconnectedAnonymous, Kicks
<1>15. ASSUME NEW a \in Addr, DisconnectedUser(a)
       PROVE  TypeOK'
  <2> DEFINE u == connections[a]
  <2>1. u \in User
    BY <1>15 DEF DisconnectedUser, Authed
  <2>2. PICK stop \in StopChoice(user[u], a) :
          LET seen  == ClearViewing(RemoveConnection(user[u], a), a, stop)
              left  == NoViewers(seen) \cap channels
              after == [user EXCEPT ![u] = DropNoViewers(seen)]
              heard == IF GoesOffline(user[u], a) THEN StatusUpdate(toldStatus, u, after) ELSE toldStatus
          IN  /\ user' = after
              /\ toldStatus' = [heard EXCEPT ![a] = [v \in User |-> "Unknown"]]
              /\ \E done \in DoneChoice(db, u, left) :
                   /\ db' = SetLastRead(db, u, done)
                   /\ toldViewing' = [TellViewing(seen.connections, done, {}) EXCEPT ![a] = {}]
    BY <1>15 DEF DisconnectedUser
  <2> DEFINE seen  == ClearViewing(RemoveConnection(user[u], a), a, stop)
             left  == NoViewers(seen) \cap channels
             after == [user EXCEPT ![u] = DropNoViewers(seen)]
             heard == IF GoesOffline(user[u], a) THEN StatusUpdate(toldStatus, u, after) ELSE toldStatus
  <2>3. user' = after /\ after \in [User -> UserType]
    BY <2>1, <2>2, RemoveConnectionFields, ClearViewingFields, DropNoViewersFields
  <2>4. heard \in [Addr -> [User -> Views]]
    BY <2>1, <2>3, ToldTypes
  <2>5. toldStatus' \in [Addr -> [User -> Views]]
    BY <2>2, <2>4 DEF Views
  <2>6. PICK done \in DoneChoice(db, u, left) :
          /\ db' = SetLastRead(db, u, done)
          /\ toldViewing' = [TellViewing(seen.connections, done, {}) EXCEPT ![a] = {}]
    BY <2>2
  <2> HIDE DEF seen
  <2>7. db' \in DatabaseType
    BY <2>1, <2>6, DoneChoiceSound, SetLastReadTables
  <2>8. toldViewing' \in [Addr -> SUBSET Channel]
    BY <2>6, TellViewingType
  <2> HIDE DEF after
  <2> QED
    BY <1>15, <2>3, <2>5, <2>7, <2>8 DEF DisconnectedUser, Kicks
<1>16. CASE Restart
  BY <1>16, NewUserType DEF Restart, DatabaseType, MembersOf, Kicks, Views
<1>17. CASE UNCHANGED vars
  BY <1>17 DEF vars, memory, told
<1> QED
  BY <1>1, <1>2, <1>3, <1>4, <1>5, <1>6, <1>7, <1>8, <1>9, <1>10, <1>11, <1>12, <1>13,
     <1>14, <1>15, <1>16, <1>17, StepCases DEF ViewingStep

\* Every variable keeps its type.
THEOREM TypeCorrect == Spec => []TypeOK
<1>1. Init => TypeOK
  BY NewUserType DEF Init, TypeOK, DatabaseType, EmptyDatabase, Kicks, Views
<1>2. TypeOK /\ [Next]_vars => TypeOK'
  BY TypeOKStep
<1> QED
  BY <1>1, <1>2, PTL DEF Spec

-----------------------------------------------------------------------------
(* Sessions                                                                *)

\* The tables a message about viewing leaves alone: all but the read marks.
SameTables ==
  /\ db'.users = db.users
  /\ db'.channels = db.channels
  /\ db'.userChannels = db.userChannels
  /\ db'.messages = db.messages

\* VIEWING and NOTVIEWING change what a user views, and read marks; whatever the
\* database does, connections, statuses and tables of names stay as they are.
LEMMA ViewingEffect ==
  ASSUME TypeOK, NEW a \in Addr, ViewingStep(a)
  PROVE  /\ \A v \in User : /\ user'[v].connections = user[v].connections
                            /\ user'[v].status = user[v].status
         /\ SameTables
         /\ UNCHANGED <<users, channels, members, allConnections, unauth, connections, toldStatus>>
<1> DEFINE u == connections[a]
<1>1. u \in User /\ user \in [User -> UserType] /\ db \in DatabaseType /\ channels \in SUBSET Channel
  BY DEF ViewingStep, ViewingFails, ViewingStored, NotViewingOk, InChannel, Authed, TypeOK
<1>2. \A stop : /\ \A c \in Channel :
                     /\ SetViewing(user[u], c, a, stop) \in UserType
                     /\ SetViewing(user[u], c, a, stop).connections = user[u].connections
                     /\ SetViewing(user[u], c, a, stop).status = user[u].status
                /\ ClearViewing(user[u], a, stop) \in UserType
                /\ ClearViewing(user[u], a, stop).connections = user[u].connections
                /\ ClearViewing(user[u], a, stop).status = user[u].status
  BY <1>1, SetViewingFields, ClearViewingFields
<1>3. ASSUME NEW seen \in UserType, seen.connections = user[u].connections, seen.status = user[u].status,
             user' = [user EXCEPT ![u] = DropNoViewers(seen)]
      PROVE  \A v \in User : /\ user'[v].connections = user[v].connections
                             /\ user'[v].status = user[v].status
  BY <1>1, <1>3, DropNoViewersFields
<1>4. ASSUME NEW d \in DatabaseType, NEW left \in SUBSET Channel, NEW done \in DoneChoice(d, u, left),
             d = db \/ \E c \in Channel : d = ClearLastRead(db, u, c),
             db' = SetLastRead(d, u, done)
      PROVE  SameTables
  BY <1>1, <1>4, DoneChoiceSound, SetLastReadTables, ClearLastReadTables DEF SameTables
<1>5. ASSUME NEW c \in Channel, ViewingFails(a, c)
      PROVE  /\ \A v \in User : /\ user'[v].connections = user[v].connections
                                /\ user'[v].status = user[v].status
             /\ SameTables
             /\ UNCHANGED <<users, channels, members, allConnections, unauth, connections, toldStatus>>
  <2>1. PICK stop \in StopChoice(user[u], a) :
          user' = [user EXCEPT ![u] = DropNoViewers(SetViewing(@, c, a, stop))]
    BY <1>5 DEF ViewingFails
  <2>2. user' = [user EXCEPT ![u] = DropNoViewers(SetViewing(user[u], c, a, stop))]
    BY <2>1, <1>1
  <2> QED
    BY <1>5, <1>2, <1>3, <2>2 DEF ViewingFails, SameTables
<1>6. ASSUME NEW c \in Channel, ViewingStored(a, c)
      PROVE  /\ \A v \in User : /\ user'[v].connections = user[v].connections
                                /\ user'[v].status = user[v].status
             /\ SameTables
             /\ UNCHANGED <<users, channels, members, allConnections, unauth, connections, toldStatus>>
  <2> DEFINE cleared == ClearLastRead(db, u, c)
  <2>1. PICK stop \in StopChoice(user[u], a) :
          LET seen == SetViewing(user[u], c, a, stop)
              left == NoViewers(seen) \cap channels
          IN  /\ user' = [user EXCEPT ![u] = DropNoViewers(seen)]
              /\ \E done \in DoneChoice(cleared, u, left) : db' = SetLastRead(cleared, u, done)
    BY <1>6 DEF ViewingStored
  <2>2. cleared \in DatabaseType /\ NoViewers(SetViewing(user[u], c, a, stop)) \cap channels \in SUBSET Channel
    BY <1>1, ClearLastReadTables
  <2> QED
    BY <1>6, <1>2, <1>3, <1>4, <2>1, <2>2 DEF ViewingStored
<1>7. CASE NotViewingOk(a)
  <2>1. PICK stop \in StopChoice(user[u], a) :
          LET seen == ClearViewing(user[u], a, stop)
              left == NoViewers(seen) \cap channels
          IN  /\ user' = [user EXCEPT ![u] = DropNoViewers(seen)]
              /\ \E done \in DoneChoice(db, u, left) : db' = SetLastRead(db, u, done)
    BY <1>7 DEF NotViewingOk
  <2>2. NoViewers(ClearViewing(user[u], a, stop)) \cap channels \in SUBSET Channel
    BY <1>1
  <2> QED
    BY <1>7, <1>1, <1>2, <1>3, <1>4, <2>1, <2>2 DEF NotViewingOk
<1> QED
  BY <1>5, <1>6, <1>7 DEF ViewingStep

\* A user that disconnects loses this connection, and goes offline with the
\* last one; other users and the tables of names stay as they are.
LEMMA DisconnectedUserEffect ==
  ASSUME TypeOK, NEW a \in Addr, DisconnectedUser(a)
  PROVE  /\ connections[a] \in users
         /\ user'[connections[a]].connections = user[connections[a]].connections \ {a}
         /\ user'[connections[a]].status = IF GoesOffline(user[connections[a]], a)
                                           THEN "Offline" ELSE user[connections[a]].status
         /\ \A v \in User \ {connections[a]} : user'[v] = user[v]
         /\ SameTables
<1> DEFINE u == connections[a]
<1>1. u \in users /\ u \in User /\ user \in [User -> UserType] /\ db \in DatabaseType /\ channels \in SUBSET Channel
  BY DEF DisconnectedUser, Authed, TypeOK
<1>2. PICK stop \in StopChoice(user[u], a) :
        LET seen == ClearViewing(RemoveConnection(user[u], a), a, stop)
            left == NoViewers(seen) \cap channels
        IN  /\ user' = [user EXCEPT ![u] = DropNoViewers(seen)]
            /\ \E done \in DoneChoice(db, u, left) : db' = SetLastRead(db, u, done)
  BY DEF DisconnectedUser
<1> DEFINE seen == ClearViewing(RemoveConnection(user[u], a), a, stop)
           left == NoViewers(seen) \cap channels
<1>3. /\ seen \in UserType
      /\ seen.connections = user[u].connections \ {a}
      /\ seen.status = IF GoesOffline(user[u], a) THEN "Offline" ELSE user[u].status
  <2>1. /\ RemoveConnection(user[u], a) \in UserType
        /\ RemoveConnection(user[u], a).connections = user[u].connections \ {a}
        /\ RemoveConnection(user[u], a).status =
             IF user[u].connections \subseteq {a} THEN "Offline" ELSE user[u].status
    BY <1>1, RemoveConnectionFields
  <2> QED
    BY <2>1, ClearViewingFields DEF GoesOffline
<1>4. user' = [user EXCEPT ![u] = DropNoViewers(seen)]
  BY <1>2
<1>5. PICK done \in DoneChoice(db, u, left) : db' = SetLastRead(db, u, done)
  BY <1>2
<1> HIDE DEF seen
<1>6. SameTables
  BY <1>1, <1>5, DoneChoiceSound, SetLastReadTables DEF SameTables
<1> QED
  BY <1>1, <1>3, <1>4, <1>6, DropNoViewersFields

\* The steps that touch no session.
LEMMA QuietSteps ==
  /\ \A late : CheckUnauthUsers(late) => UNCHANGED <<users, user, allConnections, unauth, connections>>
  /\ \A a, e : Reject(a, e) => UNCHANGED <<users, user, allConnections, unauth, connections>>
  /\ \A a, u : RegisterTooLate(a, u) => UNCHANGED <<users, user, allConnections, unauth, connections>>
  /\ \A a, c : JoinMemberFails(a, c) => UNCHANGED <<users, user, allConnections, unauth, connections>>
  /\ \A a, c : JoinOk(a, c) => UNCHANGED <<users, user, allConnections, unauth, connections>>
  /\ \A a, c : MsgOk(a, c) => UNCHANGED <<users, user, allConnections, unauth, connections>>
  /\ \A a, C : HistoryOk(a, C) => UNCHANGED <<users, user, allConnections, unauth, connections>>
  /\ UNCHANGED vars => UNCHANGED <<users, user, allConnections, unauth, connections>>
  BY DEF CheckUnauthUsers, Reject, RegisterTooLate, JoinMemberFails, JoinOk, MsgOk, HistoryOk,
         vars, memory

\* Every step keeps the tables of connections in agreement.
LEMMA SessionTablesStep ==
  ASSUME TypeOK, SessionTables, [Next]_vars
  PROVE  SessionTables'
<1>1. ASSUME UNCHANGED <<users, user, allConnections, unauth, connections>>
      PROVE  SessionTables'
  BY <1>1 DEF SessionTables
<1>2. ASSUME NEW a \in Addr, NewConnection(a)
      PROVE  SessionTables'
  BY <1>2 DEF NewConnection, SessionTables, TypeOK
<1>3. ASSUME NEW a \in Addr, NEW u \in User, a \in allConnections, IdentOk(a, u)
      PROVE  SessionTables'
  <2>1. connections[a] = NoUser /\ u \in users
    BY <1>3 DEF IdentOk, SessionTables
  <2>2. /\ user'[u].connections = user[u].connections \cup {a}
        /\ \A v \in User \ {u} : user'[v] = user[v]
        /\ \A x \in Addr : connections'[x] = IF x = a THEN u ELSE connections[x]
        /\ unauth' = unauth \ {a}
        /\ UNCHANGED <<users, allConnections>>
    BY <1>3, AddConnectionFields DEF IdentOk, Identify, TypeOK
  <2> QED
    BY <1>3, <2>1, <2>2, NamesAssumption DEF SessionTables
<1>4. ASSUME NEW a \in Addr, NEW u \in User, a \in allConnections, RegisterOk(a, u)
      PROVE  SessionTables'
  <2>1. connections[a] = NoUser /\ u \notin users
    BY <1>4 DEF RegisterOk, SessionTables
  <2>2. \A x \in Addr : connections[x] # u
    BY <2>1, NamesAssumption DEF SessionTables
  <2>3. AddConnection(NewUser, a).connections = {a}
    BY NewUserType, AddConnectionFields DEF NewUser
  <2>4. /\ user'[u].connections = {a}
        /\ \A v \in User \ {u} : user'[v] = user[v]
        /\ \A x \in Addr : connections'[x] = IF x = a THEN u ELSE connections[x]
        /\ unauth' = unauth \ {a}
        /\ users' = users \cup {u}
        /\ UNCHANGED allConnections
    BY <1>4, <2>3 DEF RegisterOk, TypeOK
  <2> QED
    BY <1>4, <2>1, <2>2, <2>4, NamesAssumption DEF SessionTables
<1>5. ASSUME NEW a \in Addr, ViewingStep(a)
      PROVE  SessionTables'
  <2>1. /\ \A v \in User : user'[v].connections = user[v].connections
        /\ UNCHANGED <<users, allConnections, unauth, connections>>
    BY <1>5, ViewingEffect
  <2> QED
    BY <2>1 DEF SessionTables
<1>6. ASSUME NEW a \in Addr, DisconnectedAnonymous(a)
      PROVE  SessionTables'
  BY <1>6 DEF DisconnectedAnonymous, SessionTables, TypeOK
<1>7. ASSUME NEW a \in Addr, DisconnectedUser(a)
      PROVE  SessionTables'
  <2> DEFINE u == connections[a]
  <2>1. /\ \A x \in Addr : connections'[x] = IF x = a THEN NoUser ELSE connections[x]
        /\ allConnections' = allConnections \ {a}
        /\ unauth' = unauth \ {a}
        /\ UNCHANGED users
    BY <1>7 DEF DisconnectedUser, TypeOK
  <2>2. /\ u \in users /\ u \in User
        /\ user'[u].connections = user[u].connections \ {a}
        /\ \A v \in User \ {u} : user'[v] = user[v]
    BY <1>7, DisconnectedUserEffect DEF TypeOK
  <2> QED
    BY <2>1, <2>2, NamesAssumption DEF SessionTables
<1>8. CASE Restart
  BY <1>8, NamesAssumption DEF Restart, NewUser, SessionTables
<1> QED
  BY <1>1, <1>2, <1>3, <1>4, <1>5, <1>6, <1>7, <1>8, StepCases, QuietSteps

\* Every address the manager tracks is either waiting to identify or a connection
\* of exactly the user it identified as, through every command and disconnection.
THEOREM SessionsConsistent == Spec => []SessionTables
<1>1. Init => SessionTables
  BY NamesAssumption DEF Init, SessionTables, NewUser
<1>2. TypeOK /\ SessionTables /\ [Next]_vars => SessionTables'
  BY SessionTablesStep
<1> QED
  BY <1>1, <1>2, TypeCorrect, PTL DEF Spec

\* Every step keeps the status of a user in line with its connections.
LEMMA OnlineIffConnectedStep ==
  ASSUME TypeOK, OnlineIffConnected, [Next]_vars
  PROVE  OnlineIffConnected'
<1>1. ASSUME UNCHANGED user
      PROVE  OnlineIffConnected'
  BY <1>1 DEF OnlineIffConnected
<1>2. ASSUME NEW a \in Addr, NEW u \in User, IdentOk(a, u) \/ RegisterOk(a, u)
      PROVE  OnlineIffConnected'
  <2>1. \A r \in UserType : /\ AddConnection(r, a).status = "Online"
                            /\ AddConnection(r, a).connections # {}
    BY AddConnectionFields
  <2>2. \E r \in UserType : user' = [user EXCEPT ![u] = AddConnection(r, a)]
    BY <1>2, NewUserType DEF IdentOk, Identify, RegisterOk, TypeOK
  <2> QED
    BY <2>1, <2>2 DEF OnlineIffConnected, TypeOK
<1>3. ASSUME NEW a \in Addr, ViewingStep(a)
      PROVE  OnlineIffConnected'
  <2>1. \A v \in User : /\ user'[v].connections = user[v].connections
                        /\ user'[v].status = user[v].status
    BY <1>3, ViewingEffect
  <2> QED
    BY <2>1 DEF OnlineIffConnected
<1>4. ASSUME NEW a \in Addr, DisconnectedUser(a)
      PROVE  OnlineIffConnected'
  <2> DEFINE u == connections[a]
  <2>1. /\ u \in User /\ user[u].connections \in SUBSET Addr
        /\ user'[u].connections = user[u].connections \ {a}
        /\ user'[u].status = IF user[u].connections \subseteq {a} THEN "Offline" ELSE user[u].status
        /\ \A v \in User \ {u} : user'[v] = user[v]
    BY <1>4, DisconnectedUserEffect DEF TypeOK, UserType, GoesOffline
  <2> QED
    BY <2>1 DEF OnlineIffConnected
<1>5. CASE Restart
  BY <1>5 DEF Restart, NewUser, OnlineIffConnected
<1>6. \A a : NewConnection(a) \/ DisconnectedAnonymous(a) => UNCHANGED user
  BY DEF NewConnection, DisconnectedAnonymous
<1> QED
  BY <1>1, <1>2, <1>3, <1>4, <1>5, <1>6, StepCases, QuietSteps

\* A user is Online exactly while it has a connection.
THEOREM PresenceCorrect == Spec => []OnlineIffConnected
<1>1. Init => OnlineIffConnected
  BY DEF Init, OnlineIffConnected, NewUser
<1>2. TypeOK /\ OnlineIffConnected /\ [Next]_vars => OnlineIffConnected'
  BY OnlineIffConnectedStep
<1> QED
  BY <1>1, <1>2, TypeCorrect, PTL DEF Spec

-----------------------------------------------------------------------------
(* Memory and database                                                     *)

\* What MemoryMirrorsDatabase is about.
Mirrored == <<users, channels, members>>

\* The tables it is about.
SameTablesButMessages ==
  /\ db'.users = db.users
  /\ db'.channels = db.channels
  /\ db'.userChannels = db.userChannels

\* The steps that change neither side of it.
LEMMA StepsKeepingNames ==
  ASSUME TypeOK
  PROVE  /\ \A a : NewConnection(a) => SameTables /\ UNCHANGED Mirrored
         /\ \A late : CheckUnauthUsers(late) => SameTables /\ UNCHANGED Mirrored
         /\ \A a, e : Reject(a, e) => SameTables /\ UNCHANGED Mirrored
         /\ \A a, u : IdentOk(a, u) => SameTables /\ UNCHANGED Mirrored
         /\ \A a, C : HistoryOk(a, C) => SameTables /\ UNCHANGED Mirrored
         /\ \A a \in Addr : ViewingStep(a) => SameTables /\ UNCHANGED Mirrored
         /\ \A a : DisconnectedAnonymous(a) => SameTables /\ UNCHANGED Mirrored
         /\ \A a \in Addr : DisconnectedUser(a) => SameTables /\ UNCHANGED Mirrored
         /\ UNCHANGED vars => SameTables /\ UNCHANGED Mirrored
<1>1. \A a \in Addr : ViewingStep(a) => SameTables /\ UNCHANGED Mirrored
  BY ViewingEffect DEF Mirrored
<1>2. \A a \in Addr : DisconnectedUser(a) => SameTables
  BY DisconnectedUserEffect
<1>3. \A a \in Addr : DisconnectedUser(a) => UNCHANGED Mirrored
  BY DEF DisconnectedUser, Mirrored
<1> QED
  BY <1>1, <1>2, <1>3 DEF NewConnection, CheckUnauthUsers, Reject, IdentOk, HistoryOk,
     DisconnectedAnonymous, SameTables, Mirrored, vars, memory

\* Every step keeps the memory and the tables it was read from equal.
LEMMA MirrorStep ==
  ASSUME TypeOK, MemoryMirrorsDatabase, [Next]_vars
  PROVE  MemoryMirrorsDatabase'
<1>1. ASSUME SameTables, UNCHANGED Mirrored
      PROVE  MemoryMirrorsDatabase'
  BY <1>1 DEF SameTables, Mirrored, MembersOf, MemoryMirrorsDatabase
<1>2. ASSUME NEW a \in Addr, NEW u \in User, RegisterTooLate(a, u) \/ RegisterOk(a, u)
      PROVE  MemoryMirrorsDatabase'
  <2>1. /\ db' = RegisterUser(db, u)
        /\ users' = users \/ users' = users \cup {u}
        /\ UNCHANGED <<channels, members>>
    BY <1>2 DEF RegisterTooLate, RegisterOk, memory
  <2>2. /\ db'.users = db.users \cup {u}
        /\ db'.channels = db.channels
        /\ db'.userChannels = db.userChannels
    BY <2>1, RegisterUserTables DEF TypeOK
  <2> QED
    BY <2>1, <2>2 DEF MembersOf, MemoryMirrorsDatabase
<1>3. ASSUME NEW a \in Addr, NEW c \in Channel, JoinMemberFails(a, c)
      PROVE  MemoryMirrorsDatabase'
  <2>1. /\ db' = WithChannel(c)
        /\ channels' = channels \cup {c}
        /\ UNCHANGED <<users, members>>
    BY <1>3 DEF JoinMemberFails
  <2>2. /\ db'.users = db.users
        /\ db'.channels = db.channels \cup {c}
        /\ db'.userChannels = db.userChannels
    BY <2>1, WithChannelTables DEF TypeOK, MemoryMirrorsDatabase
  <2> QED
    BY <2>1, <2>2 DEF MembersOf, MemoryMirrorsDatabase
<1>4. ASSUME NEW a \in Addr, NEW c \in Channel, JoinOk(a, c)
      PROVE  MemoryMirrorsDatabase'
  <2> DEFINE u == connections[a]
  <2>1. /\ u \in users /\ u \in User
        /\ db' = JoinChannel(WithChannel(c), u, c)
        /\ channels' = channels \cup {c}
        /\ \A d \in Channel : members'[d] = IF d = c THEN members[d] \cup {u} ELSE members[d]
        /\ UNCHANGED users
    BY <1>4 DEF JoinOk, Authed, TypeOK
  <2>2. /\ WithChannel(c) \in DatabaseType
        /\ WithChannel(c).users = db.users
        /\ WithChannel(c).channels = db.channels \cup {c}
        /\ WithChannel(c).userChannels = db.userChannels
    BY WithChannelTables DEF TypeOK, MemoryMirrorsDatabase
  <2>3. /\ db'.users = db.users
        /\ db'.channels = db.channels \cup {c}
        /\ db'.userChannels = db.userChannels \cup {<<u, c>>}
    BY <2>1, <2>2, JoinChannelTables
  <2>4. \A d \in Channel : MembersOf(db', d) = IF d = c THEN MembersOf(db, d) \cup {u} ELSE MembersOf(db, d)
    BY <2>1, <2>3 DEF MembersOf
  <2>5. \A d \in Channel : members'[d] = MembersOf(db', d) /\ members'[d] \subseteq users'
    BY <2>1, <2>4 DEF MemoryMirrorsDatabase
  <2>6. db'.userChannels \subseteq db'.users \X db'.channels
    BY <2>1, <2>3 DEF MemoryMirrorsDatabase
  <2> QED
    BY <2>1, <2>3, <2>5, <2>6 DEF MemoryMirrorsDatabase
<1>5. ASSUME NEW a \in Addr, NEW c \in Channel, MsgOk(a, c)
      PROVE  SameTablesButMessages /\ UNCHANGED Mirrored
  <2>1. connections[a] \in User
    BY <1>5 DEF MsgOk, InChannel, Authed, TypeOK
  <2> QED
    BY <1>5, <2>1, AddMessageTables DEF MsgOk, memory, Mirrored, TypeOK, SameTablesButMessages
<1>6. ASSUME SameTablesButMessages, UNCHANGED Mirrored
      PROVE  MemoryMirrorsDatabase'
  BY <1>6 DEF SameTablesButMessages, Mirrored, MembersOf, MemoryMirrorsDatabase
<1>7. CASE Restart
  BY <1>7 DEF Restart, MembersOf, MemoryMirrorsDatabase, TypeOK, DatabaseType
<1> QED
  BY <1>1, <1>2, <1>3, <1>4, <1>5, <1>6, <1>7, StepCases, StepsKeepingNames

\* Memory holds what the database would give back, whatever statement fails and
\* whenever the process is restarted.
THEOREM MirrorCorrect == Spec => []MemoryMirrorsDatabase
<1>1. Init => MemoryMirrorsDatabase
  BY DEF Init, MemoryMirrorsDatabase, EmptyDatabase, MembersOf
<1>2. TypeOK /\ MemoryMirrorsDatabase /\ [Next]_vars => MemoryMirrorsDatabase'
  BY MirrorStep
<1> QED
  BY <1>1, <1>2, TypeCorrect, PTL DEF Spec

\* No user that could log in and no membership is ever lost.
THEOREM NothingAcknowledgedIsLost == Spec => AcknowledgedSurvives
<1> DEFINE Kept == users \subseteq users' /\ \A c \in Channel : members[c] \subseteq members'[c]
<1>1. ASSUME TypeOK, MemoryMirrorsDatabase, [Next]_vars
      PROVE  Kept
  <2>1. ASSUME Restart PROVE Kept
    BY <1>1, <2>1 DEF Restart, MemoryMirrorsDatabase, TypeOK, MembersOf
  <2>2. ASSUME NEW a \in Addr, NEW c \in Channel, JoinOk(a, c) PROVE Kept
    BY <1>1, <2>2 DEF JoinOk, TypeOK
  <2>3. ASSUME NEW a \in Addr, NEW u \in User, RegisterOk(a, u) PROVE Kept
    BY <2>3 DEF RegisterOk
  <2>4. ASSUME UNCHANGED Mirrored PROVE Kept
    BY <2>4 DEF Mirrored
  <2>5. /\ \A a, u : RegisterTooLate(a, u) => UNCHANGED Mirrored
        /\ \A a, c : MsgOk(a, c) => UNCHANGED Mirrored
        /\ \A a, c : JoinMemberFails(a, c) => UNCHANGED <<users, members>>
    BY DEF RegisterTooLate, MsgOk, JoinMemberFails, Mirrored, memory
  <2>6. ASSUME UNCHANGED <<users, members>> PROVE Kept
    BY <2>6
  <2> HIDE DEF Kept
  <2> QED
    BY <1>1, <2>1, <2>2, <2>3, <2>4, <2>5, <2>6, StepCases, StepsKeepingNames
<1> QED
  BY <1>1, TypeCorrect, MirrorCorrect, PTL DEF Spec, AcknowledgedSurvives

-----------------------------------------------------------------------------
(* What connections know of the status of others                           *)

\* A message is in a channel its author is a member of, so that the authors in
\* a HISTORY are users whose changes of status the reader is told.
AuthorsAreMembers ==
  \A i \in DOMAIN db.messages :
    /\ db.messages[i].channel \in channels
    /\ db.messages[i].user \in members[db.messages[i].channel]

\* No step makes the author of a stored message leave its channel.
LEMMA AuthorsStep ==
  ASSUME TypeOK, MemoryMirrorsDatabase, AuthorsAreMembers, [Next]_vars
  PROVE  AuthorsAreMembers'
<1>1. ASSUME db'.messages = db.messages, channels \subseteq channels',
             \A c \in Channel : members[c] \subseteq members'[c]
      PROVE  AuthorsAreMembers'
  BY <1>1 DEF AuthorsAreMembers, TypeOK, DatabaseType, Message
<1>2. ASSUME SameTables, UNCHANGED Mirrored
      PROVE  AuthorsAreMembers'
  BY <1>1, <1>2 DEF SameTables, Mirrored
<1>3. ASSUME NEW a \in Addr, NEW u \in User, RegisterTooLate(a, u) \/ RegisterOk(a, u)
      PROVE  AuthorsAreMembers'
  BY <1>1, <1>3, RegisterUserTables DEF RegisterTooLate, RegisterOk, memory, TypeOK
<1>4. ASSUME NEW a \in Addr, NEW c \in Channel, JoinMemberFails(a, c)
      PROVE  AuthorsAreMembers'
  BY <1>1, <1>4, WithChannelTables DEF JoinMemberFails, TypeOK
<1>5. ASSUME NEW a \in Addr, NEW c \in Channel, JoinOk(a, c)
      PROVE  AuthorsAreMembers'
  <2>1. connections[a] \in User /\ WithChannel(c) \in DatabaseType /\ WithChannel(c).messages = db.messages
    BY <1>5, WithChannelTables DEF JoinOk, Authed, TypeOK
  <2>2. db'.messages = db.messages
    BY <1>5, <2>1, JoinChannelTables DEF JoinOk
  <2> QED
    BY <1>1, <1>5, <2>2 DEF JoinOk, TypeOK
<1>6. ASSUME NEW a \in Addr, NEW c \in Channel, MsgOk(a, c)
      PROVE  AuthorsAreMembers'
  <2> DEFINE u == connections[a]
             m == [user |-> u, channel |-> c]
  <2>1. /\ u \in User /\ c \in channels /\ u \in members[c]
        /\ db' = AddMessage(db, u, c)
        /\ UNCHANGED <<channels, members>>
    BY <1>6 DEF MsgOk, InChannel, Authed, TypeOK, memory
  <2>2. db'.messages = Append(db.messages, m) /\ db.messages \in Seq(Message) /\ m \in Message
    BY <2>1, AddMessageTables DEF TypeOK, DatabaseType, Message
  <2>3. \A i \in DOMAIN db'.messages :
          \/ i \in DOMAIN db.messages /\ db'.messages[i] = db.messages[i]
          \/ db'.messages[i] = m
    BY <2>2
  <2> QED
    BY <2>1, <2>3 DEF AuthorsAreMembers
<1>7. CASE Restart
  <2>1. \A c \in Channel : members[c] \subseteq members'[c]
    BY <1>7 DEF Restart, MemoryMirrorsDatabase, MembersOf
  <2> QED
    BY <1>1, <1>7, <2>1 DEF Restart, MemoryMirrorsDatabase
<1>8. \/ SameTables /\ UNCHANGED Mirrored
      \/ \E a \in Addr, u \in User : RegisterTooLate(a, u) \/ RegisterOk(a, u)
      \/ \E a \in Addr, c \in Channel : JoinMemberFails(a, c) \/ JoinOk(a, c) \/ MsgOk(a, c)
      \/ Restart
  BY StepCases, StepsKeepingNames
<1> QED
  BY <1>2, <1>3, <1>4, <1>5, <1>6, <1>7, <1>8

\* Sharing a channel is symmetric, only users share channels, and a user keeps
\* the ones it shares a channel with.
LEMMA ComembersFacts ==
  ASSUME NEW w \in users, NEW v \in Comembers(w)
  PROVE  v \in users /\ w \in Comembers(v)
  BY DEF Comembers, ChannelsOf, MembersIn

\* Users keep the ones they share a channel with: users, channels and members
\* are never removed while the process runs.
LEMMA ComembersGrow ==
  ASSUME TypeOK, users \subseteq users', channels \subseteq channels',
         \A c \in Channel : members[c] \subseteq members'[c], NEW w
  PROVE  Comembers(w) \subseteq Comembers(w)'
  BY DEF Comembers, ChannelsOf, MembersIn, TypeOK

\* What TellStatus changes.
LEMMA TellStatusEffect ==
  ASSUME NEW t, NEW X, NEW V, NEW r, NEW x \in Addr, NEW v \in User
  PROVE  TellStatus(t, X, V, r)[x][v] = IF x \in X /\ v \in V THEN r[v].status ELSE t[x][v]
  BY DEF TellStatus

\* An address that is told of u by a status update is one of a user sharing a
\* channel with u; one that is not told and is not an address of u knew nothing
\* of u.
LEMMA StatusUpdateEffect ==
  ASSUME TypeOK, SessionTables, KnownStatusIsCurrent,
         NEW u \in users, NEW after,
         \A v \in User \ {u} : after[v].connections = user[v].connections,
         NEW x \in Addr, connections[x] # u
  PROVE  /\ \A v \in User \ {u} : StatusUpdate(toldStatus, u, after)[x][v] = toldStatus[x][v]
         /\ StatusUpdate(toldStatus, u, after)[x][u] # "Unknown" =>
              /\ connections[x] # NoUser
              /\ u \in Comembers(connections[x])
              /\ StatusUpdate(toldStatus, u, after)[x][u] = after[u].status
<1> DEFINE X == AddrsOf(after, Comembers(u) \ {u})
<1>1. u \in User
  BY DEF TypeOK
<1>2. \A v \in User : StatusUpdate(toldStatus, u, after)[x][v] =
        IF x \in X /\ v = u THEN after[v].status ELSE toldStatus[x][v]
  BY TellStatusEffect DEF StatusUpdate
<1>3. CASE x \in X
  <2>1. PICK w \in Comembers(u) \ {u} : x \in after[w].connections
    BY <1>3 DEF AddrsOf
  <2>2. w \in users /\ w \in User /\ u \in Comembers(w)
    BY <2>1, ComembersFacts DEF TypeOK
  <2>3. connections[x] = w /\ w # NoUser
    BY <2>1, <2>2, NamesAssumption DEF SessionTables
  <2> QED
    BY <1>1, <1>2, <1>3, <2>2, <2>3
<1>4. CASE x \notin X
  <2>1. SUFFICES ASSUME toldStatus[x][u] # "Unknown" PROVE FALSE
    BY <1>1, <1>2, <1>4
  <2> DEFINE w == connections[x]
  <2>2. w \in users /\ w \in User /\ w # u /\ u \in Comembers(w)
    BY <1>1, <2>1 DEF KnownStatusIsCurrent, SessionTables, TypeOK
  <2>3. w \in Comembers(u) \ {u}
    BY <2>2, ComembersFacts
  <2>4. x \in after[w].connections
    BY <2>2 DEF SessionTables
  <2> QED
    BY <1>4, <2>3, <2>4 DEF AddrsOf
<1> QED
  BY <1>3, <1>4

\* Every step tells whoever was told a status that it has changed.
LEMMA KnownStatusStep ==
  ASSUME TypeOK, SessionTables, OnlineIffConnected, MemoryMirrorsDatabase, AuthorsAreMembers,
         KnownStatusIsCurrent, [Next]_vars
  PROVE  KnownStatusIsCurrent'
<1>1. ASSUME UNCHANGED <<connections, toldStatus>>, \A v \in User : user'[v].status = user[v].status,
             \A w : Comembers(w) \subseteq Comembers(w)'
      PROVE  KnownStatusIsCurrent'
  BY <1>1 DEF KnownStatusIsCurrent, TypeOK
<1>2. ASSUME UNCHANGED <<users, channels, members>>
      PROVE  \A w : Comembers(w)' = Comembers(w)
  BY <1>2 DEF Comembers, ChannelsOf, MembersIn
<1>3. ASSUME NEW a \in Addr, NEW u \in User, a \in allConnections, IdentOk(a, u)
      PROVE  KnownStatusIsCurrent'
  <2> DEFINE after == [user EXCEPT ![u] = AddConnection(@, a)]
             seen  == IF ComesOnline(user[u]) THEN StatusUpdate(toldStatus, u, after) ELSE toldStatus
  <2>1. /\ u \in users /\ connections[a] = NoUser
        /\ user' = after
        /\ toldStatus' = TellStatus(seen, {a}, Comembers(u), after)
        /\ \A x \in Addr : connections'[x] = IF x = a THEN u ELSE connections[x]
        /\ UNCHANGED <<users, channels, members>>
    BY <1>3 DEF IdentOk, Identify, SessionTables, TypeOK
  <2>2. /\ after[u].status = "Online"
        /\ \A v \in User \ {u} : after[v] = user[v]
    BY AddConnectionFields DEF TypeOK
  <2> HIDE DEF after
  <2>3. \A x \in Addr, v \in User :
          toldStatus'[x][v] = IF x = a /\ v \in Comembers(u) THEN after[v].status ELSE seen[x][v]
    BY <2>1, TellStatusEffect
  <2>4. ASSUME NEW x \in Addr, NEW v \in User, seen[x][v] # "Unknown"
        PROVE  /\ connections[x] # NoUser
               /\ v \in Comembers(connections[x])
               /\ seen[x][v] = after[v].status
    <3>1. ASSUME NEW w \in User, toldStatus[x][w] # "Unknown"
          PROVE  /\ connections[x] # NoUser
                 /\ w \in Comembers(connections[x])
                 /\ toldStatus[x][w] = user[w].status
      BY <3>1 DEF KnownStatusIsCurrent
    <3>2. CASE ~ComesOnline(user[u])
      BY <2>2, <2>4, <3>1, <3>2 DEF ComesOnline
    <3>3. CASE ComesOnline(user[u])
      <4>1. connections[x] # u
        BY <3>3 DEF ComesOnline, OnlineIffConnected, SessionTables
      <4>2. /\ \A w \in User \ {u} : seen[x][w] = toldStatus[x][w]
            /\ seen[x][u] # "Unknown" =>
                 /\ connections[x] # NoUser
                 /\ u \in Comembers(connections[x])
                 /\ seen[x][u] = after[u].status
        BY <2>1, <2>2, <3>3, <4>1, StatusUpdateEffect
      <4> QED
        BY <2>2, <2>4, <3>1, <4>2
    <3> QED
      BY <3>2, <3>3
  <2> HIDE DEF seen
  <2>5. u \in User /\ u # NoUser
    BY NamesAssumption
  <2>6. ASSUME NEW x \in Addr, NEW v \in User, toldStatus'[x][v] # "Unknown"
        PROVE  /\ connections'[x] # NoUser
               /\ v \in Comembers(connections'[x])
               /\ toldStatus'[x][v] = user'[v].status
    <3>1. CASE x = a /\ v \in Comembers(u)
      BY <2>1, <2>3, <2>5, <3>1
    <3>2. CASE ~(x = a /\ v \in Comembers(u))
      <4>1. seen[x][v] # "Unknown" /\ toldStatus'[x][v] = seen[x][v]
        BY <2>3, <2>6, <3>2
      <4>2. x # a
        BY <2>1, <2>4, <4>1
      <4> QED
        BY <2>1, <2>4, <4>1, <4>2
    <3> QED
      BY <3>1, <3>2
  <2>7. \A w : Comembers(w)' = Comembers(w)
    BY <1>2, <2>1
  <2> QED
    BY <2>6, <2>7 DEF KnownStatusIsCurrent
<1>4. ASSUME NEW a \in Addr, NEW u \in User, a \in allConnections, RegisterOk(a, u)
      PROVE  KnownStatusIsCurrent'
  <2>1. /\ u \notin users /\ connections[a] = NoUser
        /\ \A v \in User \ {u} : user'[v] = user[v]
        /\ \A x \in Addr : connections'[x] = IF x = a THEN u ELSE connections[x]
        /\ users' = users \cup {u}
        /\ UNCHANGED <<channels, members, toldStatus>>
    BY <1>4 DEF RegisterOk, SessionTables, TypeOK
  <2>2. \A w : Comembers(w) \subseteq Comembers(w)'
    BY <2>1, ComembersGrow
  <2>3. \A x \in Addr, v \in User : toldStatus[x][v] # "Unknown" =>
          /\ connections[x] \in users
          /\ v \in users
          /\ x # a /\ v # u
    BY <2>1, ComembersFacts DEF KnownStatusIsCurrent, SessionTables
  <2> QED
    BY <2>1, <2>2, <2>3 DEF KnownStatusIsCurrent
<1>5. ASSUME NEW a \in Addr, NEW c \in Channel, JoinOk(a, c)
      PROVE  KnownStatusIsCurrent'
  <2> DEFINE u == connections[a]
             inside == Inside(u, c)
             joined == TellStatus(toldStatus, AddrsOf(user, inside), {u}, user)
  <2>1. /\ u \in users /\ u \in User /\ u # NoUser
        /\ toldStatus' = TellStatus(joined, {a} \cap user[u].connections, inside, user)
        /\ c \in channels'
        /\ channels \subseteq channels'
        /\ \A d \in Channel : members'[d] = IF d = c THEN members[d] \cup {u} ELSE members[d]
        /\ UNCHANGED <<users, user, connections>>
    BY <1>5, NamesAssumption DEF JoinOk, Authed, TypeOK
  <2>2. \A w : Comembers(w) \subseteq Comembers(w)'
    BY <2>1, ComembersGrow
  <2>3. \A w1, w2 \in inside : w1 \in Comembers(w2)'
    <3>1. c \in Channel /\ inside \subseteq members'[c] \cap users'
      BY <2>1 DEF Inside
    <3> HIDE DEF inside
    <3> QED
      BY <2>1, <3>1 DEF Comembers, ChannelsOf, MembersIn
  <2>4. \A x \in AddrsOf(user, inside) : x \in Addr => connections[x] \in inside /\ connections[x] # NoUser
    BY NamesAssumption DEF Inside, AddrsOf, SessionTables, TypeOK
  <2>5. \A x \in Addr, v \in User :
          toldStatus'[x][v] = IF \/ x = a /\ x \in user[u].connections /\ v \in inside
                                 \/ x \in AddrsOf(user, inside) /\ v = u
                              THEN user[v].status ELSE toldStatus[x][v]
    BY <2>1, TellStatusEffect
  <2>6. u \in inside
    BY <2>1 DEF Inside
  <2> HIDE DEF inside
  <2>7. ASSUME NEW x \in Addr, NEW v \in User, toldStatus'[x][v] # "Unknown"
        PROVE  /\ connections[x] # NoUser
               /\ v \in Comembers(connections[x])'
               /\ toldStatus'[x][v] = user[v].status
    <3>1. CASE x = a /\ x \in user[u].connections /\ v \in inside
      BY <2>1, <2>3, <2>5, <2>6, <3>1
    <3>2. CASE x \in AddrsOf(user, inside) /\ v = u
      BY <2>1, <2>3, <2>4, <2>5, <2>6, <3>2
    <3>3. CASE toldStatus'[x][v] = toldStatus[x][v]
      BY <2>1, <2>2, <2>7, <3>3 DEF KnownStatusIsCurrent
    <3> QED
      BY <2>5, <3>1, <3>2, <3>3
  <2> QED
    BY <2>1, <2>7 DEF KnownStatusIsCurrent
<1>6. ASSUME NEW a \in Addr, NEW c \in Channel, MsgOk(a, c)
      PROVE  KnownStatusIsCurrent'
  <2> DEFINE u == connections[a]
  <2>1. /\ u \in users /\ u \in User /\ c \in channels /\ u \in members[c]
        /\ toldStatus' = TellStatus(toldStatus, AddrsOf(user, MembersIn(c)), {u}, user)
        /\ UNCHANGED <<users, user, channels, members, connections>>
    BY <1>6 DEF MsgOk, InChannel, Authed, TypeOK, memory
  <2>2. ASSUME NEW x \in Addr, x \in AddrsOf(user, MembersIn(c))
        PROVE  connections[x] # NoUser /\ u \in Comembers(connections[x])
    <3>1. PICK w \in MembersIn(c) : x \in user[w].connections
      BY <2>2 DEF AddrsOf
    <3>2. connections[x] = w /\ w \in User
      BY <3>1 DEF SessionTables, MembersIn, TypeOK
    <3> QED
      BY <2>1, <3>1, <3>2, NamesAssumption DEF Comembers, ChannelsOf, MembersIn
  <2>3. \A x \in Addr, v \in User :
          toldStatus'[x][v] = IF x \in AddrsOf(user, MembersIn(c)) /\ v = u
                              THEN user[v].status ELSE toldStatus[x][v]
    BY <2>1, TellStatusEffect
  <2> QED
    BY <1>2, <2>1, <2>2, <2>3 DEF KnownStatusIsCurrent
<1>7. ASSUME NEW a \in Addr, NEW C \in SUBSET Channel, HistoryOk(a, C)
      PROVE  KnownStatusIsCurrent'
  <2> DEFINE u == connections[a]
  <2>1. /\ u \in users /\ u \in User
        /\ UNCHANGED <<users, user, channels, members, connections>>
    BY <1>7 DEF HistoryOk, Authed, TypeOK, memory
  <2>2. PICK recent \in SUBSET UNION {Authors(db, c) : c \in C \cap ChannelsOf(u)} :
          toldStatus' = TellStatus(toldStatus, {a} \cap user[u].connections, recent \cap users, user)
    BY <1>7 DEF HistoryOk
  <2>3. recent \cap users \subseteq Comembers(u)
    BY DEF Authors, MessagesIn, ChannelsOf, Comembers, MembersIn, AuthorsAreMembers
  <2>4. \A x \in Addr, v \in User :
          toldStatus'[x][v] = IF x = a /\ x \in user[u].connections /\ v \in recent \cap users
                              THEN user[v].status ELSE toldStatus[x][v]
    BY <2>2, TellStatusEffect
  <2> QED
    BY <1>2, <2>1, <2>3, <2>4, NamesAssumption DEF KnownStatusIsCurrent
<1>8. ASSUME NEW a \in Addr, ViewingStep(a)
      PROVE  KnownStatusIsCurrent'
  BY <1>1, <1>2, <1>8, ViewingEffect
<1>9. ASSUME NEW a \in Addr, DisconnectedUser(a)
      PROVE  KnownStatusIsCurrent'
  <2> DEFINE u == connections[a]
             heard == IF GoesOffline(user[u], a) THEN StatusUpdate(toldStatus, u, user') ELSE toldStatus
  <2>1. /\ u \in users /\ u \in User /\ u # NoUser
        /\ user'[u].connections = user[u].connections \ {a}
        /\ user'[u].status = IF GoesOffline(user[u], a) THEN "Offline" ELSE user[u].status
        /\ \A v \in User \ {u} : user'[v] = user[v]
    BY <1>9, DisconnectedUserEffect, NamesAssumption DEF TypeOK
  <2>2. /\ toldStatus' = [heard EXCEPT ![a] = [v \in User |-> "Unknown"]]
        /\ \A x \in Addr : connections'[x] = IF x = a THEN NoUser ELSE connections[x]
        /\ UNCHANGED <<users, channels, members>>
    BY <1>9 DEF DisconnectedUser, TypeOK
  <2>3. heard \in [Addr -> [User -> Views]] /\ user' \in [User -> UserType]
    BY <1>9, <2>1, TypeOKStep, ToldTypes DEF TypeOK
  <2>4. \A x \in Addr, v \in User : toldStatus'[x][v] = IF x = a THEN "Unknown" ELSE heard[x][v]
    BY <2>2, <2>3
  <2>5. ASSUME NEW x \in Addr \ {a}, NEW v \in User, heard[x][v] # "Unknown"
        PROVE  /\ connections[x] # NoUser
               /\ v \in Comembers(connections[x])
               /\ heard[x][v] = user'[v].status
    <3>1. ASSUME NEW w \in User, toldStatus[x][w] # "Unknown"
          PROVE  /\ connections[x] # NoUser
                 /\ w \in Comembers(connections[x])
                 /\ toldStatus[x][w] = user[w].status
      BY <3>1 DEF KnownStatusIsCurrent
    <3>2. CASE ~GoesOffline(user[u], a)
      BY <2>1, <2>5, <3>1, <3>2
    <3>3. CASE GoesOffline(user[u], a)
      <4>1. connections[x] # u
        BY <2>1, <3>3 DEF GoesOffline, SessionTables
      <4>2. /\ \A w \in User \ {u} : heard[x][w] = toldStatus[x][w]
            /\ heard[x][u] # "Unknown" =>
                 /\ connections[x] # NoUser
                 /\ u \in Comembers(connections[x])
                 /\ heard[x][u] = user'[u].status
        BY <2>1, <3>3, <4>1, StatusUpdateEffect
      <4> QED
        BY <2>1, <2>5, <3>1, <4>2
    <3> QED
      BY <3>2, <3>3
  <2> HIDE DEF heard
  <2> QED
    BY <1>2, <2>1, <2>2, <2>4, <2>5 DEF KnownStatusIsCurrent
<1>10. CASE Restart
  BY <1>10 DEF Restart, KnownStatusIsCurrent
<1>11. ASSUME NEW a \in Addr, NEW c \in Channel, JoinMemberFails(a, c)
       PROVE  KnownStatusIsCurrent'
  <2>1. channels \subseteq channels' /\ UNCHANGED <<users, members, user, connections, toldStatus>>
    BY <1>11 DEF JoinMemberFails
  <2> QED
    BY <1>1, <2>1, ComembersGrow
<1>12. ASSUME UNCHANGED <<users, user, channels, members, connections, toldStatus>>
       PROVE  KnownStatusIsCurrent'
  BY <1>1, <1>2, <1>12
<1>13. /\ \A a : NewConnection(a) => UNCHANGED <<users, user, channels, members, connections, toldStatus>>
       /\ \A late : CheckUnauthUsers(late) =>
            UNCHANGED <<users, user, channels, members, connections, toldStatus>>
       /\ \A a, e : Reject(a, e) => UNCHANGED <<users, user, channels, members, connections, toldStatus>>
       /\ \A a, u : RegisterTooLate(a, u) =>
            UNCHANGED <<users, user, channels, members, connections, toldStatus>>
       /\ \A a : DisconnectedAnonymous(a) =>
            UNCHANGED <<users, user, channels, members, connections, toldStatus>>
       /\ UNCHANGED vars => UNCHANGED <<users, user, channels, members, connections, toldStatus>>
  BY DEF NewConnection, CheckUnauthUsers, Reject, RegisterTooLate, DisconnectedAnonymous,
         vars, memory, told
<1> QED
  BY <1>3, <1>4, <1>5, <1>6, <1>7, <1>8, <1>9, <1>10, <1>11, <1>12, <1>13, StepCases

\* No connection is left with an outdated status of a user: every change of a
\* status reaches everyone who was told one before, over any number of users,
\* connections and channels.
THEOREM NoStaleStatus == Spec => []KnownStatusIsCurrent
<1> DEFINE IInv == /\ TypeOK /\ SessionTables /\ OnlineIffConnected /\ MemoryMirrorsDatabase
                   /\ AuthorsAreMembers /\ KnownStatusIsCurrent
<1>1. Init => AuthorsAreMembers /\ KnownStatusIsCurrent
  BY DEF Init, AuthorsAreMembers, KnownStatusIsCurrent, EmptyDatabase
<1>2. TypeOK /\ MemoryMirrorsDatabase /\ AuthorsAreMembers /\ [Next]_vars => AuthorsAreMembers'
  BY AuthorsStep
<1>3. IInv /\ [Next]_vars => KnownStatusIsCurrent'
  BY KnownStatusStep
<1> QED
  BY <1>1, <1>2, <1>3, TypeCorrect, SessionsConsistent, PresenceCorrect, MirrorCorrect,
     PTL DEF Spec
===============================================================================
