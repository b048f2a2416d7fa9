----------------------------- MODULE PresenceProofs -----------------------------
(***************************************************************************)
(* ChatServer implements Presence, for every set of addresses, users and   *)
(* channels, whatever statements fail and whenever the process restarts.   *)
(*                                                                         *)
(* The invariants of ChatServerProofs say that what is shown after a step  *)
(* is a current status, so that a step is one of Presence as soon as the   *)
(* right users are known to the right clients after it.                    *)
(***************************************************************************)
EXTENDS ChatServerPresence, ChatServerProofs

\* The invariant behind NoStaleStatus.
PInv == /\ TypeOK /\ SessionTables /\ OnlineIffConnected /\ MemoryMirrorsDatabase
        /\ AuthorsAreMembers /\ KnownStatusIsCurrent

\* Every step keeps it: the lemmas of ChatServerProofs together.
LEMMA PInvStep == PInv /\ [Next]_vars => PInv'
  BY TypeOKStep, SessionTablesStep, OnlineIffConnectedStep, MirrorStep, AuthorsStep,
     KnownStatusStep DEF PInv

-----------------------------------------------------------------------------
(* The state of Presence                                                   *)

\* Members are users, and only of channels there are: sharing a channel means
\* the same in both.
LEMMA SharedChannels ==
  ASSUME TypeOK, MemoryMirrorsDatabase
  PROVE  /\ \A c \in Channel : MembersIn(c) = members[c]
         /\ \A c \in Channel, u \in User : u \in members[c] => c \in channels
         /\ \A u \in User : Promised!Comembers(u) = Comembers(u)
<1>1. \A c \in Channel : MembersIn(c) = members[c]
  BY DEF MembersIn, MemoryMirrorsDatabase
<1>2. \A c \in Channel, u \in User : u \in members[c] => c \in channels
  <2>1. \A c \in Channel, u \in User : u \in members[c] => <<u, c>> \in db.users \X db.channels
    BY DEF MemoryMirrorsDatabase, MembersOf
  <2> QED
    BY <2>1 DEF MemoryMirrorsDatabase
<1>3. \A u \in User : ChannelsOf(u) = {d \in Channel : u \in members[d]}
  BY <1>2 DEF ChannelsOf, TypeOK
<1> QED
  BY <1>1, <1>2, <1>3 DEF Promised!Comembers, Comembers

\* The addresses of users are the sessions Presence knows.
LEMMA Addresses ==
  ASSUME TypeOK, SessionTables, NEW W \in SUBSET users, NEW r,
         \A w \in W : r[w].connections = user[w].connections
  PROVE  AddrsOf(r, W) = Promised!Sessions(W)
<1>1. \A w \in W : w \in User /\ r[w].connections = {a \in Addr : connections[a] = w}
  BY DEF SessionTables, TypeOK, UserType
<1> QED
  BY <1>1 DEF AddrsOf, Promised!Sessions

\* What is shown after a step is what Presence wants as soon as the known users
\* are the right ones.
LEMMA ShownIsCurrent ==
  ASSUME PInv, PInv', NEW known,
         \A x \in Addr, v \in User : toldStatus'[x][v] # "Unknown" <=> v \in known[x]
  PROVE  Promised!Shows(known)
<1>1. ASSUME NEW v \in User
      PROVE  user'[v].status = Promised!Status(v)
  <2>1. user'[v].status \in {"Online", "Offline"} /\ user'[v].connections \subseteq Addr
    BY DEF PInv, TypeOK, UserType, Statuses
  <2>2. user'[v].connections # {} <=> \E a \in Addr : connections'[a] = v
    BY <2>1 DEF PInv, SessionTables
  <2>3. user'[v].status = "Online" <=> user'[v].connections # {}
    BY DEF PInv, OnlineIffConnected
  <2> QED
    BY <2>1, <2>2, <2>3 DEF Promised!Status
<1>2. \A x \in Addr, v \in User :
        toldStatus'[x][v] = IF v \in known[x] THEN Promised!Status(v) ELSE "Unknown"
  BY <1>1 DEF PInv, KnownStatusIsCurrent
<1>3. toldStatus' \in [Addr -> [User -> Views]]
  BY DEF PInv, TypeOK
<1> QED
  BY <1>2, <1>3 DEF Promised!Shows

\* What TellStatus makes known.
LEMMA TellStatusKnown ==
  ASSUME NEW t, NEW X, NEW V, NEW r, \A v \in User : r[v].status # "Unknown",
         NEW x \in Addr, NEW v \in User
  PROVE  TellStatus(t, X, V, r)[x][v] # "Unknown" <=> (x \in X /\ v \in V) \/ t[x][v] # "Unknown"
  BY TellStatusEffect

\* A status that is told is one.
LEMMA StatusesAreKnown ==
  ASSUME NEW r \in [User -> UserType]
  PROVE  \A v \in User : r[v].status # "Unknown"
  BY DEF UserType, Statuses

-----------------------------------------------------------------------------
(* The steps                                                               *)

\* IDENT enters: the news goes to the connections of comembers when the user
\* comes online, and the WELCOME shows a the comembers.
LEMMA EnterStep ==
  ASSUME PInv, PInv', NEW a \in Addr, NEW u \in User, a \in allConnections, IdentOk(a, u)
  PROVE  Promised!Enter(a, u)
<1> DEFINE after == [user EXCEPT ![u] = AddConnection(@, a)]
           seen  == IF ComesOnline(user[u]) THEN StatusUpdate(toldStatus, u, after) ELSE toldStatus
           told1 == IF Promised!Sessions({u}) = {} THEN Promised!Audience(u) ELSE {}
           known == [Promised!Learn(told1, {u}) EXCEPT ![a] = @ \cup Promised!Comembers(u)]
<1>1. /\ u \in users /\ connections[a] = NoUser
      /\ toldStatus' = TellStatus(seen, {a}, Comembers(u), after)
      /\ connections' = [connections EXCEPT ![a] = u]
      /\ UNCHANGED members
  BY DEF IdentOk, Identify, SessionTables, PInv
<1>2. /\ after \in [User -> UserType]
      /\ \A v \in User \ {u} : after[v] = user[v]
  BY AddConnectionFields DEF PInv, TypeOK
<1>3. \A v \in User : after[v].status # "Unknown"
  BY <1>2, StatusesAreKnown
<1>4. Promised!Comembers(u) = Comembers(u) /\ Comembers(u) \ {u} \in SUBSET users
  BY SharedChannels DEF PInv, Comembers, MembersIn
<1>5. AddrsOf(after, Comembers(u) \ {u}) = Promised!Audience(u)
  BY <1>2, <1>4, Addresses DEF PInv, TypeOK, Promised!Audience
<1>6. Promised!Sessions({u}) = {} <=> ComesOnline(user[u])
  BY DEF PInv, TypeOK, UserType, SessionTables, OnlineIffConnected, ComesOnline, Promised!Sessions
<1> HIDE DEF after
<1>7. \A x \in Addr, v \in User :
        seen[x][v] # "Unknown" <=> (x \in told1 /\ v = u) \/ toldStatus[x][v] # "Unknown"
  <2>1. CASE ComesOnline(user[u])
    <3>1. seen = TellStatus(toldStatus, told1, {u}, after)
      BY <2>1, <1>5, <1>6 DEF StatusUpdate
    <3> HIDE DEF seen, told1
    <3>2. \A x \in Addr, v \in User :
            TellStatus(toldStatus, told1, {u}, after)[x][v] # "Unknown"
              <=> (x \in told1 /\ v \in {u}) \/ toldStatus[x][v] # "Unknown"
      BY <1>3, TellStatusKnown
    <3> QED
      BY <3>1, <3>2
  <2>2. CASE ~ComesOnline(user[u])
    BY <2>2, <1>6
  <2> QED
    BY <2>1, <2>2
<1> HIDE DEF seen
<1>8. \A x \in Addr, v \in User :
        toldStatus'[x][v] # "Unknown" <=> (x = a /\ v \in Comembers(u)) \/ seen[x][v] # "Unknown"
  BY <1>1, <1>3, TellStatusKnown
<1> HIDE DEF told1
<1>9. \A x \in Addr, v \in User : toldStatus'[x][v] # "Unknown" <=> v \in known[x]
  BY <1>4, <1>7, <1>8 DEF Promised!Learn, Promised!Known
<1> HIDE DEF known
<1>10. Promised!Shows(known)
  BY <1>9, ShownIsCurrent
<1> QED
  BY <1>1, <1>10 DEF known, told1, Promised!Enter

\* REGISTER enters: a new user shares no channel with anybody.
LEMMA RegisterStep ==
  ASSUME PInv, PInv', NEW a \in Addr, NEW u \in User, a \in allConnections, RegisterOk(a, u)
  PROVE  Promised!Enter(a, u)
<1> DEFINE told1 == IF Promised!Sessions({u}) = {} THEN Promised!Audience(u) ELSE {}
           known == [Promised!Learn(told1, {u}) EXCEPT ![a] = @ \cup Promised!Comembers(u)]
<1>1. /\ u \notin users /\ connections[a] = NoUser
      /\ connections' = [connections EXCEPT ![a] = u]
      /\ UNCHANGED <<members, toldStatus>>
  BY DEF RegisterOk, SessionTables, PInv
<1>2. Promised!Comembers(u) = {}
  BY <1>1 DEF PInv, MemoryMirrorsDatabase, Promised!Comembers
<1>3. told1 = {}
  BY <1>2 DEF Promised!Audience, Promised!Sessions
<1> HIDE DEF told1
<1>4. \A x \in Addr, v \in User : toldStatus'[x][v] # "Unknown" <=> v \in known[x]
  BY <1>1, <1>2, <1>3 DEF Promised!Learn, Promised!Known
<1> HIDE DEF known
<1>5. Promised!Shows(known)
  BY <1>4, ShownIsCurrent
<1> QED
  BY <1>1, <1>5 DEF known, told1, Promised!Enter

\* The end of a connection that identified leaves.
LEMMA LeaveStep ==
  ASSUME PInv, PInv', NEW a \in Addr, DisconnectedUser(a)
  PROVE  Promised!Leave(a)
<1> DEFINE u == connections[a]
           heard == IF GoesOffline(user[u], a) THEN StatusUpdate(toldStatus, u, user') ELSE toldStatus
           told1 == IF Promised!Sessions({u}) = {a} THEN Promised!Audience(u) ELSE {}
           known == [Promised!Learn(told1, {u}) EXCEPT ![a] = {}]
<1>1. /\ u \in users /\ u \in User /\ u # NoUser
      /\ \A v \in User \ {u} : user'[v] = user[v]
  BY DisconnectedUserEffect, NamesAssumption DEF PInv, TypeOK
<1>2. /\ toldStatus' = [heard EXCEPT ![a] = [v \in User |-> "Unknown"]]
      /\ connections' = [connections EXCEPT ![a] = NoUser]
      /\ UNCHANGED members
  BY DEF DisconnectedUser
<1>3. \A v \in User : user'[v].status # "Unknown"
  BY StatusesAreKnown DEF PInv, TypeOK
<1>4. Promised!Comembers(u) = Comembers(u) /\ Comembers(u) \ {u} \in SUBSET users
  BY <1>1, SharedChannels DEF PInv, Comembers, MembersIn
<1>5. AddrsOf(user', Comembers(u) \ {u}) = Promised!Audience(u)
  BY <1>1, <1>4, Addresses DEF PInv, TypeOK, Promised!Audience
<1>6. Promised!Sessions({u}) = {a} <=> GoesOffline(user[u], a)
  <2>1. user[u].connections = Promised!Sessions({u}) /\ a \in user[u].connections
    BY <1>1 DEF PInv, TypeOK, UserType, SessionTables, Promised!Sessions
  <2> QED
    BY <2>1 DEF GoesOffline
<1>7. heard \in [Addr -> [User -> Views]]
  BY <1>1, ToldTypes DEF PInv, TypeOK
<1>8. \A x \in Addr, v \in User :
        heard[x][v] # "Unknown" <=> (x \in told1 /\ v = u) \/ toldStatus[x][v] # "Unknown"
  <2>1. CASE GoesOffline(user[u], a)
    <3>1. heard = TellStatus(toldStatus, told1, {u}, user')
      BY <2>1, <1>5, <1>6 DEF StatusUpdate
    <3> HIDE DEF heard, told1
    <3>2. \A x \in Addr, v \in User :
            TellStatus(toldStatus, told1, {u}, user')[x][v] # "Unknown"
              <=> (x \in told1 /\ v \in {u}) \/ toldStatus[x][v] # "Unknown"
      BY <1>3, TellStatusKnown
    <3> QED
      BY <3>1, <3>2
  <2>2. CASE ~GoesOffline(user[u], a)
    BY <2>2, <1>6
  <2> QED
    BY <2>1, <2>2
<1> HIDE DEF heard, told1
<1>9. \A x \in Addr, v \in User : toldStatus'[x][v] # "Unknown" <=> v \in known[x]
  BY <1>2, <1>7, <1>8 DEF Promised!Learn, Promised!Known
<1> HIDE DEF known
<1>10. Promised!Shows(known)
  BY <1>9, ShownIsCurrent
<1> QED
  BY <1>1, <1>2, <1>10 DEF known, told1, Promised!Leave

\* JOIN joins: the broadcast and CHANNELINFO show u to the members and them to a.
LEMMA JoinStep ==
  ASSUME PInv, PInv', NEW a \in Addr, NEW c \in Channel, JoinOk(a, c)
  PROVE  Promised!Join(a, c)
<1> DEFINE u      == connections[a]
           inside == members[c] \cup {u}
           joined == TellStatus(toldStatus, AddrsOf(user, inside), {u}, user)
           known  == [Promised!Learn(Promised!Sessions(inside), {u}) EXCEPT ![a] = @ \cup inside]
<1>1. u \in users /\ u \in User /\ u # NoUser
  BY NamesAssumption DEF JoinOk, Authed, PInv, TypeOK
<1>2. inside = Inside(u, c) /\ inside \in SUBSET users
  BY <1>1 DEF Inside, PInv, MemoryMirrorsDatabase
<1>3. /\ toldStatus' = TellStatus(joined, {a} \cap user[u].connections, inside, user)
      /\ members' = [members EXCEPT ![c] = inside]
      /\ UNCHANGED connections
  BY <1>2 DEF JoinOk, PInv, TypeOK
<1>4. u \notin members[c]
  <2>1. <<u, c>> \notin db.userChannels
    BY WithChannelTables DEF JoinOk, JoinChannelOk, PInv, TypeOK
  <2> QED
    BY <2>1 DEF PInv, MemoryMirrorsDatabase, MembersOf
<1>5. AddrsOf(user, inside) = Promised!Sessions(inside)
  BY <1>2, Addresses DEF PInv
<1>6. \A v \in User : user[v].status # "Unknown"
  BY StatusesAreKnown DEF PInv, TypeOK
<1>7. a \in user[u].connections
  BY <1>1 DEF PInv, SessionTables
<1> HIDE DEF inside
<1>8. \A x \in Addr, v \in User :
        joined[x][v] # "Unknown" <=>
          (x \in Promised!Sessions(inside) /\ v = u) \/ toldStatus[x][v] # "Unknown"
  BY <1>5, <1>6, TellStatusKnown
<1> HIDE DEF joined
<1>9. \A x \in Addr, v \in User :
        toldStatus'[x][v] # "Unknown" <=> (x = a /\ v \in inside) \/ joined[x][v] # "Unknown"
  BY <1>3, <1>6, <1>7, TellStatusKnown
<1>10. \A x \in Addr, v \in User : toldStatus'[x][v] # "Unknown" <=> v \in known[x]
  BY <1>8, <1>9 DEF Promised!Learn, Promised!Known
<1> HIDE DEF known
<1>11. Promised!Shows(known)
  BY <1>10, ShownIsCurrent
<1> QED
  BY <1>1, <1>3, <1>4, <1>11 DEF known, inside, Promised!Join

\* MSG speaks.
LEMMA SpeakStep ==
  ASSUME PInv, PInv', NEW a \in Addr, NEW c \in Channel, MsgOk(a, c)
  PROVE  Promised!Speak(a, c)
<1> DEFINE u     == connections[a]
           known == Promised!Learn(Promised!Sessions(members[c]), {u})
<1>1. /\ u \in members[c]
      /\ toldStatus' = TellStatus(toldStatus, AddrsOf(user, members[c]), {u}, user)
      /\ UNCHANGED <<connections, members>>
  BY SharedChannels DEF MsgOk, InChannel, memory, PInv
<1>2. AddrsOf(user, members[c]) = Promised!Sessions(members[c])
  BY Addresses DEF PInv, MemoryMirrorsDatabase
<1>3. \A v \in User : user[v].status # "Unknown"
  BY StatusesAreKnown DEF PInv, TypeOK
<1>4. \A x \in Addr, v \in User : toldStatus'[x][v] # "Unknown" <=> v \in known[x]
  BY <1>1, <1>2, <1>3, TellStatusKnown DEF Promised!Learn, Promised!Known
<1> HIDE DEF known
<1>5. Promised!Shows(known)
  BY <1>4, ShownIsCurrent
<1> QED
  BY <1>1, <1>5 DEF known, Promised!Speak

\* HISTORY reads: the authors of stored messages share the channel.
LEMMA ReadStep ==
  ASSUME PInv, PInv', NEW a \in Addr, NEW C \in SUBSET Channel, HistoryOk(a, C)
  PROVE  \E V \in SUBSET User : Promised!Read(a, V)
<1> DEFINE u == connections[a]
<1>1. u \in users /\ u \in User /\ u # NoUser /\ UNCHANGED <<connections, members>>
  BY NamesAssumption DEF HistoryOk, Authed, PInv, TypeOK, memory
<1>2. PICK recent \in SUBSET UNION {Authors(db, c) : c \in C \cap ChannelsOf(u)} :
        toldStatus' = TellStatus(toldStatus, {a} \cap user[u].connections, recent \cap users, user)
  BY DEF HistoryOk
<1> DEFINE V     == recent \cap users
           known == Promised!Learn({a}, V)
<1>3. V \in SUBSET User /\ V \subseteq Promised!Comembers(u)
  <2>1. V \subseteq Comembers(u)
    BY DEF Authors, MessagesIn, ChannelsOf, Comembers, MembersIn, PInv, AuthorsAreMembers
  <2> QED
    BY <1>1, <2>1, SharedChannels DEF PInv, TypeOK
<1>4. a \in user[u].connections
  BY <1>1 DEF PInv, SessionTables
<1>5. \A v \in User : user[v].status # "Unknown"
  BY StatusesAreKnown DEF PInv, TypeOK
<1> HIDE DEF V
<1>6. \A x \in Addr, v \in User : toldStatus'[x][v] # "Unknown" <=> v \in known[x]
  BY <1>2, <1>4, <1>5, TellStatusKnown DEF V, Promised!Learn, Promised!Known
<1> HIDE DEF known
<1>7. Promised!Shows(known)
  BY <1>6, ShownIsCurrent
<1>8. Promised!Read(a, V)
  BY <1>1, <1>3, <1>7 DEF known, Promised!Read
<1> QED
  BY <1>3, <1>8

\* A restart reads back the memberships and no session.
LEMMA RestartStep ==
  ASSUME PInv, PInv', Restart
  PROVE  Promised!Restart
<1>1. UNCHANGED members
  <2>1. \A c \in Channel : members'[c] = members[c]
    BY SharedChannels DEF Restart, PInv, MemoryMirrorsDatabase
  <2> QED
    BY <2>1 DEF PInv, TypeOK
<1>2. Promised!Shows([a \in Addr |-> {}])
  <2>1. \A x \in Addr, v \in User : toldStatus'[x][v] # "Unknown" <=> v \in [a \in Addr |-> {}][x]
    BY DEF Restart
  <2> QED
    BY <2>1, ShownIsCurrent
<1> QED
  BY <1>1, <1>2 DEF Restart, Promised!Restart

\* Every other step changes nothing Presence sees.
LEMMA StutterSteps ==
  /\ \A a : NewConnection(a) => UNCHANGED <<connections, members, toldStatus>>
  /\ \A late : CheckUnauthUsers(late) => UNCHANGED <<connections, members, toldStatus>>
  /\ \A a, e : Reject(a, e) => UNCHANGED <<connections, members, toldStatus>>
  /\ \A a, u : RegisterTooLate(a, u) => UNCHANGED <<connections, members, toldStatus>>
  /\ \A a, c : JoinMemberFails(a, c) => UNCHANGED <<connections, members, toldStatus>>
  /\ \A a : DisconnectedAnonymous(a) => UNCHANGED <<connections, members, toldStatus>>
  /\ UNCHANGED vars => UNCHANGED <<connections, members, toldStatus>>
  BY DEF NewConnection, CheckUnauthUsers, Reject, RegisterTooLate, JoinMemberFails,
         DisconnectedAnonymous, vars, memory, told

-----------------------------------------------------------------------------

\* The server keeps its promise on presence: every step, of a command, of a
\* disconnect, of a failure or of a restart, is a step of Presence or none.
THEOREM ServerImplementsPresence == Spec => PresenceImplemented
<1>1. Init => Promised!Init
  BY DEF Init, Promised!Init
<1>2. PInv /\ [Next]_vars => [Promised!Next]_(Promised!vars)
  <2> SUFFICES ASSUME PInv, [Next]_vars PROVE Promised!Next \/ UNCHANGED Promised!vars
    OBVIOUS
  <2>1. PInv'
    BY PInvStep
  <2>2. ASSUME NEW a \in Addr, NEW u \in User, a \in allConnections, IdentOk(a, u) \/ RegisterOk(a, u)
        PROVE  Promised!Next
    BY <2>1, <2>2, EnterStep, RegisterStep DEF Promised!Next
  <2>3. ASSUME NEW a \in Addr, DisconnectedUser(a)
        PROVE  Promised!Next
    BY <2>1, <2>3, LeaveStep DEF Promised!Next
  <2>4. ASSUME NEW a \in Addr, NEW c \in Channel, JoinOk(a, c) \/ MsgOk(a, c)
        PROVE  Promised!Next
    BY <2>1, <2>4, JoinStep, SpeakStep DEF Promised!Next
  <2>5. ASSUME NEW a \in Addr, NEW C \in SUBSET Channel, HistoryOk(a, C)
        PROVE  Promised!Next
    BY <2>1, <2>5, ReadStep DEF Promised!Next
  <2>6. CASE Restart
    BY <2>1, <2>6, RestartStep DEF Promised!Next
  <2>7. ASSUME NEW a \in Addr, ViewingStep(a)
        PROVE  UNCHANGED <<connections, members, toldStatus>>
    BY <2>7, ViewingEffect DEF PInv
  <2>8. UNCHANGED <<connections, members, toldStatus>> => UNCHANGED Promised!vars
    BY DEF Promised!vars
  <2> QED
    BY <2>2, <2>3, <2>4, <2>5, <2>6, <2>7, <2>8, StepCases, StutterSteps DEF PInv
<1>3. Spec => []PInv
  <2>1. Init => AuthorsAreMembers /\ KnownStatusIsCurrent
    BY DEF Init, AuthorsAreMembers, KnownStatusIsCurrent, EmptyDatabase
  <2>2. Init => TypeOK /\ SessionTables /\ OnlineIffConnected /\ MemoryMirrorsDatabase
    BY NewUserType, NamesAssumption
       DEF Init, TypeOK, DatabaseType, EmptyDatabase, Kicks, Views, SessionTables,
           OnlineIffConnected, NewUser, MemoryMirrorsDatabase, MembersOf
  <2>3. Init => PInv
    BY <2>1, <2>2 DEF PInv
  <2> QED
    BY <2>3, PInvStep, PTL DEF Spec
<1> QED
  BY <1>1, <1>2, <1>3, PTL DEF Spec, PresenceImplemented, Promised!Spec
=============================================================================
