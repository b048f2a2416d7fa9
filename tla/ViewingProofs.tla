------------------------------ MODULE ViewingProofs ------------------------------
(***************************************************************************)
(* What users view, what their connections are told of it, and the read    *)
(* marks: the invariants of ChatServer about them, proved for every set of *)
(* addresses, users and channels.                                          *)
(*                                                                         *)
(* All of them rest on ViewersConsistent: since a connection views at most *)
(* one channel, and active_channels holds no other channels than the ones  *)
(* viewed, clear_viewing takes the connection out of every channel,        *)
(* whatever the order of the HashMap is.                                   *)
(***************************************************************************)
EXTENDS ChatServerProofs, ChatServerReads

-----------------------------------------------------------------------------
(* The methods of User                                                     *)

\* What ViewersConsistent says of one user, but for its connections.
TidyViewers(r) ==
  \A c \in Channel :
    /\ c \in r.active <=> r.viewers[c] # {}
    /\ \A d \in Channel \ {c} : r.viewers[c] \cap r.viewers[d] = {}

\* clear_viewing takes a out of every channel, although it looks at one only.
LEMMA ClearViewingClears ==
  ASSUME NEW r \in UserType, TidyViewers(r), NEW a \in Addr, NEW stop \in StopChoice(r, a),
         NEW q \in UserType, q.viewers = r.viewers
  PROVE  \A d \in Channel : ClearViewing(q, a, stop).viewers[d] = r.viewers[d] \ {a}
<1>1. \A d \in Channel : ClearViewing(q, a, stop).viewers[d] =
        IF d \in stop THEN q.viewers[d] \ {a} ELSE q.viewers[d]
  <2>1. ClearViewing(q, a, stop).viewers =
          [c \in Channel |-> IF c \in stop THEN q.viewers[c] \ {a} ELSE q.viewers[c]]
    BY ClearViewingViewers, SMT
  <2> QED
    BY <2>1
<1>2. ASSUME NEW d \in Channel, d \notin stop PROVE a \notin r.viewers[d]
  <2>1. SUFFICES ASSUME a \in r.viewers[d] PROVE FALSE
    OBVIOUS
  <2>2. d \in Viewed(r, a)
    BY <2>1 DEF TidyViewers, Viewed
  <2>3. PICK e \in Viewed(r, a) : stop = {e}
    BY <2>2 DEF StopChoice
  <2>4. e \in Channel /\ e # d /\ a \in r.viewers[e]
    BY <1>2, <2>3 DEF Viewed, UserType
  <2> QED
    BY <2>1, <2>4 DEF TidyViewers
<1> QED
  BY <1>1, <1>2

\* The user after get_and_clear_no_viewers, and the channels that returned.
LEMMA DropNoViewersTidies ==
  ASSUME NEW seen \in UserType, \A d \in Channel : seen.viewers[d] # {} => d \in seen.active
  PROVE  /\ DropNoViewers(seen) \in UserType
         /\ DropNoViewers(seen).connections = seen.connections
         /\ DropNoViewers(seen).viewers = seen.viewers
         /\ DropNoViewers(seen).active = {d \in Channel : seen.viewers[d] # {}}
         /\ NoViewers(seen) = {d \in seen.active : seen.viewers[d] = {}}
  BY DropNoViewersFields DEF NoViewers, UserType

-----------------------------------------------------------------------------
(* The steps of VIEWING, NOTVIEWING and Disconnected                       *)

\* Connection a stops viewing all channels but the ones of now.
MovesTo(a, now) ==
  LET u == connections[a] IN
  /\ u \in users
  /\ now \in SUBSET Channel /\ \A c, d \in now : c = d
  /\ \A c \in now : c \in channels /\ u \in members[c]
  /\ \A v \in User \ {u} : user'[v] = user[v]
  /\ \A c \in Channel : user'[u].viewers[c] =
       IF c \in now THEN user[u].viewers[c] \cup {a} ELSE user[u].viewers[c] \ {a}
  /\ user'[u].active = {c \in Channel : user'[u].viewers[c] # {}}
  /\ \/ user'[u].connections = user[u].connections
     \/ user'[u].connections = user[u].connections \ {a} /\ now = {}
  /\ \A x \in Addr \ {a} : kicked'[x] = kicked[x]
  /\ UNCHANGED <<users, channels, members>>

\* The channels of u nobody views any more.
Gone(u) == {c \in Channel : user[u].viewers[c] # {} /\ user'[u].viewers[c] = {}}

\* The marks are stored for some of them, all unless a statement fails.  The
\* connections are told of the channels that got a mark, and of those of now if
\* all did; if not, a is told to go, unless it is gone.
TellsAndMarks(a, now, done) ==
  LET u == connections[a] IN
  /\ done \in DoneChoice(db, u, Gone(u))
  /\ db'.messages = db.messages
  /\ db'.lastRead = {r \in db.lastRead : ~(r.user = u /\ r.channel \in now)}
                      \cup {MarkOf(db, u, c) : c \in done}
  /\ \A x \in user'[u].connections :
       toldViewing'[x] = (toldViewing[x] \ done) \cup (IF done = Gone(u) THEN now ELSE {})
  /\ \A x \in Addr : connections[x] # u => toldViewing'[x] = toldViewing[x]
  /\ IF a \in user'[u].connections
       THEN IF done = Gone(u) THEN kicked'[a] = kicked[a] ELSE kicked'[a] # "No"
       ELSE toldViewing'[a] = {}

\* The same database but for marks lets the same marks be stored.
LEMMA MarksOfCleared ==
  ASSUME NEW d \in DatabaseType, NEW u \in User, NEW c \in Channel, NEW C \in SUBSET Channel
  PROVE  /\ SetLastRead(ClearLastRead(d, u, c), u, C).lastRead =
              {r \in d.lastRead : ~(r.user = u /\ r.channel = c)} \cup {MarkOf(d, u, e) : e \in C}
         /\ SetLastRead(d, u, C).lastRead = d.lastRead \cup {MarkOf(d, u, e) : e \in C}
         /\ DoneChoice(ClearLastRead(d, u, c), u, C) = DoneChoice(d, u, C)
<1> DEFINE q == ClearLastRead(d, u, c)
<1>1. /\ q \in DatabaseType /\ q.messages = d.messages /\ q.userChannels = d.userChannels
      /\ q.lastRead = {r \in d.lastRead : ~(r.user = u /\ r.channel = c)}
  BY ClearLastReadTables DEF ClearLastRead, DatabaseType
<1> HIDE DEF q
<1>2. \A e : /\ MarkOf(q, u, e) = MarkOf(d, u, e)
             /\ SetLastReadOk(q, u, e) = SetLastReadOk(d, u, e)
  BY <1>1 DEF MarkOf, LastId, SetLastReadOk, MessagesIn
<1>3. \A p \in DatabaseType : SetLastRead(p, u, C).lastRead = p.lastRead \cup {MarkOf(p, u, e) : e \in C}
  BY DEF SetLastRead, DatabaseType
<1>4. DoneChoice(q, u, C) = DoneChoice(d, u, C)
  BY <1>2 DEF DoneChoice
<1> QED
  BY <1>1, <1>2, <1>3, <1>4 DEF q

\* The invariants the lemmas on steps assume.
VInv == TypeOK /\ SessionTables /\ MemoryMirrorsDatabase /\ ViewersConsistent

\* The viewers of u once a views the channels of now only.
ViewersMoved(a, u, now) ==
  [c \in Channel |-> IF c \in now THEN user[u].viewers[c] \cup {a} ELSE user[u].viewers[c] \ {a}]

\* clear_viewing and set_viewing on the user u of a, or on that user after
\* remove_connection: a is left with now, and the channels that get_and_clear_
\* no_viewers finds are the ones that lose their last viewer.
LEMMA SeenViewers ==
  ASSUME VInv, NEW a \in Addr, NEW u \in User, NEW stop \in StopChoice(user[u], a),
         NEW q \in UserType, q.viewers = user[u].viewers, q.active = user[u].active
  PROVE  /\ ClearViewing(q, a, stop) \in UserType
         /\ ClearViewing(q, a, stop).connections = q.connections
         /\ ClearViewing(q, a, stop).active = user[u].active
         /\ ClearViewing(q, a, stop).viewers = ViewersMoved(a, u, {})
         /\ \A c \in Channel :
              /\ SetViewing(q, c, a, stop) \in UserType
              /\ SetViewing(q, c, a, stop).connections = q.connections
              /\ SetViewing(q, c, a, stop).active = user[u].active \cup {c}
              /\ SetViewing(q, c, a, stop).viewers = ViewersMoved(a, u, {c})
<1>1. user[u] \in UserType /\ TidyViewers(user[u])
  BY DEF VInv, TypeOK, ViewersConsistent, TidyViewers
<1>2. \A d \in Channel : ClearViewing(q, a, stop).viewers[d] = user[u].viewers[d] \ {a}
  BY <1>1, ClearViewingClears
<1>3. /\ ClearViewing(q, a, stop) \in UserType
      /\ ClearViewing(q, a, stop).connections = q.connections
      /\ ClearViewing(q, a, stop).active = user[u].active
  BY ClearViewingFields
<1>4. ASSUME NEW c \in Channel
      PROVE  /\ SetViewing(q, c, a, stop) \in UserType
             /\ SetViewing(q, c, a, stop).connections = q.connections
             /\ SetViewing(q, c, a, stop).active = q.active \cup {c}
  BY SetViewingFields
<1>5. ClearViewing(q, a, stop).viewers \in [Channel -> SUBSET Addr]
  BY <1>3 DEF UserType
<1>6. ClearViewing(q, a, stop).viewers = ViewersMoved(a, u, {})
  BY <1>2, <1>5 DEF ViewersMoved
<1>7. ASSUME NEW c \in Channel
      PROVE  SetViewing(q, c, a, stop).viewers = ViewersMoved(a, u, {c})
  <2>1. SetViewing(q, c, a, stop).viewers = [ClearViewing(q, a, stop).viewers EXCEPT ![c] = @ \cup {a}]
    BY SetViewingViewers
  <2>2. (user[u].viewers[c] \ {a}) \cup {a} = user[u].viewers[c] \cup {a}
    OBVIOUS
  <2> QED
    BY <2>1, <2>2, <1>6 DEF ViewersMoved
<1> QED
  BY <1>3, <1>4, <1>6, <1>7

\* The same for a user that keeps its connections.
LEMMA SetSeenViewers ==
  ASSUME VInv, NEW a \in Addr, NEW u \in User, NEW stop \in StopChoice(user[u], a),
         NEW c \in Channel, NEW seen, seen = SetViewing(user[u], c, a, stop)
  PROVE  /\ seen \in UserType
         /\ seen.connections = user[u].connections
         /\ seen.active = user[u].active \cup {c}
         /\ seen.viewers = ViewersMoved(a, u, {c})
<1>1. user[u] \in UserType
  BY DEF VInv, TypeOK
<1> DEFINE q == user[u]
<1>2. q \in UserType /\ q.viewers = user[u].viewers /\ q.active = user[u].active
  BY <1>1
<1> HIDE DEF q
<1>3. /\ SetViewing(q, c, a, stop) \in UserType
      /\ SetViewing(q, c, a, stop).connections = q.connections
      /\ SetViewing(q, c, a, stop).active = user[u].active \cup {c}
      /\ SetViewing(q, c, a, stop).viewers = ViewersMoved(a, u, {c})
  BY <1>2, SeenViewers
<1> QED
  BY <1>3 DEF q

\* What the three handlers make of a user whose viewers are those of seen.
LEMMA MovesToSeen ==
  ASSUME VInv, NEW a \in Addr, connections[a] \in users, NEW now \in SUBSET Channel,
         \A c, d \in now : c = d,
         \A c \in now : c \in channels /\ connections[a] \in members[c],
         NEW seen \in UserType,
         seen.active = user[connections[a]].active \cup now,
         seen.viewers = ViewersMoved(a, connections[a], now),
         \/ seen.connections = user[connections[a]].connections
         \/ seen.connections = user[connections[a]].connections \ {a} /\ now = {},
         user'[connections[a]] = DropNoViewers(seen),
         \A v \in User \ {connections[a]} : user'[v] = user[v],
         \A x \in Addr \ {a} : kicked'[x] = kicked[x],
         UNCHANGED <<users, channels, members>>
  PROVE  /\ MovesTo(a, now)
         /\ NoViewers(seen) \cap channels = Gone(connections[a])
         /\ user'[connections[a]].connections = seen.connections
<1> DEFINE u == connections[a]
<1>1. u \in User /\ user \in [User -> UserType]
  BY DEF VInv, TypeOK
<1>2. \A d \in Channel : /\ d \in user[u].active <=> user[u].viewers[d] # {}
                         /\ user[u].viewers[d] # {} => d \in channels
  BY <1>1 DEF VInv, ViewersConsistent
<1>0. \A d \in Channel : seen.viewers[d] = IF d \in now THEN user[u].viewers[d] \cup {a}
                                                     ELSE user[u].viewers[d] \ {a}
  BY DEF ViewersMoved
<1>3. \A d \in Channel : seen.viewers[d] # {} => d \in seen.active
  BY <1>0, <1>2
<1>4. /\ user'[u].connections = seen.connections
      /\ user'[u].viewers = seen.viewers
      /\ user'[u].active = {d \in Channel : seen.viewers[d] # {}}
      /\ \A v \in User \ {u} : user'[v] = user[v]
  BY <1>1, <1>3, DropNoViewersTidies
<1>5. NoViewers(seen) = {d \in seen.active : seen.viewers[d] = {}} /\ seen.active \subseteq Channel
  BY <1>3, DropNoViewersTidies DEF UserType
<1>6. NoViewers(seen) \cap channels = Gone(u)
  <2>1. \A d \in Channel : d \in now => seen.viewers[d] # {}
    BY <1>0
  <2> QED
    BY <1>0, <1>1, <1>2, <1>4, <1>5, <2>1 DEF Gone
<1> QED
  BY <1>0, <1>4, <1>6 DEF MovesTo

\* The same for VIEWING.
LEMMA MovesToSeenOne ==
  ASSUME VInv, NEW a \in Addr, NEW c \in Channel, InChannel(a, c),
         NEW u \in User, u = connections[a],
         NEW seen \in UserType,
         seen.connections = user[u].connections,
         seen.active = user[u].active \cup {c},
         seen.viewers = ViewersMoved(a, u, {c}),
         user'[u] = DropNoViewers(seen),
         \A v \in User \ {u} : user'[v] = user[v],
         \A x \in Addr \ {a} : kicked'[x] = kicked[x],
         UNCHANGED <<users, channels, members>>
  PROVE  /\ MovesTo(a, {c})
         /\ NoViewers(seen) \cap channels = Gone(u)
         /\ user'[u].connections = user[u].connections
<1> DEFINE now == {c}
<1>1. /\ now \in SUBSET Channel
      /\ \A x, y \in now : x = y
      /\ \A x \in now : x \in channels /\ connections[a] \in members[x]
      /\ connections[a] \in users
  BY DEF InChannel, Authed
<1>2. /\ seen.active = user[connections[a]].active \cup now
      /\ seen.viewers = ViewersMoved(a, connections[a], now)
      /\ seen.connections = user[connections[a]].connections
      /\ user'[connections[a]] = DropNoViewers(seen)
      /\ \A v \in User \ {connections[a]} : user'[v] = user[v]
  OBVIOUS
<1> HIDE DEF now
<1>3. /\ MovesTo(a, now)
      /\ NoViewers(seen) \cap channels = Gone(connections[a])
      /\ user'[connections[a]].connections = seen.connections
  BY <1>1, <1>2, MovesToSeen
<1> QED
  BY <1>3 DEF now

\* A VIEWING whose DELETE fails stores and tells nothing, and disconnects a.
LEMMA FailedViewing ==
  ASSUME VInv, NEW a \in Addr, NEW c \in Channel, ViewingFails(a, c)
  PROVE  /\ MovesTo(a, {c})
         /\ user'[connections[a]].connections = user[connections[a]].connections
         /\ kicked'[a] # "No" /\ DbMayFail
         /\ UNCHANGED <<db, connections, toldViewing>>
<1> DEFINE u == connections[a]
<1>1. u \in users /\ u \in User /\ InChannel(a, c)
  BY DEF ViewingFails, InChannel, Authed, VInv, TypeOK
<1>2. PICK stop \in StopChoice(user[u], a) :
        user' = [user EXCEPT ![u] = DropNoViewers(SetViewing(@, c, a, stop))]
  BY DEF ViewingFails
<1> DEFINE seen == SetViewing(user[u], c, a, stop)
<1>3. user'[u] = DropNoViewers(seen) /\ \A v \in User \ {u} : user'[v] = user[v]
  BY <1>1, <1>2 DEF VInv, TypeOK
<1>4. /\ \A x \in Addr \ {a} : kicked'[x] = kicked[x]
      /\ kicked'[a] # "No" /\ DbMayFail
      /\ UNCHANGED <<db, users, channels, members, connections, toldViewing>>
  BY DEF ViewingFails, Kick, VInv, TypeOK
<1>5. /\ seen \in UserType
      /\ seen.connections = user[u].connections
      /\ seen.active = user[u].active \cup {c}
      /\ seen.viewers = ViewersMoved(a, u, {c})
  BY <1>1, <1>2, SetSeenViewers
<1> HIDE DEF seen
<1> QED
  BY <1>1, <1>3, <1>4, <1>5, MovesToSeenOne

\* A VIEWING whose DELETE succeeds.
LEMMA StoredViewing ==
  ASSUME VInv, NEW a \in Addr, NEW c \in Channel, ViewingStored(a, c)
  PROVE  /\ MovesTo(a, {c})
         /\ user'[connections[a]].connections = user[connections[a]].connections
         /\ \E done \in SUBSET Channel : TellsAndMarks(a, {c}, done)
         /\ kicked[a] # "No" => kicked'[a] # "No"
         /\ UNCHANGED connections
<1> DEFINE u == connections[a]
           cleared == ClearLastRead(db, u, c)
<1>1. u \in users /\ u \in User /\ InChannel(a, c)
  BY DEF ViewingStored, InChannel, Authed, VInv, TypeOK
<1>2. PICK stop \in StopChoice(user[u], a) :
        LET seen == SetViewing(user[u], c, a, stop)
            left == NoViewers(seen) \cap channels
        IN  /\ user' = [user EXCEPT ![u] = DropNoViewers(seen)]
            /\ \E done \in DoneChoice(cleared, u, left) :
                 /\ db' = SetLastRead(cleared, u, done)
                 /\ \/ /\ done = left
                       /\ toldViewing' = TellViewing(seen.connections, done, {c})
                       /\ UNCHANGED kicked
                    \/ /\ done # left
                       /\ toldViewing' = TellViewing(seen.connections, done, {})
                       /\ Kick(a, "Internal")
  BY DEF ViewingStored
<1> DEFINE seen == SetViewing(user[u], c, a, stop)
           left == NoViewers(seen) \cap channels
<1>3. PICK done \in DoneChoice(cleared, u, left) :
        /\ db' = SetLastRead(cleared, u, done)
        /\ \/ /\ done = left
              /\ toldViewing' = TellViewing(seen.connections, done, {c})
              /\ UNCHANGED kicked
           \/ /\ done # left
              /\ toldViewing' = TellViewing(seen.connections, done, {})
              /\ Kick(a, "Internal")
  BY <1>2
<1>4. /\ \A x \in Addr \ {a} : kicked'[x] = kicked[x]
      /\ kicked[a] # "No" => kicked'[a] # "No"
      /\ UNCHANGED <<users, channels, members, connections>>
  BY <1>3 DEF ViewingStored, Kick, VInv, TypeOK
<1>5. /\ seen \in UserType
      /\ seen.connections = user[u].connections
      /\ seen.active = user[u].active \cup {c}
      /\ seen.viewers = ViewersMoved(a, u, {c})
  BY <1>1, <1>2, SetSeenViewers
<1>6. user'[u] = DropNoViewers(seen) /\ \A v \in User \ {u} : user'[v] = user[v]
  BY <1>1, <1>2 DEF VInv, TypeOK
<1> HIDE DEF seen
<1>7. MovesTo(a, {c}) /\ left = Gone(u) /\ user'[u].connections = seen.connections
  BY <1>1, <1>4, <1>5, <1>6, MovesToSeenOne
<1>8. done \in DoneChoice(db, u, Gone(u)) /\ done \in SUBSET Channel
  <2>1. Gone(u) \in SUBSET Channel /\ db \in DatabaseType
    BY DEF Gone, VInv, TypeOK
  <2>2. DoneChoice(cleared, u, Gone(u)) = DoneChoice(db, u, Gone(u))
    BY <1>1, <2>1, MarksOfCleared
  <2>3. done \in DoneChoice(db, u, Gone(u))
    BY <1>3, <1>7, <2>2
  <2> QED
    BY <2>1, <2>3 DEF DoneChoice
<1>9. /\ db'.messages = db.messages
      /\ db'.lastRead = {r \in db.lastRead : ~(r.user = u /\ r.channel \in {c})}
                          \cup {MarkOf(db, u, d) : d \in done}
  <2>1. cleared \in DatabaseType /\ cleared.messages = db.messages
    BY <1>1, ClearLastReadTables DEF VInv, TypeOK
  <2>2. db'.messages = cleared.messages
    BY <1>3, <2>1 DEF SetLastRead, DatabaseType
  <2> QED
    BY <1>1, <1>3, <1>8, <2>1, <2>2, MarksOfCleared DEF VInv, TypeOK
<1>10. /\ \A x \in user'[u].connections :
            toldViewing'[x] = (toldViewing[x] \ done) \cup (IF done = Gone(u) THEN {c} ELSE {})
       /\ \A x \in Addr : connections[x] # u => toldViewing'[x] = toldViewing[x]
       /\ a \in user'[u].connections
       /\ IF done = Gone(u) THEN kicked'[a] = kicked[a] ELSE kicked'[a] # "No"
  <2>1. \A x \in Addr : x \in seen.connections <=> connections[x] = u
    BY <1>1, <1>5 DEF VInv, SessionTables
  <2>2. seen.connections \subseteq Addr
    BY <1>5 DEF UserType
  <2>3. done # left => kicked'[a] # "No"
    BY <1>3 DEF Kick, VInv, TypeOK
  <2> QED
    BY <1>3, <1>7, <2>1, <2>2, <2>3 DEF TellViewing, VInv, TypeOK
<1>11. TellsAndMarks(a, {c}, done)
  BY <1>8, <1>9, <1>10 DEF TellsAndMarks
<1> QED
  BY <1>4, <1>5, <1>7, <1>8, <1>11

\* clear_viewing for a connection that stays (NOTVIEWING) or goes.
LEMMA ClearSeenViewers ==
  ASSUME VInv, NEW a \in Addr, NEW u \in User, NEW stop \in StopChoice(user[u], a),
         NEW q \in UserType, q = user[u] \/ q = RemoveConnection(user[u], a),
         NEW seen, seen = ClearViewing(q, a, stop)
  PROVE  /\ seen \in UserType
         /\ seen.connections = q.connections
         /\ seen.active = user[u].active
         /\ seen.viewers = ViewersMoved(a, u, {})
<1>1. user[u] \in UserType
  BY DEF VInv, TypeOK
<1>2. q.viewers = user[u].viewers /\ q.active = user[u].active
  BY <1>1, RemoveConnectionFields
<1>3. /\ ClearViewing(q, a, stop) \in UserType
      /\ ClearViewing(q, a, stop).connections = q.connections
      /\ ClearViewing(q, a, stop).active = user[u].active
      /\ ClearViewing(q, a, stop).viewers = ViewersMoved(a, u, {})
  BY <1>2, SeenViewers
<1> QED
  BY <1>3

\* The step of a connection that is left with no channel.
LEMMA MovesToSeenNone ==
  ASSUME VInv, NEW a \in Addr, NEW u \in User, u = connections[a], u \in users,
         NEW seen \in UserType,
         \/ seen.connections = user[u].connections
         \/ seen.connections = user[u].connections \ {a},
         seen.active = user[u].active,
         seen.viewers = ViewersMoved(a, u, {}),
         user'[u] = DropNoViewers(seen),
         \A v \in User \ {u} : user'[v] = user[v],
         \A x \in Addr \ {a} : kicked'[x] = kicked[x],
         UNCHANGED <<users, channels, members>>
  PROVE  /\ MovesTo(a, {})
         /\ NoViewers(seen) \cap channels = Gone(u)
         /\ user'[u].connections = seen.connections
<1> DEFINE now == {}
<1>1. /\ now \in SUBSET Channel /\ now = {}
      /\ \A x, y \in now : x = y
      /\ \A x \in now : x \in channels /\ connections[a] \in members[x]
  OBVIOUS
<1>2. /\ connections[a] \in users
      /\ seen.active = user[connections[a]].active \cup now
      /\ seen.viewers = ViewersMoved(a, connections[a], now)
      /\ \/ seen.connections = user[connections[a]].connections
         \/ seen.connections = user[connections[a]].connections \ {a} /\ now = {}
      /\ user'[connections[a]] = DropNoViewers(seen)
      /\ \A v \in User \ {connections[a]} : user'[v] = user[v]
  OBVIOUS
<1> HIDE DEF now
<1>3. /\ MovesTo(a, now)
      /\ NoViewers(seen) \cap channels = Gone(connections[a])
      /\ user'[connections[a]].connections = seen.connections
  BY <1>1, <1>2, MovesToSeen
<1> QED
  BY <1>3 DEF now

\* NOTVIEWING.
LEMMA StoredNotViewing ==
  ASSUME VInv, NEW a \in Addr, NotViewingOk(a)
  PROVE  /\ MovesTo(a, {})
         /\ \E done \in SUBSET Channel : TellsAndMarks(a, {}, done)
<1> DEFINE u == connections[a]
<1>1. u \in users /\ u \in User /\ user[u] \in UserType
  BY DEF NotViewingOk, Authed, VInv, TypeOK
<1>2. PICK stop \in StopChoice(user[u], a) :
        LET seen == ClearViewing(user[u], a, stop)
            left == NoViewers(seen) \cap channels
        IN  /\ user' = [user EXCEPT ![u] = DropNoViewers(seen)]
            /\ \E done \in DoneChoice(db, u, left) :
                 /\ db' = SetLastRead(db, u, done)
                 /\ toldViewing' = TellViewing(seen.connections, done, {})
                 /\ \/ done = left /\ UNCHANGED kicked
                    \/ done # left /\ Kick(a, "Internal")
  BY DEF NotViewingOk
<1> DEFINE seen == ClearViewing(user[u], a, stop)
           left == NoViewers(seen) \cap channels
<1>3. PICK done \in DoneChoice(db, u, left) :
        /\ db' = SetLastRead(db, u, done)
        /\ toldViewing' = TellViewing(seen.connections, done, {})
        /\ \/ done = left /\ UNCHANGED kicked
           \/ done # left /\ Kick(a, "Internal")
  BY <1>2
<1>4. /\ \A x \in Addr \ {a} : kicked'[x] = kicked[x]
      /\ UNCHANGED <<users, channels, members, connections>>
  BY <1>3 DEF NotViewingOk, Kick, VInv, TypeOK
<1>5. /\ seen \in UserType
      /\ seen.connections = user[u].connections
      /\ seen.active = user[u].active
      /\ seen.viewers = ViewersMoved(a, u, {})
  BY <1>1, <1>2, ClearSeenViewers
<1>6. user'[u] = DropNoViewers(seen) /\ \A v \in User \ {u} : user'[v] = user[v]
  BY <1>1, <1>2 DEF VInv, TypeOK
<1> HIDE DEF seen
<1>7. MovesTo(a, {}) /\ left = Gone(u) /\ user'[u].connections = seen.connections
  BY <1>1, <1>4, <1>5, <1>6, MovesToSeenNone
<1>8. done \in DoneChoice(db, u, Gone(u)) /\ done \in SUBSET Channel
  BY <1>3, <1>7 DEF DoneChoice, Gone
<1>9. /\ db'.messages = db.messages
      /\ db'.lastRead = {r \in db.lastRead : ~(r.user = u /\ r.channel \in {})}
                          \cup {MarkOf(db, u, d) : d \in done}
  BY <1>3 DEF SetLastRead, VInv, TypeOK, DatabaseType
<1>10. /\ \A x \in user'[u].connections :
            toldViewing'[x] = (toldViewing[x] \ done) \cup (IF done = Gone(u) THEN {} ELSE {})
       /\ \A x \in Addr : connections[x] # u => toldViewing'[x] = toldViewing[x]
       /\ a \in user'[u].connections
       /\ IF done = Gone(u) THEN kicked'[a] = kicked[a] ELSE kicked'[a] # "No"
  <2>1. \A x \in Addr : x \in seen.connections <=> connections[x] = u
    BY <1>1, <1>5 DEF VInv, SessionTables
  <2>2. seen.connections \subseteq Addr
    BY <1>5 DEF UserType
  <2>3. done # left => kicked'[a] # "No"
    BY <1>3 DEF Kick, VInv, TypeOK
  <2> QED
    BY <1>3, <1>7, <2>1, <2>2, <2>3 DEF TellViewing, VInv, TypeOK
<1>11. TellsAndMarks(a, {}, done)
  BY <1>8, <1>9, <1>10 DEF TellsAndMarks
<1> QED
  BY <1>7, <1>8, <1>11

\* Disconnected.
LEMMA StoredDisconnected ==
  ASSUME VInv, NEW a \in Addr, DisconnectedUser(a)
  PROVE  /\ MovesTo(a, {})
         /\ \E done \in SUBSET Channel : TellsAndMarks(a, {}, done)
<1> DEFINE u == connections[a]
<1>1. u \in users /\ u \in User /\ user[u] \in UserType
  BY DEF DisconnectedUser, Authed, VInv, TypeOK
<1>2. PICK stop \in StopChoice(user[u], a) :
        LET seen == ClearViewing(RemoveConnection(user[u], a), a, stop)
            left == NoViewers(seen) \cap channels
        IN  /\ user' = [user EXCEPT ![u] = DropNoViewers(seen)]
            /\ \E done \in DoneChoice(db, u, left) :
                 /\ db' = SetLastRead(db, u, done)
                 /\ toldViewing' = [TellViewing(seen.connections, done, {}) EXCEPT ![a] = {}]
  BY DEF DisconnectedUser
<1> DEFINE q == RemoveConnection(user[u], a)
           seen == ClearViewing(q, a, stop)
           left == NoViewers(seen) \cap channels
<1>3. PICK done \in DoneChoice(db, u, left) :
        /\ db' = SetLastRead(db, u, done)
        /\ toldViewing' = [TellViewing(seen.connections, done, {}) EXCEPT ![a] = {}]
  BY <1>2
<1>4. /\ \A x \in Addr \ {a} : kicked'[x] = kicked[x]
      /\ UNCHANGED <<users, channels, members>>
  BY DEF DisconnectedUser, VInv, TypeOK
<1>5. /\ seen \in UserType
      /\ seen.connections = user[u].connections \ {a}
      /\ seen.active = user[u].active
      /\ seen.viewers = ViewersMoved(a, u, {})
  <2>1. q \in UserType /\ q.connections = user[u].connections \ {a}
    BY <1>1, RemoveConnectionFields
  <2> QED
    BY <1>1, <1>2, <2>1, ClearSeenViewers
<1>6. user'[u] = DropNoViewers(seen) /\ \A v \in User \ {u} : user'[v] = user[v]
  BY <1>1, <1>2 DEF VInv, TypeOK
<1> HIDE DEF seen
<1>7. MovesTo(a, {}) /\ left = Gone(u) /\ user'[u].connections = seen.connections
  BY <1>1, <1>4, <1>5, <1>6, MovesToSeenNone
<1>8. done \in DoneChoice(db, u, Gone(u)) /\ done \in SUBSET Channel
  BY <1>3, <1>7 DEF DoneChoice, Gone
<1>9. /\ db'.messages = db.messages
      /\ db'.lastRead = {r \in db.lastRead : ~(r.user = u /\ r.channel \in {})}
                          \cup {MarkOf(db, u, d) : d \in done}
  BY <1>3 DEF SetLastRead, VInv, TypeOK, DatabaseType
<1>10. /\ \A x \in user'[u].connections :
            toldViewing'[x] = (toldViewing[x] \ done) \cup (IF done = Gone(u) THEN {} ELSE {})
       /\ \A x \in Addr : connections[x] # u => toldViewing'[x] = toldViewing[x]
       /\ a \notin user'[u].connections /\ toldViewing'[a] = {}
  <2>1. \A x \in Addr : x \in seen.connections <=> connections[x] = u /\ x # a
    BY <1>1, <1>5 DEF VInv, SessionTables
  <2>2. seen.connections \subseteq Addr /\ a \notin seen.connections
    BY <1>5 DEF UserType
  <2>3. \A x \in Addr \ {a} : toldViewing'[x] = TellViewing(seen.connections, done, {})[x]
    BY <1>3 DEF TellViewing
  <2>4. toldViewing'[a] = {}
    BY <1>3 DEF TellViewing
  <2> QED
    BY <1>7, <2>1, <2>2, <2>3, <2>4 DEF TellViewing, VInv, TypeOK
<1>11. TellsAndMarks(a, {}, done)
  BY <1>8, <1>9, <1>10 DEF TellsAndMarks
<1> QED
  BY <1>7, <1>8, <1>11

-----------------------------------------------------------------------------
(* Every step, by what it does to what is viewed                           *)

\* VIEWING, NOTVIEWING and Disconnected: now is empty but for VIEWING, and the
\* marks are those of a VIEWING whose DELETE failed, or TellsAndMarks.
Moves(a, now) ==
  /\ MovesTo(a, now)
  /\ \/ now # {} /\ kicked'[a] # "No" /\ DbMayFail /\ UNCHANGED <<db, toldViewing>>
     \/ \E done \in SUBSET Channel : TellsAndMarks(a, now, done)

\* All other steps leave viewers and marks alone, and forget the Disconnect of
\* none but a connection that never identified.
Keeps ==
  /\ \A u \in User : /\ user'[u].active = user[u].active
                      /\ \A c \in Channel : user'[u].viewers[c] = user[u].viewers[c]
  /\ db'.lastRead = db.lastRead
  /\ channels \subseteq channels'
  /\ \A c \in Channel : members[c] \subseteq members'[c]
  /\ \A x \in Addr : kicked[x] # "No" => kicked'[x] # "No" \/ connections[x] = NoUser

\* The connections of users stay, or one arrives and is told what is viewed.
Stays ==
  /\ Keeps
  /\ \A u \in User : user'[u].connections = user[u].connections
  /\ UNCHANGED toldViewing
Arrives(a, u) ==
  /\ Keeps
  /\ connections[a] = NoUser
  /\ UNCHANGED kicked /\ db'.messages = db.messages
  /\ user'[u].connections = user[u].connections \cup {a}
  /\ \A v \in User \ {u} : user'[v].connections = user[v].connections
  /\ toldViewing'[a] = user[u].active
  /\ \A x \in Addr \ {a} : toldViewing'[x] = toldViewing[x]

\* IDENT and REGISTER.
LEMMA IdentArrives ==
  ASSUME VInv, NEW a \in Addr, NEW u \in User, a \in allConnections,
         IdentOk(a, u) \/ RegisterOk(a, u)
  PROVE  Arrives(a, u)
<1>1. connections[a] = NoUser
  BY DEF IdentOk, RegisterOk, VInv, SessionTables
<1>2. user[u] \in UserType /\ user \in [User -> UserType]
  BY DEF VInv, TypeOK
<1>3. CASE IdentOk(a, u)
  <2>1. user'[u] = AddConnection(user[u], a) /\ \A v \in User \ {u} : user'[v] = user[v]
    BY <1>2, <1>3 DEF IdentOk, Identify
  <2>2. /\ user'[u].connections = user[u].connections \cup {a}
        /\ user'[u].active = user[u].active
        /\ user'[u].viewers = user[u].viewers
    BY <1>2, <2>1, AddConnectionFields
  <2>3. UNCHANGED <<db, channels, members, kicked>>
    BY <1>3 DEF IdentOk
  <2>4. /\ toldViewing'[a] = user[u].active
        /\ \A x \in Addr \ {a} : toldViewing'[x] = toldViewing[x]
    BY <1>3 DEF IdentOk, Identify, VInv, TypeOK
  <2>5. Keeps
    BY <2>1, <2>2, <2>3 DEF Keeps
  <2> QED
    BY <1>1, <2>1, <2>2, <2>3, <2>4, <2>5 DEF Arrives
<1>4. CASE RegisterOk(a, u)
  <2>1. user'[u] = AddConnection(NewUser, a) /\ \A v \in User \ {u} : user'[v] = user[v]
    BY <1>2, <1>4 DEF RegisterOk
  <2>2. /\ user'[u].connections = {a}
        /\ user'[u].active = {}
        /\ \A c \in Channel : user'[u].viewers[c] = {}
    <3>1. /\ AddConnection(NewUser, a).connections = {} \cup {a}
          /\ AddConnection(NewUser, a).active = {}
          /\ AddConnection(NewUser, a).viewers = [c \in Channel |-> {}]
      BY NewUserType, AddConnectionFields DEF NewUser
    <3> QED
      BY <2>1, <3>1
  <2>3. u \notin users
    BY <1>4 DEF RegisterOk
  <2>4. user[u].connections = {}
    BY <1>2, <2>3, NamesAssumption DEF VInv, SessionTables, UserType
  <2>5. /\ user[u].active = {}
        /\ \A c \in Channel : user[u].viewers[c] = {}
    BY <1>2, <2>4 DEF VInv, ViewersConsistent, UserType
  <2>6. UNCHANGED <<channels, members, kicked>> /\ db'.lastRead = db.lastRead /\ db'.messages = db.messages
    BY <1>4, RegisterUserTables DEF RegisterOk, VInv, TypeOK
  <2>7. /\ toldViewing'[a] = {}
        /\ \A x \in Addr \ {a} : toldViewing'[x] = toldViewing[x]
    BY <1>4 DEF RegisterOk, VInv, TypeOK
  <2>8. Keeps
    BY <2>1, <2>2, <2>5, <2>6 DEF Keeps
  <2> QED
    BY <1>1, <2>1, <2>2, <2>4, <2>5, <2>6, <2>7, <2>8 DEF Arrives
<1> QED
  BY <1>3, <1>4

\* Every step is one of these.
LEMMA ViewingCases ==
  ASSUME VInv, [Next]_vars
  PROVE  \/ \E a \in Addr, now \in SUBSET Channel : Moves(a, now)
         \/ \E a \in Addr, u \in User : Arrives(a, u)
         \/ Stays
         \/ Restart
<1>1. ASSUME NEW a \in Addr, ViewingStep(a) \/ DisconnectedUser(a)
      PROVE  \E now \in SUBSET Channel : Moves(a, now)
  <2>1. ASSUME NEW c \in Channel, ViewingFails(a, c) \/ ViewingStored(a, c)
        PROVE  Moves(a, {c})
    BY <2>1, FailedViewing, StoredViewing DEF Moves
  <2>2. ASSUME NotViewingOk(a) \/ DisconnectedUser(a)
        PROVE  Moves(a, {})
    BY <2>2, StoredNotViewing, StoredDisconnected DEF Moves
  <2> QED
    BY <1>1, <2>1, <2>2 DEF ViewingStep
<1>2. ASSUME UNCHANGED <<user, channels, members, toldViewing>>, db'.lastRead = db.lastRead,
             \A x \in Addr : kicked[x] # "No" => kicked'[x] # "No" \/ connections[x] = NoUser
      PROVE  Stays
  BY <1>2 DEF Stays, Keeps
<1>3. ASSUME NEW a \in Addr, NewConnection(a) \/ DisconnectedAnonymous(a)
      PROVE  Stays
  <2>1. /\ UNCHANGED <<user, channels, members, toldViewing, db>>
        /\ \A x \in Addr : kicked[x] # "No" => kicked'[x] # "No" \/ connections[x] = NoUser
    BY <1>3 DEF NewConnection, DisconnectedAnonymous, told, VInv, TypeOK
  <2> QED
    BY <1>2, <2>1
<1>4. ASSUME NEW late, CheckUnauthUsers(late)
      PROVE  Stays
  <2>1. /\ UNCHANGED <<user, channels, members, toldViewing, db>>
        /\ \A x \in Addr : kicked[x] # "No" => kicked'[x] # "No"
    BY <1>4 DEF CheckUnauthUsers, memory
  <2> QED
    BY <1>2, <2>1
<1>5. ASSUME NEW a \in Addr, NEW e \in Kicks, Kick(a, e)
      PROVE  \A x \in Addr : kicked[x] # "No" => kicked'[x] # "No"
  BY <1>5 DEF Kick, VInv, TypeOK
<1>6. "Refused" \in Kicks /\ "Internal" \in Kicks
  BY DEF Kicks
<1>7. ASSUME NEW a \in Addr, NEW e \in Kicks, Reject(a, e)
      PROVE  Stays
  <2>1. UNCHANGED <<user, channels, members, toldViewing, db>> /\ Kick(a, e)
    BY <1>7 DEF Reject, memory
  <2> QED
    BY <1>2, <1>5, <2>1
<1>8. ASSUME NEW a \in Addr, NEW u \in User, RegisterTooLate(a, u)
      PROVE  Stays
  <2>1. UNCHANGED <<user, channels, members, toldViewing>> /\ Kick(a, "Refused")
    BY <1>8 DEF RegisterTooLate, memory
  <2>2. db'.lastRead = db.lastRead
    BY <1>8, RegisterUserTables DEF RegisterTooLate, VInv, TypeOK
  <2> QED
    BY <1>2, <1>5, <1>6, <2>1, <2>2
<1>9. ASSUME NEW a \in Addr, NEW c \in Channel, JoinMemberFails(a, c)
      PROVE  Stays
  <2>1. UNCHANGED <<user, members, toldViewing>> /\ Kick(a, "Internal") /\ channels \subseteq channels'
    BY <1>9 DEF JoinMemberFails
  <2>2. db'.lastRead = db.lastRead
    BY <1>9, WithChannelTables DEF JoinMemberFails, VInv, TypeOK
  <2> QED
    BY <1>5, <1>6, <2>1, <2>2 DEF Stays, Keeps
<1>10. ASSUME NEW a \in Addr, NEW c \in Channel, JoinOk(a, c)
       PROVE  Stays
  <2>1. /\ UNCHANGED <<user, toldViewing, kicked>> /\ channels \subseteq channels'
        /\ \A d \in Channel : members[d] \subseteq members'[d]
    BY <1>10 DEF JoinOk, VInv, TypeOK
  <2>2. connections[a] \in User
    BY <1>10 DEF JoinOk, Authed, VInv, TypeOK
  <2>3. db'.lastRead = db.lastRead
    <3>1. WithChannel(c) \in DatabaseType /\ WithChannel(c).lastRead = db.lastRead
      BY WithChannelTables DEF VInv, TypeOK
    <3>2. db' = JoinChannel(WithChannel(c), connections[a], c)
      BY <1>10 DEF JoinOk
    <3> QED
      BY <2>2, <3>1, <3>2, JoinChannelTables
  <2> QED
    BY <2>1, <2>3 DEF Stays, Keeps
<1>11. ASSUME NEW a \in Addr, NEW c \in Channel, MsgOk(a, c)
       PROVE  Stays
  <2>1. UNCHANGED <<user, channels, members, toldViewing, kicked>>
    BY <1>11 DEF MsgOk, memory
  <2>2. connections[a] \in User
    BY <1>11 DEF MsgOk, InChannel, Authed, VInv, TypeOK
  <2>3. db'.lastRead = db.lastRead
    BY <1>11, <2>2, AddMessageTables DEF MsgOk, VInv, TypeOK
  <2> QED
    BY <1>2, <2>1, <2>3
<1>12. ASSUME NEW a \in Addr, NEW C, HistoryOk(a, C)
       PROVE  Stays
  <2>1. UNCHANGED <<user, channels, members, toldViewing, kicked, db>>
    BY <1>12 DEF HistoryOk, memory
  <2> QED
    BY <1>2, <2>1
<1>13. ASSUME UNCHANGED vars
       PROVE  Stays
  <2>1. UNCHANGED <<user, channels, members, toldViewing, kicked, db>>
    BY <1>13 DEF vars, memory, told
  <2> QED
    BY <1>2, <2>1
<1> QED
  BY <1>1, <1>3, <1>4, <1>7, <1>8, <1>9, <1>10, <1>11, <1>12, <1>13, IdentArrives, StepCases DEF VInv

-----------------------------------------------------------------------------
(* The invariants                                                          *)

\* A move: who a is, and what it says of the viewers before and after.
LEMMA MoveFacts ==
  ASSUME VInv, NEW a \in Addr, NEW now \in SUBSET Channel, MovesTo(a, now)
  PROVE  /\ connections[a] \in users /\ connections[a] \in User
         /\ a \in user[connections[a]].connections
         /\ \A v \in User \ {connections[a]} :
              /\ user'[v] = user[v]
              /\ a \notin user[v].connections
              /\ \A c \in Channel : a \notin user[v].viewers[c]
              /\ \A x \in user[v].connections : x \in Addr /\ connections[x] = v
         /\ \A c \in Channel \ now : user'[connections[a]].viewers[c] = user[connections[a]].viewers[c] \ {a}
         /\ \A c \in now : user'[connections[a]].viewers[c] = user[connections[a]].viewers[c] \cup {a}
         /\ \A c \in Channel : c \in Gone(connections[a]) =>
              c \notin now /\ user[connections[a]].viewers[c] = {a}
         /\ user'[connections[a]].connections \subseteq user[connections[a]].connections
<1> DEFINE u == connections[a]
<1>1. u \in users /\ u \in User /\ a \in user[u].connections
  BY DEF MovesTo, VInv, SessionTables, TypeOK
<1>2. ASSUME NEW v \in User \ {u}
      PROVE  /\ user'[v] = user[v]
             /\ a \notin user[v].connections
             /\ \A c \in Channel : a \notin user[v].viewers[c]
             /\ \A x \in user[v].connections : x \in Addr /\ connections[x] = v
  <2>1. user[v] \in UserType
    BY DEF VInv, TypeOK
  <2> QED
    BY <2>1 DEF MovesTo, VInv, SessionTables, ViewersConsistent, UserType
<1>3. /\ \A c \in Channel \ now : user'[u].viewers[c] = user[u].viewers[c] \ {a}
      /\ \A c \in now : user'[u].viewers[c] = user[u].viewers[c] \cup {a}
  BY DEF MovesTo
<1>4. \A c \in Channel : c \in Gone(u) => c \notin now /\ user[u].viewers[c] = {a}
  BY <1>3 DEF Gone
<1>5. user'[u].connections \subseteq user[u].connections
  BY DEF MovesTo
<1> QED
  BY <1>1, <1>2, <1>3, <1>4, <1>5

\* Every step leaves active_channels in order.
LEMMA ViewersConsistentStep ==
  ASSUME VInv, [Next]_vars
  PROVE  ViewersConsistent'
<1>1. ASSUME NEW a \in Addr, NEW now \in SUBSET Channel, Moves(a, now)
      PROVE  ViewersConsistent'
  <2> DEFINE u == connections[a]
  <2>1. MovesTo(a, now)
    BY <1>1 DEF Moves
  <2>2. ASSUME NEW v \in User, NEW c \in Channel, v # u
        PROVE  /\ c \in user'[v].active <=> user'[v].viewers[c] # {}
               /\ user'[v].viewers[c] \subseteq user'[v].connections
               /\ \A d \in Channel \ {c} : user'[v].viewers[c] \cap user'[v].viewers[d] = {}
               /\ user'[v].viewers[c] # {} => c \in channels' /\ v \in members'[c]
    BY <2>1, <2>2 DEF MovesTo, VInv, ViewersConsistent
  <2>3. ASSUME NEW c \in Channel
        PROVE  /\ c \in user'[u].active <=> user'[u].viewers[c] # {}
               /\ user'[u].viewers[c] \subseteq user'[u].connections
               /\ \A d \in Channel \ {c} : user'[u].viewers[c] \cap user'[u].viewers[d] = {}
               /\ user'[u].viewers[c] # {} => c \in channels' /\ u \in members'[c]
    <3>1. u \in User /\ a \in user[u].connections
      BY <2>1, MoveFacts
    <3>2. c \in user'[u].active <=> user'[u].viewers[c] # {}
      BY <2>1 DEF MovesTo
    <3>3. user'[u].viewers[c] \subseteq user'[u].connections
      <4>1. user[u].viewers[c] \subseteq user[u].connections
        BY <3>1 DEF VInv, ViewersConsistent
      <4>2. CASE user'[u].connections = user[u].connections
        <5>1. user'[u].viewers[c] \subseteq user[u].viewers[c] \cup {a}
          BY <2>1, MoveFacts
        <5> QED
          BY <3>1, <4>1, <4>2, <5>1
      <4>3. CASE user'[u].connections = user[u].connections \ {a} /\ now = {}
        <5>1. user'[u].viewers[c] = user[u].viewers[c] \ {a}
          BY <2>1, <4>3, MoveFacts
        <5> QED
          BY <4>1, <4>3, <5>1
      <4> QED
        BY <2>1, <4>2, <4>3 DEF MovesTo
    <3>4. \A d \in Channel \ {c} : user'[u].viewers[c] \cap user'[u].viewers[d] = {}
      <4>1. \A d \in Channel \ {c} : user[u].viewers[c] \cap user[u].viewers[d] = {}
        BY <3>1 DEF VInv, ViewersConsistent
      <4>2. \A d \in Channel \ {c} : c \notin now \/ d \notin now
        BY <2>1 DEF MovesTo
      <4> QED
        BY <2>1, <4>1, <4>2 DEF MovesTo
    <3>5. user'[u].viewers[c] # {} => c \in channels' /\ u \in members'[c]
      BY <2>1, <3>1 DEF MovesTo, VInv, ViewersConsistent
    <3> QED
      BY <3>2, <3>3, <3>4, <3>5
  <2> QED
    BY <2>2, <2>3 DEF ViewersConsistent
<1>2. ASSUME Keeps, \A v \in User : user[v].connections \subseteq user'[v].connections
      PROVE  ViewersConsistent'
  <2> SUFFICES ASSUME NEW v \in User, NEW c \in Channel
               PROVE  /\ c \in user'[v].active <=> user'[v].viewers[c] # {}
                      /\ user'[v].viewers[c] \subseteq user'[v].connections
                      /\ \A d \in Channel \ {c} : user'[v].viewers[c] \cap user'[v].viewers[d] = {}
                      /\ user'[v].viewers[c] # {} => c \in channels' /\ v \in members'[c]
    BY DEF ViewersConsistent
  <2>1. /\ c \in user[v].active <=> user[v].viewers[c] # {}
        /\ user[v].viewers[c] \subseteq user[v].connections
        /\ \A d \in Channel \ {c} : user[v].viewers[c] \cap user[v].viewers[d] = {}
        /\ user[v].viewers[c] # {} => c \in channels /\ v \in members[c]
    BY DEF VInv, ViewersConsistent
  <2> QED
    BY <1>2, <2>1 DEF Keeps
<1>3. ASSUME NEW a \in Addr, NEW u \in User, Arrives(a, u)
      PROVE  ViewersConsistent'
  BY <1>2, <1>3 DEF Arrives
<1>4. CASE Stays
  BY <1>2, <1>4 DEF Stays
<1>5. CASE Restart
  BY <1>5 DEF Restart, ViewersConsistent, NewUser
<1> QED
  BY <1>1, <1>3, <1>4, <1>5, ViewingCases

\* Every step tells what is viewed: a VIEWING tells it before anybody else can
\* see the channel viewed, and NOVIEWERS only names channels nobody views.
LEMMA ViewersAnnouncedStep ==
  ASSUME VInv, ViewersAnnounced, [Next]_vars
  PROVE  ViewersAnnounced'
<1>1. ASSUME NEW a \in Addr, NEW now \in SUBSET Channel, Moves(a, now)
      PROVE  ViewersAnnounced'
  <2> DEFINE u == connections[a]
  <2>1. MovesTo(a, now)
    BY <1>1 DEF Moves
  <2> SUFFICES ASSUME NEW v \in User, NEW c \in Channel, NEW b \in user'[v].viewers[c], kicked'[b] = "No",
                      NEW x \in user'[v].connections
               PROVE  c \in toldViewing'[x]
    BY DEF ViewersAnnounced
  <2>2. CASE v # u
    <3>1. /\ b \in user[v].viewers[c] /\ x \in user[v].connections
          /\ b # a /\ x \in Addr /\ connections[x] = v
      BY <2>1, <2>2, MoveFacts
    <3>2. user[v].viewers[c] \subseteq Addr
      BY DEF VInv, TypeOK, UserType
    <3>3. kicked[b] = "No"
      BY <2>1, <3>1, <3>2 DEF MovesTo
    <3>4. c \in toldViewing[x]
      BY <3>1, <3>3 DEF ViewersAnnounced
    <3>5. toldViewing'[x] = toldViewing[x]
      BY <1>1, <2>2, <3>1 DEF Moves, TellsAndMarks
    <3> QED
      BY <3>4, <3>5
  <2>3. CASE v = u
    <3>1. u \in User /\ x \in user[u].connections /\ user[u].viewers[c] \subseteq Addr
      BY <2>1, <2>3, MoveFacts DEF VInv, TypeOK, UserType
    <3>2. ASSUME b # a
          PROVE  c \in toldViewing[x]
      <4>1. b \in user[u].viewers[c]
        BY <2>1, <2>3, <3>2, MoveFacts
      <4>2. kicked[b] = "No"
        BY <2>1, <3>1, <3>2, <4>1 DEF MovesTo
      <4> QED
        BY <3>1, <4>1, <4>2 DEF ViewersAnnounced
    <3>3. c \notin Gone(u)
      BY <2>3 DEF Gone
    <3>4. CASE kicked'[a] # "No" /\ DbMayFail /\ UNCHANGED <<db, toldViewing>>
      BY <3>2, <3>4
    <3>5. ASSUME NEW done \in SUBSET Channel, TellsAndMarks(a, now, done)
          PROVE  c \in toldViewing'[x]
      <4>1. c \notin done
        BY <3>3, <3>5 DEF TellsAndMarks, DoneChoice
      <4>2. c \notin now => b # a
        BY <2>1, <2>3, MoveFacts
      <4>3. CASE done = Gone(u)
        <5>1. toldViewing'[x] = (toldViewing[x] \ done) \cup now
          BY <2>3, <3>5, <4>3 DEF TellsAndMarks
        <5> QED
          BY <3>2, <4>1, <4>2, <5>1
      <4>4. CASE done # Gone(u)
        <5>1. toldViewing'[x] = toldViewing[x] \ done
          BY <2>3, <3>5, <4>4 DEF TellsAndMarks
        <5>2. a \in user'[u].connections => kicked'[a] # "No"
          BY <3>5, <4>4 DEF TellsAndMarks
        <5>3. a \notin user'[u].connections => now = {}
          <6>1. a \in user[u].connections
            BY <2>1, MoveFacts
          <6> QED
            BY <2>1, <6>1 DEF MovesTo
        <5> QED
          BY <3>2, <4>1, <4>2, <5>1, <5>2, <5>3
      <4> QED
        BY <4>3, <4>4
    <3> QED
      BY <1>1, <3>4, <3>5 DEF Moves
  <2> QED
    BY <2>2, <2>3
<1>2. ASSUME Keeps, NEW v \in User, NEW c \in Channel, NEW b \in user'[v].viewers[c], kicked'[b] = "No"
      PROVE  /\ b \in user[v].viewers[c] /\ c \in user[v].active
             /\ \A x \in user[v].connections : c \in toldViewing[x]
  <2>1. b \in user[v].viewers[c] /\ user[v] \in UserType
    BY <1>2 DEF Keeps, VInv, TypeOK
  <2>2. b \in Addr /\ connections[b] = v
    BY <2>1 DEF VInv, ViewersConsistent, SessionTables, UserType
  <2>3. kicked[b] = "No"
    BY <1>2, <2>2, NamesAssumption DEF Keeps
  <2> QED
    BY <2>1, <2>3 DEF ViewersAnnounced, VInv, ViewersConsistent
<1>3. ASSUME NEW a \in Addr, NEW u \in User, Arrives(a, u)
      PROVE  ViewersAnnounced'
  <2> SUFFICES ASSUME NEW v \in User, NEW c \in Channel, NEW b \in user'[v].viewers[c], kicked'[b] = "No",
                      NEW x \in user'[v].connections
               PROVE  c \in toldViewing'[x]
    BY DEF ViewersAnnounced
  <2>1. c \in user[v].active /\ \A y \in user[v].connections : c \in toldViewing[y]
    BY <1>2, <1>3 DEF Arrives
  <2>2. \A y \in user[v].connections : y \in Addr /\ y # a
    BY <1>3, NamesAssumption DEF Arrives, VInv, SessionTables, TypeOK, UserType
  <2>3. CASE x \in user[v].connections
    BY <1>3, <2>1, <2>2, <2>3 DEF Arrives
  <2>4. CASE x \notin user[v].connections
    <3>1. v = u /\ x = a
      BY <1>3, <2>4 DEF Arrives
    <3> QED
      BY <1>3, <2>1, <3>1 DEF Arrives
  <2> QED
    BY <2>3, <2>4
<1>4. CASE Stays
  <2> SUFFICES ASSUME NEW v \in User, NEW c \in Channel, NEW b \in user'[v].viewers[c], kicked'[b] = "No",
                      NEW x \in user'[v].connections
               PROVE  c \in toldViewing'[x]
    BY DEF ViewersAnnounced
  <2>1. \A y \in user[v].connections : c \in toldViewing[y]
    BY <1>2, <1>4 DEF Stays
  <2> QED
    BY <1>4, <2>1 DEF Stays
<1>5. CASE Restart
  BY <1>5 DEF Restart, ViewersAnnounced, NewUser
<1> QED
  BY <1>1, <1>3, <1>4, <1>5, ViewingCases

\* What a move makes of the marks: none on a channel that is viewed now, the
\* newest message on a channel that lost its last viewer, all others as before.
LEMMA MarksAfterMove ==
  ASSUME VInv, NEW a \in Addr, NEW now \in SUBSET Channel, NEW done \in SUBSET Channel,
         MovesTo(a, now), TellsAndMarks(a, now, done), NEW v \in User, NEW c \in Channel
  PROVE  Marks(db', v, c) =
           IF v = connections[a]
           THEN IF c \in now THEN {}
                ELSE IF c \in done THEN Marks(db, v, c) \cup {MarkOf(db, v, c)} ELSE Marks(db, v, c)
           ELSE Marks(db, v, c)
<1> DEFINE u == connections[a]
<1>1. db'.lastRead = {r \in db.lastRead : ~(r.user = u /\ r.channel \in now)}
                       \cup {MarkOf(db, u, d) : d \in done}
  BY DEF TellsAndMarks
<1>2. \A d \in done : MarkOf(db, u, d).user = u /\ MarkOf(db, u, d).channel = d
  BY DEF MarkOf
<1>3. \A d \in done : d \notin now
  <2>1. done \subseteq Gone(u)
    BY DEF TellsAndMarks, DoneChoice
  <2> QED
    BY <2>1, MoveFacts
<1> QED
  BY <1>1, <1>2, <1>3 DEF Marks

\* A channel that is viewed has a mark only while all its viewers are on their
\* way out.
LEMMA MarkedViewersStep ==
  ASSUME VInv, MarkedViewersAreKicked, [Next]_vars
  PROVE  MarkedViewersAreKicked'
<1>1. ASSUME NEW a \in Addr, NEW now \in SUBSET Channel, Moves(a, now)
      PROVE  MarkedViewersAreKicked'
  <2> DEFINE u == connections[a]
  <2>1. MovesTo(a, now)
    BY <1>1 DEF Moves
  <2> SUFFICES ASSUME NEW v \in User, NEW c \in Channel, Marks(db', v, c) # {},
                      NEW x \in user'[v].viewers[c]
               PROVE  kicked'[x] # "No"
    BY DEF MarkedViewersAreKicked, Marks
  <2>2. user[v].viewers[c] \subseteq Addr
    BY DEF VInv, TypeOK, UserType
  <2>3. ASSUME Marks(db, v, c) # {}, x # a
        PROVE  kicked'[x] # "No"
    <3>1. x \in user[v].viewers[c]
      BY <2>1, <2>3, MoveFacts
    <3>2. kicked[x] # "No"
      BY <2>3, <3>1 DEF MarkedViewersAreKicked
    <3> QED
      BY <2>1, <2>2, <2>3, <3>1, <3>2 DEF MovesTo
  <2>4. v # u \/ c \notin now => x # a
    BY <2>1, MoveFacts
  <2>5. CASE kicked'[a] # "No" /\ DbMayFail /\ UNCHANGED <<db, toldViewing>>
    BY <2>3, <2>5
  <2>6. ASSUME NEW done \in SUBSET Channel, TellsAndMarks(a, now, done)
        PROVE  kicked'[x] # "No"
    <3>1. v = u => c \notin done
      BY <2>6 DEF TellsAndMarks, DoneChoice, Gone
    <3>2. Marks(db, v, c) # {} /\ (v # u \/ c \notin now)
      BY <2>1, <2>6, <3>1, MarksAfterMove
    <3> QED
      BY <2>3, <2>4, <3>2
  <2> QED
    BY <1>1, <2>5, <2>6 DEF Moves
<1>2. ASSUME Keeps
      PROVE  MarkedViewersAreKicked'
  <2> SUFFICES ASSUME NEW v \in User, NEW c \in Channel, Marks(db', v, c) # {},
                      NEW x \in user'[v].viewers[c]
               PROVE  kicked'[x] # "No"
    BY DEF MarkedViewersAreKicked, Marks
  <2>1. Marks(db, v, c) # {} /\ x \in user[v].viewers[c] /\ user[v] \in UserType
    BY <1>2 DEF Keeps, Marks, VInv, TypeOK
  <2>2. kicked[x] # "No"
    BY <2>1 DEF MarkedViewersAreKicked
  <2>3. x \in Addr /\ connections[x] = v
    BY <2>1 DEF VInv, ViewersConsistent, SessionTables, UserType
  <2> QED
    BY <1>2, <2>2, <2>3, NamesAssumption DEF Keeps
<1>3. CASE Restart
  BY <1>3 DEF Restart, MarkedViewersAreKicked, NewUser
<1> QED
  BY <1>1, <1>2, <1>3, ViewingCases DEF Arrives, Stays

\* One mark per user and channel, and none on a channel that is viewed.
LEMMA ReadMarksStep ==
  ASSUME VInv, ReadMarks, [Next]_vars
  PROVE  ReadMarks'
<1> SUFFICES ASSUME ~DbMayFail, NEW v \in User, NEW c \in Channel
             PROVE  /\ user'[v].viewers[c] # {} => Marks(db', v, c) = {}
                    /\ \A r1, r2 \in Marks(db', v, c) : r1 = r2
  BY DEF ReadMarks, Marks
<1>1. /\ user[v].viewers[c] # {} => Marks(db, v, c) = {}
      /\ \A r1, r2 \in Marks(db, v, c) : r1 = r2
  BY DEF ReadMarks
<1>2. ASSUME NEW a \in Addr, NEW now \in SUBSET Channel, Moves(a, now)
      PROVE  /\ user'[v].viewers[c] # {} => Marks(db', v, c) = {}
             /\ \A r1, r2 \in Marks(db', v, c) : r1 = r2
  <2> DEFINE u == connections[a]
  <2>1. PICK done \in SUBSET Channel : TellsAndMarks(a, now, done)
    BY <1>2 DEF Moves
  <2>2. MovesTo(a, now)
    BY <1>2 DEF Moves
  <2>3. CASE v # u
    <3>1. Marks(db', v, c) = Marks(db, v, c) /\ user'[v] = user[v]
      BY <2>1, <2>2, <2>3, MarksAfterMove, MoveFacts
    <3> QED
      BY <1>1, <3>1
  <2>4. CASE v = u /\ c \in now
    <3>1. Marks(db', v, c) = {}
      BY <2>1, <2>2, <2>4, MarksAfterMove
    <3> QED
      BY <3>1
  <2>5. CASE v = u /\ c \notin now /\ c \in done
    <3>1. c \in Gone(u)
      BY <2>1, <2>5 DEF TellsAndMarks, DoneChoice
    <3>2. user'[v].viewers[c] = {} /\ Marks(db, v, c) = {}
      BY <1>1, <2>5, <3>1 DEF Gone
    <3>3. Marks(db', v, c) = Marks(db, v, c) \cup {MarkOf(db, v, c)}
      BY <2>1, <2>2, <2>5, MarksAfterMove
    <3> QED
      BY <3>2, <3>3
  <2>6. CASE v = u /\ c \notin now /\ c \notin done
    <3>1. Marks(db', v, c) = Marks(db, v, c)
      BY <2>1, <2>2, <2>6, MarksAfterMove
    <3>2. user'[v].viewers[c] \subseteq user[v].viewers[c]
      BY <2>2, <2>6, MoveFacts
    <3> QED
      BY <1>1, <3>1, <3>2
  <2> QED
    BY <2>3, <2>4, <2>5, <2>6
<1>3. ASSUME Keeps
      PROVE  /\ user'[v].viewers[c] # {} => Marks(db', v, c) = {}
             /\ \A r1, r2 \in Marks(db', v, c) : r1 = r2
  BY <1>1, <1>3 DEF Keeps, Marks
<1>4. ASSUME Restart
      PROVE  /\ user'[v].viewers[c] # {} => Marks(db', v, c) = {}
             /\ \A r1, r2 \in Marks(db', v, c) : r1 = r2
  <2>1. user'[v].viewers[c] = {} /\ db' = db
    BY <1>4 DEF Restart, NewUser
  <2> QED
    BY <1>1, <2>1
<1> QED
  BY <1>2, <1>3, <1>4, ViewingCases DEF Arrives, Stays

\* Without failing statements, all channels that lost their last viewer, of
\* which there is one at most, are marked if they have a message.
LEMMA GoneIsDone ==
  ASSUME VInv, ~DbMayFail, NEW a \in Addr, NEW now \in SUBSET Channel, NEW done,
         MovesTo(a, now), TellsAndMarks(a, now, done),
         NEW c \in Gone(connections[a]), MessagesIn(db, c) # {}
  PROVE  c \in done
<1> DEFINE u == connections[a]
<1>1. u \in User /\ c \in Channel
  BY MoveFacts DEF Gone
<1>2. \A e \in Gone(u) : e = c
  <2> SUFFICES ASSUME NEW e \in Gone(u), e # c PROVE FALSE
    OBVIOUS
  <2>1. e \in Channel
    BY DEF Gone
  <2>2. user[u].viewers[e] = {a} /\ user[u].viewers[c] = {a}
    BY <1>1, <2>1, MoveFacts
  <2> QED
    BY <1>1, <2>1, <2>2 DEF VInv, ViewersConsistent
<1>3. SetLastReadOk(db, u, c)
  <2>1. u \in members[c]
    BY <1>1 DEF Gone, VInv, ViewersConsistent
  <2> QED
    BY <1>1, <2>1 DEF VInv, MemoryMirrorsDatabase, MembersOf, SetLastReadOk
<1>4. done = Gone(u) \/ \E e \in Gone(u) \ done : ~SetLastReadOk(db, u, e)
  BY DEF TellsAndMarks, DoneChoice
<1> QED
  BY <1>2, <1>3, <1>4

\* The step property of LeavingMarksRead.
LEMMA LeavingMarksReadStep ==
  ASSUME VInv, [Next]_vars, ~DbMayFail, ~Restart,
         NEW v \in User, NEW c \in Channel,
         user[v].viewers[c] # {}, user'[v].viewers[c] = {}, MessagesIn(db, c) # {}
  PROVE  /\ MarkOf(db, v, c) \in db'.lastRead
         /\ \A x \in user'[v].connections : c \notin toldViewing'[x]
<1>1. ~Keeps
  BY DEF Keeps
<1>2. PICK a \in Addr, now \in SUBSET Channel : Moves(a, now)
  BY <1>1, ViewingCases DEF Arrives, Stays
<1> DEFINE u == connections[a]
<1>3. MovesTo(a, now)
  BY <1>2 DEF Moves
<1>4. PICK done \in SUBSET Channel : TellsAndMarks(a, now, done)
  BY <1>2 DEF Moves
<1>5. v = u
  BY <1>3, MoveFacts
<1>6. c \in Gone(u)
  BY <1>5 DEF Gone
<1>7. c \in done /\ c \notin now
  BY <1>3, <1>4, <1>6, GoneIsDone, MoveFacts
<1>8. MarkOf(db, v, c) \in db'.lastRead
  BY <1>4, <1>5, <1>7 DEF TellsAndMarks
<1>9. ASSUME NEW x \in user'[v].connections
      PROVE  c \notin toldViewing'[x]
  <2>1. toldViewing'[x] = (toldViewing[x] \ done) \cup now \/ toldViewing'[x] = toldViewing[x] \ done
    BY <1>4, <1>5 DEF TellsAndMarks
  <2> QED
    BY <1>7, <2>1
<1> QED
  BY <1>8, <1>9

-----------------------------------------------------------------------------
(* ChatServer implements ReadState                                         *)

\* connections follows from the connections of the users.
LEMMA SessionsFollow ==
  ASSUME VInv', NEW f \in [Addr -> User \cup {NoUser}],
         \A x \in Addr, v \in User : f[x] = v <=> x \in user'[v].connections
  PROVE  connections' = f
<1>1. connections' \in [Addr -> User \cup {NoUser}]
  BY DEF VInv, TypeOK
<1>2. \A x \in Addr, v \in User : x \in user'[v].connections <=> connections'[x] = v
  BY DEF VInv, SessionTables
<1>3. ASSUME NEW x \in Addr PROVE connections'[x] = f[x]
  BY <1>1, <1>2, NamesAssumption
<1> QED
  BY <1>1, <1>3

\* A connection looks at what its user says it views, and a user at its
\* active_channels.
LEMMA LookingFacts ==
  ASSUME VInv
  PROVE  /\ \A x \in Addr, c \in Channel, v \in User :
              connections[x] = v => (c \in Looking[x] <=> x \in user[v].viewers[c])
         /\ \A x \in Addr : connections[x] = NoUser => Looking[x] = {}
         /\ \A v \in User : Reading!Sessions(v) = user[v].connections
         /\ \A v \in User : Reading!LookedAt(v) = user[v].active
<1>1. \A x \in Addr, c \in Channel, v \in User : x \in user[v].viewers[c] => connections[x] = v
  BY DEF VInv, ViewersConsistent, SessionTables
<1>2. \A x \in Addr, c \in Channel, v \in User :
        connections[x] = v => (c \in Looking[x] <=> x \in user[v].viewers[c])
  BY <1>1 DEF Looking
<1>3. \A x \in Addr : connections[x] = NoUser => Looking[x] = {}
  BY <1>1, NamesAssumption DEF Looking
<1>4. ASSUME NEW v \in User
      PROVE  /\ Reading!Sessions(v) = user[v].connections
             /\ user[v].active \in SUBSET Channel
             /\ \A c \in Channel : /\ c \in user[v].active <=> user[v].viewers[c] # {}
                                   /\ user[v].viewers[c] \subseteq user[v].connections
  BY DEF VInv, TypeOK, UserType, SessionTables, ViewersConsistent, Reading!Sessions
<1>5. ASSUME NEW v \in User
      PROVE  Reading!LookedAt(v) = user[v].active
  <2>1. \A x \in Reading!Sessions(v) : x \in Addr /\ connections[x] = v
    BY DEF Reading!Sessions
  <2>2. \A x \in Reading!Sessions(v) : Looking[x] = {c \in Channel : x \in user[v].viewers[c]}
    BY <1>2, <2>1 DEF Looking
  <2>3. Reading!LookedAt(v) =
          {c \in Channel : \E x \in Reading!Sessions(v) : x \in user[v].viewers[c]}
    BY <2>2 DEF Reading!LookedAt
  <2> QED
    BY <1>4, <2>3
<1> QED
  BY <1>2, <1>3, <1>4, <1>5

\* After a move, a looks at now only, and Gone is what is left.
LEMMA MovedLooking ==
  ASSUME VInv, NEW a \in Addr, NEW now \in SUBSET Channel, MovesTo(a, now)
  PROVE  /\ Looking' = [Looking EXCEPT ![a] = now]
         /\ Reading!Left(a, now) = Gone(connections[a])
<1> DEFINE u == connections[a]
<1>1. u \in User
  BY MoveFacts
<1>2. ASSUME NEW x \in Addr \ {a}, NEW c \in Channel, NEW v \in User
      PROVE  x \in user'[v].viewers[c] <=> x \in user[v].viewers[c]
  BY <1>2, MoveFacts
<1>3. ASSUME NEW c \in Channel
      PROVE  (\E v \in User : a \in user'[v].viewers[c]) <=> c \in now
  BY <1>1, MoveFacts
<1>4. Looking' = [Looking EXCEPT ![a] = now]
  <2>1. \A x \in Addr \ {a} : Looking'[x] = Looking[x]
    BY <1>2 DEF Looking
  <2>2. Looking'[a] = now
    BY <1>3 DEF Looking
  <2>3. Looking' = [x \in Addr |-> Looking'[x]] /\ Looking = [x \in Addr |-> Looking[x]]
    BY DEF Looking
  <2> QED
    BY <2>1, <2>2, <2>3
<1>5. Reading!Left(a, now) = Gone(u)
  <2>1. Reading!LookedAt(u) = {c \in Channel : user[u].viewers[c] # {}}
    BY <1>1, LookingFacts DEF VInv, ViewersConsistent, TypeOK, UserType
  <2>2. Reading!Sessions(u) = user[u].connections /\ user[u].connections \subseteq Addr
    BY <1>1, LookingFacts DEF VInv, TypeOK, UserType
  <2>3. UNION {Looking[b] : b \in Reading!Sessions(u) \ {a}} =
          {c \in Channel : user[u].viewers[c] \ {a} # {}}
    <3>1. \A b \in Reading!Sessions(u) \ {a} :
            Looking[b] = {c \in Channel : b \in user[u].viewers[c]}
      BY <1>1, <2>2, LookingFacts DEF Looking, Reading!Sessions
    <3>2. \A c \in Channel : user[u].viewers[c] \subseteq Reading!Sessions(u)
      BY <1>1, <2>2 DEF VInv, ViewersConsistent
    <3> QED
      BY <3>1, <3>2
  <2>4. \A c \in Channel \ now : user'[u].viewers[c] = user[u].viewers[c] \ {a}
    BY MoveFacts
  <2>5. \A c \in now : user'[u].viewers[c] # {}
    BY MoveFacts
  <2> QED
    BY <2>1, <2>3, <2>4, <2>5 DEF Reading!Left, Gone
<1> QED
  BY <1>4, <1>5

\* One channel at most is left by a move, so its marks are stored all or none.
LEMMA MovedStored ==
  ASSUME VInv, NEW a \in Addr, NEW now \in SUBSET Channel, NEW done,
         MovesTo(a, now), TellsAndMarks(a, now, done)
  PROVE  done \in Reading!Stored(Gone(connections[a]))
<1> DEFINE u == connections[a]
<1>1. u \in User /\ Gone(u) \subseteq Channel
  BY MoveFacts DEF Gone
<1>2. \A c, d \in Gone(u) : c = d
  <2> SUFFICES ASSUME NEW c \in Gone(u), NEW d \in Gone(u), c # d PROVE FALSE
    OBVIOUS
  <2>1. c \in Channel /\ d \in Channel
    BY DEF Gone
  <2>2. user[u].viewers[c] = {a} /\ user[u].viewers[d] = {a}
    BY <2>1, MoveFacts
  <2> QED
    BY <1>1, <2>1, <2>2 DEF VInv, ViewersConsistent
<1>3. \A c \in Gone(u) : SetLastReadOk(db, u, c) <=> Posted[c] # {}
  <2>1. \A c \in Gone(u) : u \in members[c]
    BY <1>1 DEF Gone, VInv, ViewersConsistent
  <2> QED
    BY <1>1, <2>1 DEF VInv, MemoryMirrorsDatabase, MembersOf, SetLastReadOk, Posted
<1>4. /\ done \subseteq Gone(u)
      /\ \A c \in done : SetLastReadOk(db, u, c)
      /\ done = Gone(u) \/ DbMayFail \/ \E c \in Gone(u) \ done : ~SetLastReadOk(db, u, c)
  BY DEF TellsAndMarks, DoneChoice
<1>5. done = Gone(u) \/ done = {}
  BY <1>2, <1>4
<1> QED
  BY <1>3, <1>4, <1>5 DEF Reading!Stored

\* The marks after a move are those ReadState wants.
LEMMA MovedMarks ==
  ASSUME VInv, NEW a \in Addr, NEW now \in SUBSET Channel, NEW done \in SUBSET Channel,
         MovesTo(a, now), TellsAndMarks(a, now, done)
  PROVE  Reading!Mark(connections[a], now, done)
<1> DEFINE u == connections[a]
<1>1. u \in User
  BY MoveFacts
<1>2. \A v \in User, c \in Channel :
        Marked'[v][c] = {r.message : r \in Marks(db', v, c)} /\ Marked[v][c] = {r.message : r \in Marks(db, v, c)}
  BY DEF Marked, Marks
<1>3. \A c \in Channel : MarkOf(db, u, c).message = Max(Posted[c])
  BY DEF MarkOf, LastId, Posted
<1>4. ASSUME NEW v \in User \ {u}, NEW c \in Channel
      PROVE  Marked'[v][c] = Marked[v][c]
  <2>1. Marks(db', v, c) = Marks(db, v, c)
    BY MarksAfterMove
  <2> QED
    BY <1>2, <2>1
<1> DEFINE row == [c \in Channel |-> IF c \in now THEN {}
                                     ELSE IF c \in done THEN Marked[u][c] \cup {Max(Posted[c])}
                                          ELSE Marked[u][c]]
<1>5. ASSUME NEW v \in User, v = u, NEW c \in Channel
      PROVE  Marked'[v][c] = row[c]
  <2>1. CASE c \in now
    <3>1. Marks(db', v, c) = {}
      BY <1>5, <2>1, MarksAfterMove
    <3> QED
      BY <1>2, <2>1, <3>1
  <2>2. CASE c \notin now /\ c \notin done
    <3>1. Marks(db', v, c) = Marks(db, v, c)
      BY <1>5, <2>2, MarksAfterMove
    <3>2. Marked'[v][c] = Marked[v][c]
      BY <1>2, <3>1
    <3> QED
      BY <1>5, <2>2, <3>2
  <2>3. CASE c \notin now /\ c \in done
    <3>1. Marks(db', v, c) = Marks(db, v, c) \cup {MarkOf(db, v, c)}
      BY <1>5, <2>3, MarksAfterMove
    <3>2. {r.message : r \in Marks(db', v, c)} =
            {r.message : r \in Marks(db, v, c)} \cup {MarkOf(db, v, c).message}
      BY <3>1
    <3> QED
      BY <1>2, <1>3, <1>5, <2>3, <3>2
  <2> QED
    BY <2>1, <2>2, <2>3
<1>6. Marked' = [Marked EXCEPT ![u] = row]
  <2>1. Marked'[u] = row
    <3>1. Marked'[u] = [c \in Channel |-> Marked'[u][c]]
      BY <1>1 DEF Marked
    <3> QED
      BY <1>1, <1>5, <3>1
  <2>2. \A v \in User \ {u} : Marked'[v] = Marked[v]
    <3>1. \A v \in User : /\ Marked'[v] = [c \in Channel |-> Marked'[v][c]]
                          /\ Marked[v] = [c \in Channel |-> Marked[v][c]]
      BY DEF Marked
    <3> QED
      BY <1>4, <3>1
  <2>3. DOMAIN Marked' = User /\ DOMAIN Marked = User /\ Marked' = [v \in User |-> Marked'[v]]
    BY DEF Marked
  <2> HIDE DEF row
  <2> QED
    BY <1>1, <2>1, <2>2, <2>3
<1>7. \A S : Reading!Max(S) = Max(S)
  BY DEF Max, Reading!Max
<1> QED
  BY <1>6, <1>7 DEF Reading!Mark

\* The sessions and the messages of a move: a stays or goes, the messages stay.
LEMMA MovedSessions ==
  ASSUME VInv, VInv', NEW a \in Addr, NEW now \in SUBSET Channel, MovesTo(a, now)
  PROVE  /\ connections[a] # NoUser
         /\ a \in user'[connections[a]].connections => UNCHANGED connections
         /\ a \notin user'[connections[a]].connections =>
              now = {} /\ connections' = [connections EXCEPT ![a] = NoUser]
<1> DEFINE u == connections[a]
           f == [connections EXCEPT ![a] = NoUser]
<1>1. u \in User /\ u # NoUser /\ a \in user[u].connections
  BY MoveFacts, NamesAssumption
<1>2. connections \in [Addr -> User \cup {NoUser}]
  BY DEF VInv, TypeOK
<1>3. \A x \in Addr, v \in User : connections[x] = v <=> x \in user[v].connections
  BY DEF VInv, SessionTables
<1>4. \A v \in User \ {u} : user'[v] = user[v]
  BY DEF MovesTo
<1>5. ASSUME a \in user'[u].connections
      PROVE  UNCHANGED connections
  <2>1. user'[u].connections = user[u].connections
    BY <1>5 DEF MovesTo
  <2>2. \A x \in Addr, v \in User : connections[x] = v <=> x \in user'[v].connections
    BY <1>3, <1>4, <2>1
  <2> QED
    BY <1>2, <2>2, SessionsFollow
<1>6. ASSUME a \notin user'[u].connections
      PROVE  now = {} /\ connections' = f
  <2>1. user'[u].connections = user[u].connections \ {a} /\ now = {}
    BY <1>1, <1>6 DEF MovesTo
  <2>2. f \in [Addr -> User \cup {NoUser}]
    BY <1>2
  <2>3. \A x \in Addr, v \in User : f[x] = v <=> x \in user'[v].connections
    BY <1>1, <1>2, <1>3, <1>4, <2>1, NamesAssumption
  <2> HIDE DEF f
  <2> QED
    BY <2>1, <2>2, <2>3, SessionsFollow
<1> QED
  BY <1>1, <1>5, <1>6

\* What the connections of the user of a are told after a move.
LEMMA MovedShown ==
  ASSUME VInv, VInv', NEW a \in Addr, NEW now \in SUBSET Channel, NEW done,
         MovesTo(a, now), TellsAndMarks(a, now, done)
  PROVE  /\ a \in user'[connections[a]].connections => 
              toldViewing' = Reading!Show(connections[a], done, IF done = Gone(connections[a]) THEN now ELSE {})
         /\ a \notin user'[connections[a]].connections =>
              toldViewing' = [Reading!Show(connections[a], done, {}) EXCEPT ![a] = {}]
<1> DEFINE u == connections[a]
           come == IF done = Gone(u) THEN now ELSE {}
<1>1. u \in User /\ toldViewing' \in [Addr -> SUBSET Channel]
  BY MoveFacts DEF VInv, TypeOK
<1>2. \A x \in Addr : connections[x] # u => toldViewing'[x] = toldViewing[x]
  BY DEF TellsAndMarks
<1>3. \A x \in user'[u].connections : toldViewing'[x] = (toldViewing[x] \ done) \cup come
  BY DEF TellsAndMarks
<1>4. Reading!Sessions(u) = {x \in Addr : connections[x] = u}
  BY DEF Reading!Sessions
<1>5. \A x \in Addr \ {a} : x \in Reading!Sessions(u) => x \in user'[u].connections
  BY <1>1, <1>4 DEF MovesTo, VInv, SessionTables
<1> HIDE DEF come
<1>6. ASSUME a \in user'[u].connections
      PROVE  toldViewing' = Reading!Show(u, done, come)
  BY <1>1, <1>2, <1>3, <1>4, <1>5, <1>6 DEF Reading!Show
<1>7. ASSUME a \notin user'[u].connections
      PROVE  toldViewing' = [Reading!Show(u, done, {}) EXCEPT ![a] = {}]
  <2>1. now = {} /\ toldViewing'[a] = {}
    BY <1>7, MovedSessions DEF TellsAndMarks
  <2>2. come = {}
    BY <2>1 DEF come
  <2>3. \A x \in Addr \ {a} : toldViewing'[x] = Reading!Show(u, done, {})[x]
    BY <1>2, <1>3, <1>4, <1>5, <2>2 DEF Reading!Show
  <2> QED
    BY <1>1, <2>1, <2>3 DEF Reading!Show
<1> QED
  BY <1>6, <1>7 DEF come

\* A move whose DELETE, if any, succeeds.
LEMMA MoveStep ==
  ASSUME VInv, VInv', NEW a \in Addr, NEW now \in SUBSET Channel, NEW done \in SUBSET Channel,
         MovesTo(a, now), TellsAndMarks(a, now, done)
  PROVE  (\E c \in Channel : Reading!Look(a, c)) \/ Reading!LookAway(a) \/ Reading!Leave(a)
<1> DEFINE u == connections[a]
           left == Gone(u)
<1>1. /\ connections[a] # NoUser
      /\ Looking' = [Looking EXCEPT ![a] = now]
      /\ left = Reading!Left(a, now)
      /\ done \in Reading!Stored(left)
      /\ Reading!Mark(u, now, done)
  BY MovedSessions, MovedLooking, MovedStored, MovedMarks
<1>2. Posted' = Posted
  BY DEF TellsAndMarks, Posted, MessagesIn
<1>3. \A x \in Addr \ {a} : kicked'[x] = kicked[x]
  BY DEF MovesTo
<1> HIDE DEF left
<1>4. CASE a \in user'[u].connections
  <2>1. UNCHANGED connections
    BY <1>4, MovedSessions
  <2>2. Reading!Turns(a, now) => (\E c \in Channel : Reading!Look(a, c)) \/ Reading!LookAway(a)
    <3>1. now = {} \/ \E c \in Channel : now = {c}
      BY DEF MovesTo
    <3> QED
      BY <1>1, <1>2, <2>1, <3>1, Zenon DEF Reading!Look, Reading!LookAway
  <2>3. CASE done = left
    <3>1. kicked'[a] = kicked[a]
      BY <1>4, <2>3 DEF TellsAndMarks, left
    <3>2. Leaving' = Leaving
      BY <1>3, <2>1, <3>1 DEF Leaving
    <3>3. toldViewing' = Reading!Show(u, left, now)
      BY <1>4, <2>3, MovedShown DEF left
    <3>4. Reading!Turns(a, now)
      BY <1>1, <2>3, <3>2, <3>3, Zenon DEF Reading!Turns
    <3> QED
      BY <2>2, <3>4
  <2>4. CASE done # left
    <3>1. kicked'[a] # "No"
      BY <1>4, <2>4 DEF TellsAndMarks, left
    <3>2. Leaving' = Leaving \cup {a}
      BY <1>1, <1>3, <2>1, <3>1 DEF Leaving
    <3>3. toldViewing' = toldViewing
      <4>1. done = {} /\ toldViewing \in [Addr -> SUBSET Channel]
        BY <1>1, <2>4 DEF Reading!Stored, VInv, TypeOK
      <4>2. toldViewing' = Reading!Show(u, done, {})
        BY <1>4, <2>4, MovedShown DEF left
      <4> QED
        BY <4>1, <4>2 DEF Reading!Show
    <3>4. Reading!Turns(a, now)
      BY <1>1, <2>4, <3>2, <3>3, Zenon DEF Reading!Turns
    <3> QED
      BY <2>2, <3>4
  <2> QED
    BY <2>3, <2>4
<1>5. CASE a \notin user'[u].connections
  <2>1. now = {} /\ connections' = [connections EXCEPT ![a] = NoUser]
    BY <1>5, MovedSessions
  <2>2. connections \in [Addr -> User \cup {NoUser}]
    BY DEF VInv, TypeOK
  <2>3. Leaving' = Leaving \ {a}
    BY <1>3, <2>1, <2>2 DEF Leaving
  <2>4. toldViewing' = [Reading!Show(u, done, {}) EXCEPT ![a] = {}]
    BY <1>5, MovedShown
  <2> QED
    BY <1>1, <1>2, <2>1, <2>3, <2>4, Zenon DEF Reading!Leave
<1> QED
  BY <1>4, <1>5

\* A VIEWING whose DELETE fails.
LEMMA FailedLookStep ==
  ASSUME VInv, VInv', NEW a \in Addr, NEW now \in SUBSET Channel, MovesTo(a, now),
         now # {}, kicked'[a] # "No", DbMayFail, UNCHANGED <<db, toldViewing>>
  PROVE  \E c \in Channel : Reading!Look(a, c)
<1>1. connections[a] # NoUser /\ UNCHANGED connections
  BY MovedSessions
<1>2. PICK c \in Channel : now = {c}
  BY DEF MovesTo
<1>3. Looking' = [Looking EXCEPT ![a] = {c}]
  BY <1>2, MovedLooking
<1>4. Leaving' = Leaving \cup {a}
  BY <1>1 DEF Leaving, MovesTo
<1>5. Posted' = Posted /\ Marked' = Marked
  BY DEF Posted, Marked
<1> QED
  BY <1>1, <1>3, <1>4, <1>5 DEF Reading!Look

\* The steps that move no connection: a message more, a Disconnect more, or
\* nothing that ReadState sees.
LEMMA MessagesFollow ==
  ASSUME VInv, [Next]_vars
  PROVE  \/ db'.messages = db.messages
         \/ \E a \in Addr, c \in Channel : MsgOk(a, c)
<1>1. db \in DatabaseType
  BY DEF VInv, TypeOK
<1>2. ASSUME NEW a \in Addr, NEW u \in User, RegisterTooLate(a, u) \/ RegisterOk(a, u)
      PROVE  db'.messages = db.messages
  BY <1>1, <1>2, RegisterUserTables DEF RegisterTooLate, RegisterOk
<1>3. ASSUME NEW a \in Addr, NEW c \in Channel, JoinMemberFails(a, c)
      PROVE  db'.messages = db.messages
  BY <1>1, <1>3, WithChannelTables DEF JoinMemberFails
<1>4. ASSUME NEW a \in Addr, NEW c \in Channel, JoinOk(a, c)
      PROVE  db'.messages = db.messages
  <2>1. connections[a] \in User
    BY <1>4 DEF JoinOk, Authed, VInv, TypeOK
  <2>2. WithChannel(c) \in DatabaseType /\ WithChannel(c).messages = db.messages
    BY <1>1, WithChannelTables
  <2>3. db' = JoinChannel(WithChannel(c), connections[a], c)
    BY <1>4 DEF JoinOk
  <2> QED
    BY <2>1, <2>2, <2>3, JoinChannelTables
<1>5. ASSUME NEW a \in Addr, ViewingStep(a) \/ DisconnectedUser(a)
      PROVE  db'.messages = db.messages
  <2>1. ASSUME NEW c \in Channel, ViewingFails(a, c) \/ ViewingStored(a, c)
        PROVE  db'.messages = db.messages
    BY <2>1, FailedViewing, StoredViewing DEF TellsAndMarks
  <2>2. ASSUME NotViewingOk(a) \/ DisconnectedUser(a)
        PROVE  db'.messages = db.messages
    BY <2>2, StoredNotViewing, StoredDisconnected DEF TellsAndMarks
  <2> QED
    BY <1>5, <2>1, <2>2 DEF ViewingStep
<1>6. ASSUME NEW a, NewConnection(a) \/ DisconnectedAnonymous(a) PROVE db' = db
  BY <1>6 DEF NewConnection, DisconnectedAnonymous
<1>7. ASSUME NEW late, CheckUnauthUsers(late) PROVE db' = db
  BY <1>7 DEF CheckUnauthUsers
<1>8. ASSUME NEW a, NEW e, Reject(a, e) PROVE db' = db
  BY <1>8 DEF Reject
<1>9. ASSUME NEW a, NEW u, IdentOk(a, u) PROVE db' = db
  BY <1>9 DEF IdentOk
<1>10. ASSUME NEW a, NEW C, HistoryOk(a, C) PROVE db' = db
  BY <1>10 DEF HistoryOk
<1>11. Restart \/ UNCHANGED vars => db' = db
  BY DEF Restart, vars
<1> QED
  BY <1>2, <1>3, <1>4, <1>5, <1>6, <1>7, <1>8, <1>9, <1>10, <1>11, StepCases DEF VInv

\* MSG: the new message has the highest number.
LEMMA PostStep ==
  ASSUME VInv, NEW a \in Addr, NEW c \in Channel, MsgOk(a, c)
  PROVE  Reading!Post(c)
<1> DEFINE n == Len(db.messages) + 1
           m == [user |-> connections[a], channel |-> c]
<1>1. db \in DatabaseType /\ db.messages \in Seq(Message)
  BY DEF VInv, TypeOK, DatabaseType
<1>2. m \in Message
  BY DEF MsgOk, InChannel, Authed, VInv, TypeOK, Message
<1>3. db'.messages = Append(db.messages, m) /\ db'.lastRead = db.lastRead
  BY <1>1 DEF MsgOk, AddMessage, DatabaseType
<1>4. /\ UNCHANGED <<user, connections, kicked, toldViewing>>
  BY DEF MsgOk, memory
<1> HIDE DEF m
<1>5. /\ DOMAIN db.messages = 1 .. (n - 1) /\ DOMAIN db'.messages = 1 .. n
      /\ \A i \in 1 .. (n - 1) : db'.messages[i] = db.messages[i]
      /\ db'.messages[n] = m
      /\ n \in Nat
  BY <1>1, <1>2, <1>3
<1>6. \A d \in Channel : Posted'[d] = IF d = c THEN Posted[d] \cup {n} ELSE Posted[d]
  BY <1>5 DEF Posted, MessagesIn, m
<1>7. \A d \in Channel : \A k \in Posted[d] : k < n
  BY <1>5 DEF Posted, MessagesIn
<1>8. Posted' = [Posted EXCEPT ![c] = @ \cup {n}]
  BY <1>6 DEF Posted
<1>9. n \in Posted'[c]
  BY <1>6
<1>10. UNCHANGED <<connections, Looking, Marked, toldViewing, Leaving>>
  BY <1>3, <1>4 DEF Looking, Marked, Marks, Leaving
<1> HIDE DEF n
<1> QED
  BY <1>7, <1>8, <1>9, <1>10 DEF Reading!Post

\* IDENT and REGISTER: the WELCOME names what the user looks at.
LEMMA EnterReadStep ==
  ASSUME VInv, VInv', NEW a \in Addr, NEW u \in User, Arrives(a, u)
  PROVE  Reading!Enter(a, u)
<1> DEFINE f == [connections EXCEPT ![a] = u]
<1>1. connections[a] = NoUser /\ connections \in [Addr -> User \cup {NoUser}]
  BY DEF Arrives, VInv, TypeOK
<1>2. connections' = f
  <2>1. f \in [Addr -> User \cup {NoUser}]
    BY <1>1
  <2>2. \A x \in Addr, v \in User : connections[x] = v <=> x \in user[v].connections
    BY DEF VInv, SessionTables
  <2>3. \A x \in Addr, v \in User : f[x] = v <=> x \in user'[v].connections
    BY <1>1, <2>2, NamesAssumption DEF Arrives
  <2> HIDE DEF f
  <2> QED
    BY <2>1, <2>3, SessionsFollow
<1>3. toldViewing' = [toldViewing EXCEPT ![a] = Reading!LookedAt(u)]
  <2>1. toldViewing \in [Addr -> SUBSET Channel] /\ toldViewing' \in [Addr -> SUBSET Channel]
    BY DEF VInv, TypeOK
  <2> QED
    BY <2>1, LookingFacts DEF Arrives
<1>4. Leaving' \in {Leaving, Leaving \cup {a}}
  BY <1>1, <1>2, NamesAssumption DEF Leaving, Arrives
<1>5. Looking' = Looking /\ Marked' = Marked /\ Posted' = Posted
  BY DEF Arrives, Keeps, Looking, Marked, Marks, Posted, MessagesIn
<1> QED
  BY <1>1, <1>2, <1>3, <1>4, <1>5 DEF Reading!Enter

\* A step that moves and adds no connection and no message.
LEMMA ExpelStep ==
  ASSUME VInv, VInv', Stays, db'.messages = db.messages
  PROVE  Reading!Expel
<1>1. UNCHANGED connections
  <2>1. connections \in [Addr -> User \cup {NoUser}]
    BY DEF VInv, TypeOK
  <2>2. \A x \in Addr, v \in User : connections[x] = v <=> x \in user'[v].connections
    BY DEF VInv, SessionTables, Stays
  <2> QED
    BY <2>1, <2>2, SessionsFollow
<1>2. Leaving \subseteq Leaving' /\ Leaving' \subseteq {a \in Addr : connections[a] # NoUser}
  BY <1>1 DEF Leaving, Stays, Keeps
<1>3. Looking' = Looking /\ Marked' = Marked /\ Posted' = Posted
  BY DEF Stays, Keeps, Looking, Marked, Marks, Posted, MessagesIn
<1> QED
  BY <1>1, <1>2, <1>3 DEF Reading!Expel, Stays

\* A restart forgets all sessions and keeps the tables.
LEMMA RestartReadStep ==
  ASSUME Restart
  PROVE  Reading!Restart
<1>1. /\ connections' = [a \in Addr |-> NoUser]
      /\ toldViewing' = [a \in Addr |-> {}]
      /\ db' = db
  BY DEF Restart
<1>2. Looking' = [a \in Addr |-> {}]
  BY DEF Restart, NewUser, Looking
<1>3. Leaving' = {}
  BY <1>1 DEF Leaving
<1>4. Posted' = Posted /\ Marked' = Marked
  BY <1>1 DEF Posted, Marked
<1> QED
  BY <1>1, <1>2, <1>3, <1>4 DEF Reading!Restart

\* Every step of the server is one of ReadState.
LEMMA ReadStateStep ==
  ASSUME VInv, VInv', [Next]_vars
  PROVE  Reading!Next
<1>1. ASSUME NEW a \in Addr, NEW now \in SUBSET Channel, Moves(a, now)
      PROVE  Reading!Next
  <2>1. MovesTo(a, now)
    BY <1>1 DEF Moves
  <2>2. CASE now # {} /\ kicked'[a] # "No" /\ DbMayFail /\ UNCHANGED <<db, toldViewing>>
    BY <2>1, <2>2, FailedLookStep DEF Reading!Next
  <2>3. ASSUME NEW done \in SUBSET Channel, TellsAndMarks(a, now, done)
        PROVE  Reading!Next
    BY <2>1, <2>3, MoveStep DEF Reading!Next
  <2> QED
    BY <1>1, <2>2, <2>3 DEF Moves
<1>2. ASSUME NEW a \in Addr, NEW u \in User, Arrives(a, u)
      PROVE  Reading!Next
  BY <1>2, EnterReadStep DEF Reading!Next
<1>3. CASE Stays
  BY <1>3, ExpelStep, PostStep, MessagesFollow DEF Reading!Next
<1>4. CASE Restart
  BY <1>4, RestartReadStep DEF Reading!Next
<1> QED
  BY <1>1, <1>2, <1>3, <1>4, ViewingCases

-----------------------------------------------------------------------------
(* The theorems                                                            *)

\* active_channels is in order between any two messages: no connection views
\* two channels, and only channels of the user that exist are viewed, whatever
\* statement fails.
THEOREM ViewersAreConsistent == Spec => []ViewersConsistent
<1>1. Init => ViewersConsistent
  BY DEF Init, ViewersConsistent, NewUser
<1>2. TypeOK /\ SessionTables /\ MemoryMirrorsDatabase /\ ViewersConsistent /\ [Next]_vars
        => ViewersConsistent'
  BY ViewersConsistentStep DEF VInv
<1> QED
  BY <1>1, <1>2, TypeCorrect, SessionsConsistent, MirrorCorrect, PTL DEF Spec

\* What the lemmas on steps assume always holds.
LEMMA VInvHolds == Spec => []VInv
  BY TypeCorrect, SessionsConsistent, MirrorCorrect, ViewersAreConsistent, PTL DEF VInv

\* No connection misses that its user views a channel, the ones that identified
\* after the VIEWING included.
THEOREM ViewersAreAnnounced == Spec => []ViewersAnnounced
<1>1. Init => ViewersAnnounced
  <2>1. Init => \A u \in User, c \in Channel : user[u].viewers[c] = {}
    BY DEF Init, NewUser
  <2> QED
    BY <2>1 DEF ViewersAnnounced
<1>2. VInv /\ ViewersAnnounced /\ [Next]_vars => ViewersAnnounced'
  BY ViewersAnnouncedStep
<1> QED
  BY <1>1, <1>2, VInvHolds, PTL DEF Spec

\* A channel is viewed and marked as read only while a failed VIEWING is on its
\* way out.
THEOREM OnlyTheKickedLeaveMarks == Spec => []MarkedViewersAreKicked
<1>1. Init => MarkedViewersAreKicked
  <2>1. Init => \A u \in User, c \in Channel : user[u].viewers[c] = {}
    BY DEF Init, NewUser
  <2> QED
    BY <2>1 DEF MarkedViewersAreKicked
<1>2. VInv /\ MarkedViewersAreKicked /\ [Next]_vars => MarkedViewersAreKicked'
  BY MarkedViewersStep
<1> QED
  BY <1>1, <1>2, VInvHolds, PTL DEF Spec

\* A user has one read mark per channel at most, and none on a channel it views,
\* as long as no statement fails by itself.
THEOREM ReadMarksAreUnique == Spec => []ReadMarks
<1>1. Init => ReadMarks
  BY DEF Init, ReadMarks, NewUser, EmptyDatabase, Marks
<1>2. VInv /\ ReadMarks /\ [Next]_vars => ReadMarks'
  BY ReadMarksStep
<1> QED
  BY <1>1, <1>2, VInvHolds, PTL DEF Spec

\* The last viewer to leave a channel leaves the mark on its newest message,
\* and the other connections hear that nobody views it.
THEOREM LeavingIsMarked == Spec => LeavingMarksRead
<1>1. VInv /\ [Next]_vars =>
        (~DbMayFail /\ ~Restart =>
           \A u \in User, c \in Channel :
             (/\ user[u].viewers[c] # {} /\ user'[u].viewers[c] = {}
              /\ MessagesIn(db, c) # {})
             => /\ MarkOf(db, u, c) \in db'.lastRead
                /\ \A a \in user'[u].connections : c \notin toldViewing'[a])
  BY LeavingMarksReadStep
<1> QED
  BY <1>1, VInvHolds, PTL DEF Spec, LeavingMarksRead

\* The server keeps its promise on reading: every step, of a command, a
\* disconnect, a failed statement or a restart, is a step of ReadState, which
\* knows of no tables and of no stop between two statements but the ones it
\* names.
THEOREM ServerImplementsReadState == Spec => ReadStateImplemented
<1>1. Init => Reading!Init
  BY DEF Init, NewUser, EmptyDatabase, Looking, Posted, Marked, Marks, Leaving, MessagesIn,
         Reading!Init
<1>2. VInv /\ VInv' /\ [Next]_vars => [Reading!Next]_(Reading!vars)
  BY ReadStateStep
<1> QED
  BY <1>1, <1>2, VInvHolds, PTL DEF Spec, ReadStateImplemented, Reading!Spec
=============================================================================
