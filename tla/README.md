# A TLA+ development of chatserver-rs

chatserver-rs is a chat server: clients connect over TLS WebSockets, identify
as a registered user, join channels, send messages and say which channel they
are looking at. This directory models the server in TLA+, checks small
instances with TLC, and proves the main safety properties with TLAPS.

## 1. The system

| Component | Source | State | Operations |
|---|---|---|---|
| Manager loop | `server/manager.rs` | `all_connections` | one message at a time: NewConnection, NewData, Disconnected, CheckUnauthUsers (30 s timer), GotAttachment, ShutdownStatus |
| Chat server | `server/chat_server.rs` | `users`, `channels`, `unauth_connections`, `connections` | add / remove connections, status updates, NOVIEWERS notifications |
| Command handlers | `commands/*.rs` | none of their own | IDENT, REGISTER, JOIN, MSG, HISTORY, VIEWING, NOTVIEWING |
| User model | `models/user.rs` | `connections`, `active_channels`, `status` | add / remove a connection, set / clear viewing |
| Channel model | `models/channel.rs` | members | broadcast, serialize |
| Message model | `models/message.rs` | a message with its attachments | built from the rows of a query, serialize |
| Database | `db/sqlite.rs`, `table_initialization.sql` | six tables | one statement per operation, no transactions |
| Client task | `server/client_connection.rs` | a queue of 32 from the manager, a WebSocket | forwards text to the manager, answers to the socket |
| Attachment manager | `server/attachments.rs` | two queues of 32 | HEAD request per link, result back to the manager |
| Listener, shutdown | `server/mod.rs`, `signal_handler.rs`, started by `main.rs` | task list, watch channel | accept, TLS and WebSocket handshake, join all tasks |
| Configuration | `config_parser.rs` | none | reads a JSON file once |

How they interact. Each client task sends to the manager over one bounded mpsc
queue (32) shared by all clients, and the manager answers over one bounded
queue (32) per client. The manager owns the ChatServer, so commands never run
concurrently, but every `send(..).await` in a handler may wait for room in the
queue of a client. MSG hands links to the attachment manager over a bounded
queue, and results come back over another one that only the manager empties. A
signal sets a watch channel that every task polls.

What is hard: a user has several connections that identify, view channels and
disconnect in any order, and three records of it (memory, database, what
clients were told) must agree; a handler runs several database statements with
no transaction; the process may be killed anywhere; bounded queues form cycles;
tasks end on errors without telling the manager; a write, a handshake and a HEAD
request wait for somebody outside without a timeout. `PROJECT.json` lists each of
these hazards at its line.

For each component, what makes it correct:

- presence: a user is Online exactly while it has a connection, and nobody is
  left with an old status of somebody else;
- viewing: `active_channels`, what the connections were told and the read marks
  in the database agree at every moment;
- persistence: memory is what a restart would read back, and nothing that was
  acknowledged is lost;
- client tasks: no command of a client the manager has forgotten, every task
  that leaves is forgotten, everything ends after a signal;
- attachments: no two tasks wait for each other, results are stored in order;
- history: what clients show is stored, and what they read back has no gap;
- the process: after a signal everything it started ends, and it returns last.

## 2. Modules

```
ChatTypes -- Database ---+             +- MCChatServer
        \--- UserModel --+- ChatServer -+- ChatServerPresence ==> Presence
                         |             +- ChatServerReads    ==> ReadState
                         |             +- ChatServerProofs - ViewingProofs
                         +- DataProofs            \-- PresenceProofs
History -- HistoryProofs
   ^==== AttachmentHistory -- AttachmentPipelineProofs --+
                |                                        |
       AttachmentPipeline --+-- Server ------------------+-- ServerProofs
       Connection ----------+                            |
                \-- ConnectionProofs --------------------+
```

| Module | Code | What it is |
|---|---|---|
| `ChatTypes` | | the constants `Addr`, `User`, `Channel` |
| `Database` | `db/sqlite.rs`, `table_initialization.sql` | a database is a record `d`; `XOk(d, ..)` says whether the constraints let statement X run, `X(d, ..)` is the database after it |
| `UserModel` | `models/user.rs` | a `User` is a record `r`; every method that changes it is an operator |
| `ChatServer` | `server/chat_server.rs`, `commands/*.rs`, the handlers of `server/manager.rs` | the state machine: one action per message of the manager, one disjunct per way a command ends |
| `Presence` | | the abstract specification: sessions, memberships, and what clients are shown of the status of others |
| `ChatServerPresence` | | the refinement mapping from `ChatServer` to `Presence` |
| `ReadState` | | the abstract specification: which channel a session looks at, what its user has marked as read, and which channels clients are shown as viewed |
| `ChatServerReads` | | the refinement mapping from `ChatServer` to `ReadState` |
| `History` | `commands/msg.rs`, `commands/history.rs`, the tables `messages` and `message_attachments` | one channel: what is stored, what `get_channel_history` returns, and what connections were told |
| `Connection` | `server/client_connection.rs`, the queues of `server/manager.rs` | the client tasks, the manager task and the bounded queues between them |
| `AttachmentPipeline` | `server/attachments.rs`, the links of `commands/msg.rs` | the manager, the attachment manager and the two bounded queues between them |
| `AttachmentHistory` | | the refinement mapping from `AttachmentPipeline` to the links of `History` |
| `Server` | `server/mod.rs`, `signal_handler.rs`, `server/manager.rs` | the listener, and `Connection` and `AttachmentPipeline` composed: their two managers are one task |

State. In `ChatServer`, `users`/`user`, `channels`/`members`, `unauth` and
`connections` are the four maps of the `ChatServer` struct (the key set, and
the values where they matter), `allConnections` the map of the manager, and `db`
the database. `kicked`, `toldStatus` and `toldViewing` record what each address
was last told; they stand for the part of its queue that matters to presence and
viewing. The manager awaits each handler before it polls again, so a handler is
one action: every change it makes to memory, to the database and to what clients
were told. Its ways to end are separate disjuncts: `...Refused` (an early
return), `...Fails` (an error of the database), `...Ok`. Where a handler has
changed something before it fails, the disjunct says so: `RegisterTooLate`,
`JoinMemberFails`, `ViewingFails`, and `DoneChoice`, the channels whose read mark
was stored before one could not be. `Restart` starts a new process on the same
file; together with the failing second statements it covers a process killed
between two statements of a handler, as both leave the same rows.

`Presence` knows no tables and no messages. `session` is implemented by
`connections`, `member` by `members`, `shown` by `toldStatus`. Its `Shows` gives
every client the status a user has after the step, so a client that is left with
an old one, or that hears of a user it has nothing to do with, is a step the
abstract specification does not allow.

`ReadState` is the same for reading. `looking` is the channel a connection is a
viewer of, `marks` the rows of `user_last_read_messages`, `shown` is
`toldViewing`, `leaving` the sessions that have been told to go, `posted` the ids
of the messages of a channel. A session looks at one channel; when the last
session that looks at a channel turns away (`Look` at another one, `LookAway`,
`Leave`), the newest message is marked and all sessions of the user are shown that
nobody looks any more, in one step. What `ChatServer` does in several statements
and over every channel a HashMap may hold comes out as this: at most one channel
is left by a step, so its mark is stored or not, and not half. `ReadState` names
the two ways in which the promise is not kept: the old mark cannot be deleted
(`Look` with nothing shown and no mark gone), or the new one cannot be stored
(`Stored`), and in both the session is told to go.

In `History` a pair `<<i, k>>` is the k-th attachment of message i, and
`<<i, 0>>` the message itself, or its row in the LEFT JOIN when it has no
attachment. `Recent` gives every result the query may have: rows of the same
second come in any order, and LIMIT cuts where it falls. `told` is what a client
shows: broadcasts add to it, and a message in a HISTORY reply replaces what was
shown of it. `links` is what the tasks between MSG and ADDATTACHMENT do with a link,
seen from outside: the first one is stored, or any one is lost
(`NoAttachment`), which need not be the first, as the results of earlier links may
still be in the queue when a HEAD request finds no image.

`AttachmentHistory` shows that they do no more than that (`AnswersImplemented` asks
for steps of `Runs`, the steps of `History` but `Restart`). `UnderWay` is the queue of
results, the link in hand, the queue of links and the links still to be sent, one
after the other, each as the number of its message: `links` of `History`. `Rows`
counts the rows of `message_attachments` for each message. The clients of
`History` are left out by the mapping: what they are told is a matter of `History`
alone.

In `Connection`, a task is New (handshake), Running (its loop polls), Writing (a
text or a Pong), Closing (it says Disconnected for a Close frame, then answers it),
Parting (it writes a Close frame of its own, for a Disconnect or a shutdown, and
then says Disconnected), Leaving (its last Disconnected is being sent) or Ended. A
write has no timeout (`client_connection.rs:131` and its like), so that it is a state
and not a step: the task leaves it when the peer has read enough (`WriteEnds`) or is
found lost or closed (`WriteFails`, the `?` that ends the task without a word), and
polls nothing meanwhile, its own queue included. The peer of a client is there
(`socket` is Open), has sent a Close frame (Closed) or is lost without one (Gone). A
full queue makes the sender wait where it is: `inbox` holds the queue of the manager followed by the messages whose
senders wait for room, which tokio serves in that order, and a task with such a
message is `Blocked`. `sends` is what is left of the responses of the handler
that is running; `Delivers` waits for room in the queue of the client, and drops
the response if its task has ended. The two `poll_next` functions poll their
streams in a fixed order, which is not kept: tokio makes a queue look empty to a
task that has taken its share of messages, and the shutdown status and the
frames the socket has buffered do not count for that share. So whatever is ready
may be taken, the streams polled last included.

In `AttachmentPipeline`, `pending` is what is left of the loop over the links of
a MSG, `inHand` the link whose HEAD request runs or whose result waits for
room. `workload` is the most links a behaviour has under way; it is chosen at the
start and never changes, so that one run covers light and heavy workloads.

`Server` instantiates both with their own variables and shares `manager` and
`shutdown`; `Conn!X /\ Pipe!Y` is one step of the one manager task. Its loop polls
only when it has nothing left to send to clients and no link left to send:
`Pipe!Polling` and `Conn`'s empty `sends` are conjoined. `Commands` starts with
the broadcast of the MSG and then sends the links, `Announces` stores the result
and broadcasts ADDATTACHMENT. `listener` is the loop of `server::start`, `spawned`
what became of each accepted socket.

Operators marked MUTANT are wrong versions of the definition after them, kept to
check that the properties notice: each property of a passing run is violated when
the definition is replaced by its mutant (`mutants` in `PROJECT.json`).

### Abstractions and assumptions

- A row of `users` or `channels` is its unique name, which stands for its id; the
  id of a message is its position. Passwords are a Boolean: the hash matches or
  not. Texts are left out, and times but in `History`.
- `to_lowercase` is a function on names (`LowerUser`, `LowerChannel`),
  USERNAME_PATTERN and the test for `#` are sets of names.
- sqlx turns on foreign keys, so the constraints of the tables are enforced.
- A new connection never has the address of one the manager still tracks.
- Iteration over a HashMap, and which of several channels comes first, is any.
- `toldStatus` is what was put in a queue. That a tokio queue keeps its order is an
  assumption, here and in `Connection`, where every queue is a sequence.
- In `Connection` a handler writes any texts to clients it knows, up to
  `MaxTexts`; whom a command really writes to is the subject of `ChatServer`.
- The web server, the peers and the signal are the environment. A write to a
  socket, a handshake and a HEAD request may take for ever; that they do not is
  assumed by the liveness properties alone (see Fairness).

## 3. What is checked

| Run | Module | What it shows |
|---|---|---|
| `presence` | MCChatServer | with two users over three connections: the tables of connections agree (`SessionTables`), Online means connected (`OnlineIffConnected`), every status a client was told is the current one (`KnownStatusIsCurrent`), and the server implements `Presence` (`PresenceImplemented`) |
| `viewing` | MCChatServer | with one user on two connections and two channels: types, `active_channels` (`ViewersConsistent`), what connections were told of it (`ViewersAnnounced`), read marks (`ReadMarks`), and the mark and notice when the last viewer leaves (`LeavingMarksRead`); and the server implements `ReadState` (`ReadStateImplemented`) |
| `faults` | MCChatServer | with statements that fail and restarts at any time: `MemoryMirrorsDatabase`, `AcknowledgedSurvives`, and a viewed channel keeps its read mark only while its viewers are on their way out (`MarkedViewersAreKicked`) |
| `history` | History | with attachments that arrive late, clocks that are set back and a LIMIT that cuts messages: clients are told only what is stored (`ToldIsStored`), and miss nothing newer than what a HISTORY reply shows (`NothingNewerMissing`) |
| `connections` | Connection | with peers that read late, say Close or are lost, and a signal at any time: types, no command of a forgotten client (`CommandsOfKnownClients`, where `all_connections[&addr]` would panic), nothing but a second Disconnected after a client is forgotten (`ForgottenForGood`), only clients lost without a Close are never forgotten, so that whoever says Close is, even if the answer cannot be written (`OnlyLostPeersLeak`); and in the behaviours where the queue of the manager never fills (`RoomForAll`), every task that leaves its loop is forgotten (`LeavingIsReported`) and a signal ends everything (`AllStop`) |
| `attachments` | AttachmentHistory | with every workload from none to one link more than is safe: no circular wait, over the queues (`LinksNotStuck`) or over the shutdown (`JoinNotStuck`), which together are `NoCircularWait`; results are delivered (`ResultsGoBack`), a signal ends both tasks (`ShutdownCompletes`), attachments in order and at most once (`AttachmentsInOrder`), types; and the two tasks implement what `History` takes for granted of links (`AnswersImplemented`) |
| `server` | Server | all tasks together: after a signal the process returns (`ServerReturns`), after everything it started (`ReturnsLast`); when no task can move, the server is in one of three circular waits, held up by a web server that does not answer or a peer that does not read or finish its handshake, at rest or returned (`OnlyKnownWaits`); after a signal under any load nothing but a circular wait keeps it from returning (`ReturnsOrCircles`); the server implements `Connection` and `AttachmentPipeline` (`StepsImplemented`) with the fairness they assume (`FairnessImplemented`); types |
| `orphan_registration` | MCChatServer | violated: REGISTER on an identified connection inserts the row and is then refused, so the name is taken by nobody until a restart |
| `internal_error` | MCChatServer | violated: JOIN of a channel the user is in, and leaving a channel without messages, are answered with "Internal server error" |
| `attachment_cycle` | AttachmentPipeline | violated: one more link than the bound of `LinksNotStuck` (66 in the code) and the manager and the attachment manager wait for each other for ever, and every client with them (`ResultsAlwaysGoBack`) |
| `attachment_join` | AttachmentPipeline | violated: one more link than the bound of `JoinNotStuck` (33 in the code) and a server told to stop never does (`ShutdownAlwaysCompletes`) |
| `client_cycle` | Connection | violated: the manager waits for room in the queue of a client, whose task waits for room in the queue of the manager (`ManagerReachesClients`) |

That `Server` implements its two components has two parts. The steps of the
server are steps of the components, always (`StepsImplemented`). That the manager
serves one component as fairly as that component assumes is a claim on the other
one: it holds under a light load (`LightLoad`: nobody waits for the queue of the
manager, and the results under way fit in theirs), and the violated runs show
that it fails without (`FairnessImplemented`).

The violated runs show that the server can stand still; `OnlyKnownWaits` lists the
ways. It names the states in which no task can take a step without its
environment, which is the answer to a HEAD request and the peers of the clients:

- three circular waits: the manager waits for a client that waits for the manager
  (`ClientCycle`), the manager and the attachment manager wait for each other over
  the links (`LinkCycle`) or over the shutdown (`JoinCycle`);
- three waits for somebody outside, none of which has a timeout: the manager waits
  for the answer to a HEAD request, for room in the queue of links or for the
  attachment manager to end (`AnswerWait`); the manager waits for room in the queue of
  a client whose peer does not read, so that one such peer holds up everybody
  (`WriteWait`); or `join_all` has nothing left but handshakes and clients that wait
  for their peers to read (`JoinAllWait`);
- `server::start` has returned, or nothing is under way but links that wait for the
  answer to a HEAD request and what is written to peers that do not read it
  (`AtRest`).

In particular no wait leads through three tasks, no task is left behind by one
that has ended, and a listener that waits in `join_all` waits for a task that can
move, or for one of the waits above. `ManagerMoves`, `TaskMoves` and the others spell
out when a fair action of the task is enabled, for the provers, which have no ENABLED.

The other side of the list is `ReturnsOrCircles`: if web servers answer, handshakes
end and writes end or fail, a signal at any moment and under any load within the
bounds makes `server::start` return, unless the server is, or gets, into one of the
three circles. It needs no `LightLoad` and none of the predicates above but the
circles: a state after a signal that is stuck and not in the list would violate it.
With `CircularWaitsLast` (section 4) it says exactly when a shutdown works.

### Bounds

- `presence`: three connections are one more than a user needs to come online,
  stay online when one of two goes, and go offline, and leave one to the other
  user, who is told; the third name is one USERNAME_PATTERN refuses, and one
  name arrives with a capital letter. One message is enough to tell a status.
- `viewing`: two connections of one user and two channels are the least that
  moving from one channel to another while somebody stays needs; two messages
  give a channel that has one and one that has not, or an older and a newer mark.
  No statement fails by itself there, but storing a mark on a channel without
  messages does, so both outcomes of `Stored` occur. Failing statements are left
  to the proof of `ServerImplementsReadState`, which assumes nothing about them.
- `faults`: as `presence`, with two connections: the hazards are of statements,
  not of connections.
- `history`: one connection, as connections of a channel do not read each other's
  state. Limit 3 with four messages of up to two links each: a reply may drop
  messages, or cut the attachments of its last one; two seconds give equal,
  growing and falling times.
- `connections`: a queue of the manager of 2 and clients' queues of 1 with two
  clients: the behaviours where nobody waits (`RoomForAll`) and those where one
  does are both there, a task with an unread response and one without.
  `MaxEvents` bounds the frames read and what the manager says of its own; after
  them only closing, losing and stopping is left.
- `client_cycle`: capacities of 1 make every queue fill at once. The properties
  do not mention the capacities but through waiting, which happens at 1 as at 32.
- `attachments`, `attachment_cycle`, `attachment_join`: both queues hold two and
  workloads go to 6. The bounds of `NoCircularWait` are exact: `UrlCap + AttCap + 1`
  links between their MSG and their ADDATTACHMENT for the wait over the queues, 65
  in the code, and `AttCap`, 32 in the code, for the one over the shutdown. Several
  small messages count like one large one.
- `server`: one client with two links and queues of one or two. `Unreserved`
  keeps room in `MaxEvents` for the ADDATTACHMENTs of links under way, so the
  bound never stops the manager in the middle of its work. What two clients do to
  each other is the subject of `connections`. `ClientCycle`, `JoinCycle`, `WriteWait`,
  `JoinAllWait`, `AnswerWait` over the shutdown, `AtRest` and the return occur within
  these bounds. `LinkCycle` needs four links and an `AnswerWait` for room in the queue
  of links three, which take too long with the liveness properties; `attachment_cycle`
  reaches the first, and the proof of `OnlyKnownWaits` covers both for any number.

### Fairness

Weak fairness is assumed of the manager, of the attachment manager, of the
listener and of each client task: tokio polls a task that was woken. Of a client
task that are the steps that need nothing from the peer (`TaskRuns`); reading a frame,
losing the peer and connecting are not fair. Of the manager the timer and, in
`Connection`, the arrival of attachments (`Speaks`) are not fair. That a HEAD
request is answered at last, that a handshake ends and that a write to a socket ends
or fails (`WriteSettles`) are assumptions on the network and the peers: without them
`ShutdownCompletes`, `LeavingIsReported`, `AllStop`, `ServerReturns` and
`ReturnsOrCircles` do not hold, as none of the three has a timeout or is raced
against the shutdown. `OnlyKnownWaits`, an invariant, assumes nothing of them. Signals, accepted sockets
and clients' commands are never fair. `ChatServer` and `History` have no liveness
properties: a handler always ends there.

Deadlock is checked in `ChatServer` and `History`; in the other modules the system
stops after a shutdown, or when the bounds are used up.

## 4. What is proved

The proofs hold for every value of the constants that satisfies the named
assumptions (`NamesAssumption`, `BoundsAssumption`, `CapacityAssumption`,
`QueueAssumption`, `ServerAssumption`, `HistoryAssumption`): any number of
addresses, users, channels and messages, failing statements or not, any
capacities, workload and LIMIT. Every invariant and every action property of the
passing runs is proved.

`ChatServerProofs`, over the lemmas of `DataProofs` on the operators of `UserModel`
and `Database`.
`StepCases` first reduces the steps of `Next` to those that change something; a
command that is refused, or fails before it has changed anything, is a `Reject`.

| Theorem | States | Argument |
|---|---|---|
| `TypeCorrect` | `TypeOK` | inductive |
| `SessionsConsistent` | `SessionTables` | inductive with `TypeOK`; VIEWING, NOTVIEWING and a disconnect are first summed up by what they do to `connections` (`ViewingEffect`, `DisconnectedUserEffect`) |
| `PresenceCorrect` | `OnlineIffConnected` | inductive with `TypeOK` and `SessionTables`: a disconnect must find the address among the connections of its user |
| `MirrorCorrect` | `MemoryMirrorsDatabase` | inductive with `TypeOK`; `WithChannel` relates the two halves of a JOIN |
| `NothingAcknowledgedIsLost` | `AcknowledgedSurvives` | from `MemoryMirrorsDatabase`: a restart reads back what the mirror holds |
| `NoStaleStatus` | `KnownStatusIsCurrent` | inductive with all of the above and the fact that the author of a message is a member of its channel, without which HISTORY could tell the status of a stranger, and nobody would tell its changes |

`ViewingProofs`. `VInv` joins the types, the tables and the mirror of
`ChatServerProofs` with `ViewersConsistent`, which alone is not inductive.
`ViewingCases` sums up the steps of `Next`: a connection moves to a set of
channels (`Moves`: VIEWING, NOTVIEWING and a disconnect, with what is told and
which marks are stored before one fails), or one arrives (`Arrives`), or nothing
that matters here changes (`Keeps`), or the server restarts.

| Theorem | States | Argument |
|---|---|---|
| `ViewersAreConsistent` | `ViewersConsistent` | a connection views one channel at most, so `clear_viewing`, which finds one, leaves none behind |
| `ViewersAreAnnounced` | `ViewersAnnounced` | a move tells HASVIEWERS to every connection of the user, and WELCOME tells an arriving one what is viewed |
| `OnlyTheKickedLeaveMarks` | `MarkedViewersAreKicked` | a move clears the mark of the channel it enters, or fails and kicks the connection |
| `ReadMarksAreUnique` | `ReadMarks` | a mark is stored only when the last viewer leaves, and entering the channel cleared the one before (`MarksAfterMove`) |
| `LeavingIsMarked` | `LeavingMarksRead` | a channel goes from viewed to not viewed only by a move that stores the mark and says NOVIEWERS (`GoneIsDone`) |
| `ServerImplementsReadState` | `ReadStateImplemented` | step simulation over `ViewingCases`: a move is `Look`, `LookAway` or `Leave`, an arrival `Enter`, and of the rest only MSG changes what there is to read. `VInv` holds before and after a step, which gives `connections`; as `ViewersConsistent` leaves one channel at most to be marked (`MovedStored`), the loop of `send_no_viewer_notifications` is all or nothing |

`PresenceProofs`:

| Theorem | States | Argument |
|---|---|---|
| `ServerImplementsPresence` | `PresenceImplemented` | step simulation: each command of `ChatServer` is matched with one action of `Presence`. That the audience of a status computed from `users`, `channels` and the connection sets is the one `Presence` asks for needs `SessionTables`, `MemoryMirrorsDatabase`, `OnlineIffConnected` and `KnownStatusIsCurrent` |

`HistoryProofs`:

| Theorem | States | Argument |
|---|---|---|
| `HistoryTypes` | `TypeOK` | from `Types`, in which the domains do not depend on the tables, and `ToldIsStored` |
| `OnlyStoredIsTold` | `ToldIsStored` | inductive with the types: rows are never deleted, and are stored before they are told |
| `HistoryHasNoGap` | `NothingNewerMissing` | inductive with `ToldIsStored`. If a message is newer than one row of the reply, all rows of its join are in the reply (`Recent`), and with them the message; what is stored later is told to everybody inside, and finds its message told already |

`AttachmentPipelineProofs`:

| Theorem | States | Argument |
|---|---|---|
| `PipelineTypes` | `TypeOK`, the capacities included | inductive |
| `NoDeadlock` | `NoCircularWait` | `WorkloadBounded`: no step raises the links under way above `workload`; a circular wait over the queues needs one link more than the bound of `LinksNotStuck`, and one over the shutdown one more than the queue of results holds |
| `ShutdownIsShort` | after the manager has left its loop, at most `3 * UrlCap + 4` steps of the two tasks are left | the variant `Rest` counts them: three for a queued link, and what each task has to do itself; every step lowers it. `Leaving`: no MSG and no link comes after the loop, and the signal has been given |
| `AttachedInOrder` | `AttachmentsInOrder` | `PipelineOrdered`: the rows stored, the results, the link in hand, the links queued and the links to be sent are one sequence in order, in this order |
| `PipelineImplementsAnswers` | `AnswersImplemented` | step simulation. `UnderWayMoves`: a step keeps `UnderWay`, appends the links of a MSG, takes its head or loses one element, wherever it is (`LinkPassed`, `LinkTaken`, `ResultPassed`, `LinkLost`, `HandLost`, `FirstLost`); `PipelineOrdered` gives that the message of a result is stored, so that its row is there to be counted up (`RowOfAttachment`) |

`ConnectionProofs`:

| Theorem | States | Argument |
|---|---|---|
| `ConnectionTypes` | `TypeOK`, the capacities of the clients' queues included | inductive |
| `NoStrangers` | `CommandsOfKnownClients` | `Orderly`: what one client has under way is NewConnection, then NewData, then Disconnected; the first only before the manager knows the client, and a task that can still read a text has sent no Disconnected |
| `OnlyLostStay` | `OnlyLostPeersLeak` | the conjunct `LeavingTold` of `Orderly`: a client the manager knows, or is going to, and whose peer is not lost is in its loop with an open socket or about to say Disconnected, or its Disconnected is under way. That of a Close frame is sent before the answer is written |
| `ForgottenIsSilent` | `ForgottenForGood` | the first message of the forgotten client is a Disconnected, so by `Orderly` nothing else of it follows |

`CommandsOfKnownClients` is not inductive: it looks at the first message only,
and what is behind it decides what comes first next.

`ServerProofs`:

| Theorem | States | Argument |
|---|---|---|
| `ServerImplementsSteps` | `StepsImplemented` | step simulation: what a step of `Server` does to the variables of `Connection` is a step of `Connection` or nothing, and likewise for `AttachmentPipeline` |
| `StartReturnsLast` | `ReturnsLast` | the invariant `Returning`: a stopped manager has waited for the attachment task, a joining listener starts nothing, and a task that is over stays over |
| `ServerKeepsClients` | `CommandsOfKnownClients`, `OnlyLostPeersLeak`, `ForgottenForGood` of the whole server | the lemmas of `ConnectionProofs`, instantiated, and the step simulation |
| `ServerKeepsLinks` | `NoCircularWait`, `AttachmentsInOrder` of the whole server | the lemmas of `AttachmentPipelineProofs`, likewise |
| `ServerImplementsAnswers` | `AnswersImplemented` of the whole server | its step simulation, applied to the steps of `Server` |
| `ServerShutdownIsShort` | `ShutdownIsShort` of the whole server | the variant `Rest`, likewise, with clients and the listener at work |
| `ServerTypes` | `TypeOK` of `Server` | from the same lemmas, and the two variables of the listener |
| `ServerWaits` | `OnlyKnownWaits` | the state is taken apart task by task: why the attachment manager does not move (`WaitsOfAttachments`), why a client does not (`WaitsOfClient`), and what is then left for the manager and the listener (`WaitsKnown`). This needs `Waiting` (nobody stops before the signal, a manager that has left its loop owes nobody anything, an accepted client is not New) and `Reached` of `ConnectionProofs` (a response goes to a client that has started; a client that has not, or has ended, has an empty queue) |
| `LightServerNeverStuck` | a server under the conditions of `LightLoad` that cannot move has returned, is at rest, or is in one of the waits for somebody outside (`AnswerWait`, `WriteWait`, `JoinAllWait`) | from `ServerWaits`: each of the three circular waits contradicts one of the conditions, `JoinCycle` by `JoinNotStuck` and `LinkCycle` by `LinksNotStuck` |
| `CircularWaitsLast` | `ClientCycle`, `LinkCycle` and `JoinCycle` are for ever, and `server::start` does not return from them | each is kept by every step of the component it is in. `ClientCycle` needs `Reached` and `Waiting` (the manager is in its loop, the client has started and not ended), and that a message which waits for room goes on waiting while the manager takes none (`StaysBlocked`) |
| `OnlyThePeerEndsWriteWait` | the manager leaves a `WriteWait` only by a step in which the peer of that client reads or is found lost: no timer, no signal and no other client ends it | the task that writes does nothing else (`StaysWriting`), so its queue stays full; the manager, which has something to send, takes no other step (`WriteWaitLasts`) |

Only model-checked: liveness under fairness (`LeavingIsReported`, `AllStop`,
`ResultsGoBack`, `ShutdownCompletes`, `ServerReturns`, `ReturnsOrCircles`,
`FairnessImplemented`). It needs ENABLED, which is out of the prover's reach.

Together the theorems on `Server` are the part of liveness that can be proved: the
server gets stuck in the known states only (`ServerWaits`), under a light load in
none that is circular (`LightServerNeverStuck`), in a circular one for ever
(`CircularWaitsLast`), behind a peer that does not read for as long as it does not
(`OnlyThePeerEndsWriteWait`), and a shutdown of the manager and the attachment manager
cannot go on for ever without getting stuck (`ServerShutdownIsShort`). There is no
such count for the client tasks: a peer may send frames as long as it likes.

## 5. What is not modelled

- Configuration (`config_parser.rs`) and `main.rs`: arguments and configuration are
  read once, before anything starts, and `main` waits for `server::start` and the
  signal task. A process that cannot read its configuration or its certificate or
  bind its port never starts.
- JSON, TLS and WebSocket framing, password hashing, logging and texts: input and
  output without state of their own.
- The read mark that HISTORY copies into its reply (`get_last_message_read`):
  nothing else depends on it. `ReadMarks` says which mark there is.
- `ChatServer` and `Server` are not composed. The handlers of `ChatServer` are
  atomic: the manager awaits each of them before it polls again. What a
  handler waits for while it writes to clients is in `Connection`, where it
  writes any texts to any clients it knows.
- A shutdown does not call `remove_connection`, so the marks of the channels that
  are being viewed are not stored. Nothing in the repository says they should be,
  and `LeavingMarksRead` excludes restarts.
- A stream of commands that never ends, under which the manager sees the signal
  only when tokio makes it yield: the frames of clients are bounded.
- An error of `accept()`, which panics the listener and ends the process, and the
  vector of task handles, which grows with every connection.
- A Pong or a Binary frame ends the stream of a client (`client_connection.rs:53`)
  though the loop is said to run "as long as the websocket is still connected";
  the model does what the code does (`ReadsOther`).

## 6. Plan

Done: the components and their proofs; `Presence` and `ReadState` and their
refinements; `History`, and that the attachment manager does what it takes for
granted; `Server`, which composes the client tasks, the attachment manager and the
listener; the proofs about viewing and read marks; where the server can get stuck,
and that it stays there.

Left: `Connection` with the responses named by what they tell, so that `toldStatus`
and `toldViewing` of `ChatServer` become what its queues deliver.
