------------------------------ MODULE Connection ------------------------------
(***************************************************************************)
(* The client tasks of client_connection.rs, the manager task, and the     *)
(* bounded queues between them.                                            *)
(*                                                                         *)
(* All clients send to one queue of the manager; the manager sends to one  *)
(* queue per client.  A sender waits for room.  tokio gives room to the    *)
(* senders in the order they asked for it, so the queue of the manager and *)
(* the senders that wait for it are one sequence: what stands behind       *)
(* position ManagerCap is still being sent, and its sender is blocked.     *)
(*                                                                         *)
(* Whom a command makes the manager write to is the subject of ChatServer: *)
(* here a handler writes any few texts to clients it knows.  A client      *)
(* connects once, from an address of its own.                              *)
(*                                                                         *)
(* A task polls its streams in a fixed order, but a stream polled earlier  *)
(* may look empty although it is not: tokio lets a task take a limited     *)
(* number of messages before it has to yield, and the shutdown status and  *)
(* what the socket has buffered do not count.  So any stream that is ready *)
(* may be the one taken.                                                   *)
(*                                                                         *)
(* A write to a socket has no timeout: it is a state of its own, which the *)
(* task leaves when the peer has made room for what is written, or when    *)
(* its loss is noticed.  Meanwhile the task polls nothing, its own queue   *)
(* included.                                                               *)
(***************************************************************************)
EXTENDS Naturals, Sequences, FiniteSets

CONSTANTS Client,      \* client connections, named by their address
          ManagerCap,  \* capacity of the queue of the manager, 32 in the code
          ClientCap,   \* capacity of the queue of a client, 32 in the code
          MaxTexts,    \* bound on the texts one handler writes
          MaxEvents    \* bound on the events of a behaviour, see events

ASSUME QueueAssumption ==
  /\ ManagerCap \in Nat \ {0} /\ ClientCap \in Nat \ {0}
  /\ MaxTexts \in Nat /\ MaxEvents \in Nat

VARIABLES
  task,      \* the task of each client
  socket,    \* whether its peer is still there, has sent a Close frame, or is lost
  queue,     \* the queue of each client
  inbox,     \* the queue of the manager and the messages waiting for it
  manager,   \* the manager task
  known,     \* keys of all_connections
  sends,     \* what the handler of the manager still has to send
  shutdown,  \* the watch channel
  events     \* frames of clients but Close, and events of the manager, so far

vars == <<task, socket, queue, inbox, manager, known, sends, shutdown, events>>

Message  == [kind : {"NewConnection", "NewData", "Disconnected"}, client : Client]
Response == {"Text", "Disconnect"}

\* Running: in the loop.  Writing: a Text or a Pong.  Closing: says Disconnected for
\* a Close frame, then writes the answer to it.  Parting: writes a Close frame of
\* its own, then says Disconnected.  Leaving: says Disconnected, then ends.
TaskState == {"New", "Running", "Writing", "Closing", "Parting", "Leaving", "Ended"}

TypeOK ==
  /\ task \in [Client -> TaskState]
  /\ socket \in [Client -> {"Open", "Closed", "Gone"}]
  /\ queue \in [Client -> Seq(Response)] /\ \A c \in Client : Len(queue[c]) <= ClientCap
  /\ inbox \in Seq(Message)
  /\ manager \in {"Working", "Joining", "Stopped"}
  /\ known \in SUBSET Client
  /\ sends \in Seq([to : Client, what : Response])
  /\ shutdown \in BOOLEAN
  /\ events \in Nat

-----------------------------------------------------------------------------
(* Helper state functions                                                  *)

\* c waits for room in the queue of the manager.
Blocked(c) == \E i \in DOMAIN inbox : i > ManagerCap /\ inbox[i].client = c

\* The loop of c polls its streams.
Polling(c) == task[c] = "Running" /\ ~Blocked(c)

\* The task ends, and its queue with it.
End(c) ==
  /\ task' = [task EXCEPT ![c] = "Ended"]
  /\ queue' = [queue EXCEPT ![c] = <<>>]

\* c sends to the manager and goes on as next; it ends when the manager is gone.
Send(c, kind, next) ==
  \/ /\ manager # "Stopped"
     /\ inbox' = Append(inbox, [kind |-> kind, client |-> c])
     /\ task' = [task EXCEPT ![c] = next]
     /\ UNCHANGED queue
  \/ /\ manager = "Stopped"
     /\ End(c)
     /\ UNCHANGED inbox

\* c waits for its peer, with a frame to write.
Writing(c) == task[c] \in {"Writing", "Closing", "Parting"} /\ ~Blocked(c)

-----------------------------------------------------------------------------

Init ==
  /\ task = [c \in Client |-> "New"]
  /\ socket = [c \in Client |-> "Open"]
  /\ queue = [c \in Client |-> <<>>]
  /\ inbox = <<>>
  /\ manager = "Working"
  /\ known = {}
  /\ sends = <<>>
  /\ shutdown = FALSE
  /\ events = 0

\* The signal handler.
Shutdown ==
  /\ ~shutdown
  /\ shutdown' = TRUE
  /\ UNCHANGED <<task, socket, queue, inbox, manager, known, sends, events>>

\* The peer is lost without a Close frame.
PeerVanishes(c) ==
  /\ task[c] # "New" /\ socket[c] = "Open"
  /\ socket' = [socket EXCEPT ![c] = "Gone"]
  /\ UNCHANGED <<task, queue, inbox, manager, known, sends, shutdown, events>>

-----------------------------------------------------------------------------
(* A client task                                                           *)

\* The handshakes are over and process_client starts.
Connects(c) ==
  /\ task[c] = "New"
  /\ Send(c, "NewConnection", "Running")
  /\ UNCHANGED <<socket, manager, known, sends, shutdown, events>>

\* A Text is going to be written; or a Disconnect as a Close frame, and then the
\* loop is left.
TakesResponse(c) ==
  /\ Polling(c)
  /\ queue[c] # <<>>
  /\ queue' = [queue EXCEPT ![c] = Tail(@)]
  /\ task' = [task EXCEPT ![c] = IF Head(queue[c]) = "Text" THEN "Writing" ELSE "Parting"]
  /\ UNCHANGED <<socket, inbox, manager, known, sends, shutdown, events>>

\* The peer has read enough: the loop goes on, or is left.  After a Close frame the
\* stream of the socket is over, which the loop does not tell from a silent one.
WriteEnds(c) ==
  /\ Writing(c)
  /\ \/ /\ task[c] # "Parting"
        /\ task' = [task EXCEPT ![c] = "Running"]
        /\ UNCHANGED <<queue, inbox>>
     \/ /\ task[c] = "Parting"
        /\ Send(c, "Disconnected", "Leaving")
  /\ UNCHANGED <<socket, manager, known, sends, shutdown, events>>

\* The peer is found lost, or closed: the task ends without a word to the manager.
WriteFails(c) ==
  /\ Writing(c) /\ socket[c] # "Open"
  /\ End(c)
  /\ UNCHANGED <<socket, inbox, manager, known, sends, shutdown, events>>

\* MUTANT: the task goes on reading while it leaves.
ReadsTextLeaving(c) ==
  /\ task[c] \in {"Running", "Leaving"} /\ ~Blocked(c) /\ socket[c] = "Open"
  /\ events < MaxEvents
  /\ events' = events + 1
  /\ Send(c, "NewData", task[c])
  /\ UNCHANGED <<socket, manager, known, sends, shutdown>>

ReadsText(c) ==
  /\ Polling(c) /\ socket[c] = "Open"
  /\ events < MaxEvents
  /\ events' = events + 1
  /\ Send(c, "NewData", "Running")
  /\ UNCHANGED <<socket, manager, known, sends, shutdown>>

ReadsPing(c) ==
  /\ Polling(c) /\ socket[c] = "Open"
  /\ events < MaxEvents
  /\ events' = events + 1
  /\ task' = [task EXCEPT ![c] = "Writing"]
  /\ UNCHANGED <<socket, queue, inbox, manager, known, sends, shutdown>>

\* MUTANT: only a peer that is lost is reported.
ReadsCloseQuietly(c) ==
  /\ Polling(c) /\ socket[c] = "Open"
  /\ socket' = [socket EXCEPT ![c] = "Closed"]
  /\ task' = [task EXCEPT ![c] = "Closing"]
  /\ UNCHANGED <<queue, inbox, manager, known, sends, shutdown, events>>

\* A Close frame: Disconnected is sent at once, then a Close frame is written.
ReadsClose(c) ==
  /\ Polling(c) /\ socket[c] = "Open"
  /\ socket' = [socket EXCEPT ![c] = "Closed"]
  /\ Send(c, "Disconnected", "Closing")
  /\ UNCHANGED <<manager, known, sends, shutdown, events>>

\* A Pong or a Binary frame ends the stream as well.
ReadsOther(c) ==
  /\ Polling(c) /\ socket[c] = "Open"
  /\ events < MaxEvents
  /\ events' = events + 1
  /\ Send(c, "Disconnected", "Leaving")
  /\ UNCHANGED <<socket, manager, known, sends, shutdown>>

\* An error of the socket ends the stream.
ReadFails(c) ==
  /\ Polling(c) /\ socket[c] # "Open"
  /\ Send(c, "Disconnected", "Leaving")
  /\ UNCHANGED <<socket, manager, known, sends, shutdown, events>>

\* MUTANT: only a loop with an open socket looks at the shutdown status.
SeesShutdownOpen(c) ==
  /\ Polling(c) /\ shutdown /\ socket[c] = "Open"
  /\ task' = [task EXCEPT ![c] = "Parting"]
  /\ UNCHANGED <<socket, queue, inbox, manager, known, sends, shutdown, events>>

SeesShutdown(c) ==
  /\ Polling(c) /\ shutdown
  /\ task' = [task EXCEPT ![c] = "Parting"]
  /\ UNCHANGED <<socket, queue, inbox, manager, known, sends, shutdown, events>>

\* The last Disconnected is in the queue of the manager.
Leaves(c) ==
  /\ task[c] = "Leaving" /\ ~Blocked(c)
  /\ End(c)
  /\ UNCHANGED <<socket, inbox, manager, known, sends, shutdown, events>>

-----------------------------------------------------------------------------
(* The manager                                                             *)

Idle == manager = "Working" /\ sends = <<>>

\* Up to MaxTexts responses of one kind to clients of C, in any order.
Writes(C, what) ==
  {[i \in DOMAIN s |-> [to |-> s[i], what |-> what]] :
     s \in UNION {[1..n -> C] : n \in 0..MaxTexts}}

\* NewConnection.
Accepts ==
  /\ Idle /\ inbox # <<>> /\ Head(inbox).kind = "NewConnection"
  /\ known' = known \cup {Head(inbox).client}
  /\ inbox' = Tail(inbox)
  /\ UNCHANGED <<task, socket, queue, manager, sends, shutdown, events>>

\* NewData: a command that succeeds, or fails and makes the manager look the
\* client up in all_connections.
Handles ==
  /\ Idle /\ inbox # <<>> /\ Head(inbox).kind = "NewData"
  /\ \E texts \in Writes(known, "Text") :
       \/ sends' = texts
       \/ sends' = Append(texts, [to |-> Head(inbox).client, what |-> "Disconnect"])
  /\ inbox' = Tail(inbox)
  /\ UNCHANGED <<task, socket, queue, manager, known, shutdown, events>>

\* MUTANT: the entry of all_connections stays.
ForgetsNothing ==
  /\ Idle /\ inbox # <<>> /\ Head(inbox).kind = "Disconnected"
  /\ sends' \in Writes(known \ {Head(inbox).client}, "Text")
  /\ inbox' = Tail(inbox)
  /\ UNCHANGED <<task, socket, queue, manager, known, shutdown, events>>

\* Disconnected: the others are told, and the client forgotten.
Forgets ==
  /\ Idle /\ inbox # <<>> /\ Head(inbox).kind = "Disconnected"
  /\ known' = known \ {Head(inbox).client}
  /\ sends' \in Writes(known', "Text")
  /\ inbox' = Tail(inbox)
  /\ UNCHANGED <<task, socket, queue, manager, shutdown, events>>

\* CheckUnauthUsers and GotAttachment write to a client once.
Speaks ==
  /\ Idle
  /\ events < MaxEvents
  /\ events' = events + 1
  /\ sends' \in Writes(known, "Text") \cup Writes(known, "Disconnect")
  /\ \A i, j \in DOMAIN sends' : sends'[i].to = sends'[j].to => i = j
  /\ UNCHANGED <<task, socket, queue, inbox, manager, known, shutdown>>

\* MUTANT: the queue of a client has no capacity.
DeliversAlways ==
  /\ sends # <<>>
  /\ LET c == Head(sends).to IN
       queue' = IF task[c] = "Ended" THEN queue
                ELSE [queue EXCEPT ![c] = Append(@, Head(sends).what)]
  /\ sends' = Tail(sends)
  /\ UNCHANGED <<task, socket, inbox, manager, known, shutdown, events>>

\* MUTANT: the manager waits for room though nobody will make any.
DeliversOrWaits ==
  /\ sends # <<>>
  /\ LET c == Head(sends).to IN
       /\ task[c] # "Ended" /\ Len(queue[c]) < ClientCap
       /\ queue' = [queue EXCEPT ![c] = Append(@, Head(sends).what)]
  /\ sends' = Tail(sends)
  /\ UNCHANGED <<task, socket, inbox, manager, known, shutdown, events>>

\* Waits for room in the queue of the client; fails when its task has ended.
Delivers ==
  /\ sends # <<>>
  /\ LET c == Head(sends).to IN
       \/ /\ task[c] # "Ended" /\ Len(queue[c]) < ClientCap
          /\ queue' = [queue EXCEPT ![c] = Append(@, Head(sends).what)]
       \/ task[c] = "Ended" /\ UNCHANGED queue
  /\ sends' = Tail(sends)
  /\ UNCHANGED <<task, socket, inbox, manager, known, shutdown, events>>

Breaks ==
  /\ Idle
  /\ shutdown
  /\ manager' = "Joining"
  /\ UNCHANGED <<task, socket, queue, inbox, known, sends, shutdown, events>>

\* The attachment task has ended; the queue of the manager is dropped, and a
\* client that waits for it ends with an error.
Stops ==
  /\ manager = "Joining"
  /\ manager' = "Stopped"
  /\ inbox' = <<>>
  /\ known' = {}
  /\ task' = [c \in Client |-> IF Blocked(c) THEN "Ended" ELSE task[c]]
  /\ queue' = [c \in Client |-> IF Blocked(c) THEN <<>> ELSE queue[c]]
  /\ UNCHANGED <<socket, sends, shutdown, events>>

-----------------------------------------------------------------------------

ManagerRuns == Accepts \/ Handles \/ Forgets \/ Delivers \/ Breaks \/ Stops

\* Steps of the task of c that need nothing from its peer.
TaskRuns(c) == TakesResponse(c) \/ SeesShutdown(c) \/ Leaves(c)

\* What c writes is read, or its peer found lost.
WriteSettles(c) == WriteEnds(c) \/ WriteFails(c)

Next ==
  \/ ManagerRuns \/ Speaks
  \/ Shutdown
  \/ \E c \in Client :
       \/ TaskRuns(c) \/ Connects(c) \/ WriteSettles(c)
       \/ ReadsText(c) \/ ReadsPing(c) \/ ReadsClose(c) \/ ReadsOther(c) \/ ReadFails(c)
       \/ PeerVanishes(c)

\* The runtime schedules the manager and the client tasks.  That every write
\* settles is an assumption on the peers and the network: a peer that is there and
\* reads nothing breaks it.
Spec ==
  /\ Init /\ [][Next]_vars
  /\ WF_vars(ManagerRuns)
  /\ \A c \in Client : WF_vars(TaskRuns(c)) /\ WF_vars(WriteSettles(c))

-----------------------------------------------------------------------------
(* Safety                                                                  *)

\* all_connections[&addr] does not panic: when the manager handles a command,
\* the client that sent it is known, however its task has ended since.
CommandsOfKnownClients ==
  inbox # <<>> /\ Head(inbox).kind = "NewData" => Head(inbox).client \in known

\* A client the manager forgets sends it no command any more, in the queue or
\* later: at most the second Disconnected of a task that was closed.
ForgottenForGood ==
  [][\A c \in Client : c \in known /\ c \notin known' /\ manager' # "Stopped" =>
       /\ \A i \in DOMAIN inbox' : inbox'[i].client = c => inbox'[i].kind = "Disconnected"
       /\ ~(task'[c] \in {"Running", "Writing"} /\ socket'[c] = "Open")]_vars

\* A client the manager still knows after its task has ended, with no message
\* of it under way, is one whose peer was lost without a Close frame.  Whoever has
\* sent one is forgotten, also if the answer to it cannot be written, and so is
\* whoever the server disconnects while its peer is there.
OnlyLostPeersLeak ==
  \A c \in Client :
    /\ task[c] = "Ended" /\ c \in known
    /\ \A i \in DOMAIN inbox : inbox[i].client # c
    => socket[c] = "Gone"

(* Liveness, as long as nobody has to wait for room in the queue of the     *)
(* manager: a client that waits for it is not emptying its own queue, which *)
(* is the circle ManagerReachesClients is about.                            *)

RoomForAll == []\A c \in Client : ~Blocked(c)

\* A task that leaves its loop is forgotten by the manager, or both stop.
LeavingIsReported ==
  RoomForAll =>
    \A c \in Client : task[c] = "Leaving" ~> (task[c] = "Ended" /\ c \notin known)

\* After a signal the manager and all client tasks end.
AllStop ==
  RoomForAll =>
    (shutdown ~> manager = "Stopped" /\ \A c \in Client : task[c] \in {"New", "Ended"})

(* What the repository says and the code does not do                       *)

\* "Make a channel that the manager task can use to send us messages": the
\* manager that waits for room in it gets room, or finds it closed.
ManagerReachesClients == sends # <<>> ~> sends = <<>>
=============================================================================
