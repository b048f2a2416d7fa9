-------------------------------- MODULE Server --------------------------------
(***************************************************************************)
(* The whole process: the listener of server/mod.rs, the tasks it starts   *)
(* and waits for, and the manager task, which is one task of two           *)
(* components.  Connection and AttachmentPipeline each describe the        *)
(* manager as far as their own queues go; here it is either busy with the  *)
(* clients or with the attachment manager, and a step of it is a step of   *)
(* both components.                                                        *)
(*                                                                         *)
(* The variables and constants of the two components keep their names; the *)
(* attachment manager task is attTask.  They share the manager and the     *)
(* watch channel.                                                          *)
(***************************************************************************)
EXTENDS Naturals, Sequences, FiniteSets

CONSTANTS Client, ManagerCap, ClientCap, MaxTexts, MaxEvents,
          UrlCap, AttCap, MaxOutstanding, MaxMessages

ASSUME ServerAssumption ==
  /\ ManagerCap \in Nat \ {0} /\ ClientCap \in Nat \ {0}
  /\ UrlCap \in Nat \ {0} /\ AttCap \in Nat \ {0}
  /\ MaxTexts \in Nat /\ MaxEvents \in Nat
  /\ MaxOutstanding \in Nat /\ MaxMessages \in Nat

VARIABLES
  manager, shutdown,
  task, socket, queue, inbox, known, sends, events,
  stored, pending, urlQueue, attTask, inHand, attachQueue, attached, workload,
  listener,  \* the loop of server::start
  spawned    \* what became of the handshakes of the clients it accepted

Conn == INSTANCE Connection
Pipe == INSTANCE AttachmentPipeline WITH task <- attTask

connVars == <<task, socket, queue, inbox, known, sends, events>>
pipeVars == <<stored, pending, urlQueue, attTask, inHand, attachQueue, attached,
              workload>>
listVars == <<listener, spawned>>
vars     == <<manager, shutdown, connVars, pipeVars, listVars>>

TypeOK ==
  /\ Conn!TypeOK /\ Pipe!TypeOK
  /\ listener \in {"Accepting", "Joining", "Returned"}
  /\ spawned \in [Client -> {"No", "Handshake", "Client", "Failed"}]

-----------------------------------------------------------------------------

Init ==
  /\ Conn!Init /\ Pipe!Init
  /\ listener = "Accepting"
  /\ spawned = [c \in Client |-> "No"]

\* The signal handler, which takes one signal and is done.
Shutdown == Conn!Shutdown /\ Pipe!Shutdown /\ UNCHANGED listVars

-----------------------------------------------------------------------------
(* The listener                                                            *)

\* accept() races with the shutdown status until the loop has seen it.
AcceptsSocket(c) ==
  /\ listener = "Accepting" /\ spawned[c] = "No"
  /\ spawned' = [spawned EXCEPT ![c] = "Handshake"]
  /\ UNCHANGED <<manager, shutdown, connVars, pipeVars, listener>>

\* The TLS and the WebSocket handshake succeed, and process_client starts.
HandshakeDone(c) ==
  /\ spawned[c] = "Handshake"
  /\ spawned' = [spawned EXCEPT ![c] = "Client"]
  /\ Conn!Connects(c)
  /\ UNCHANGED <<pipeVars, listener>>

\* One of them fails: the task panics, and the manager never hears of it.
HandshakeFails(c) ==
  /\ spawned[c] = "Handshake"
  /\ spawned' = [spawned EXCEPT ![c] = "Failed"]
  /\ UNCHANGED <<manager, shutdown, connVars, pipeVars, listener>>

ListenerBreaks ==
  /\ listener = "Accepting"
  /\ shutdown
  /\ listener' = "Joining"
  /\ UNCHANGED <<manager, shutdown, connVars, pipeVars, spawned>>

\* MUTANT: a task that panicked is waited for.
OverOrNeverStarted(c) == spawned[c] = "No" \/ task[c] = "Ended"

\* The task of c, if there is one, is over.
Over(c) == spawned[c] # "Handshake" /\ (spawned[c] = "Client" => task[c] = "Ended")

\* join_all: the manager and every task that was started, panicked or not.
ListenerReturns ==
  /\ listener = "Joining"
  /\ manager = "Stopped" /\ \A c \in Client : Over(c)
  /\ listener' = "Returned"
  /\ UNCHANGED <<manager, shutdown, connVars, pipeVars, spawned>>

-----------------------------------------------------------------------------
(* The manager: its loop is idle when it has nothing left to send to       *)
(* clients and no link left to send to the attachment manager              *)

\* NewConnection and Disconnected.
TracksClients ==
  /\ Pipe!Polling
  /\ Conn!Accepts \/ Conn!Forgets
  /\ UNCHANGED <<pipeVars, listVars>>

\* Bound: room is left in MaxEvents for the ADDATTACHMENTs under way.
Unreserved == MaxEvents - events - Pipe!Outstanding

\* A MSG is broadcast before its links are sent; any other command, and a MSG
\* that is refused, has no links.
Commands ==
  /\ Pipe!Polling
  /\ Conn!Handles
  /\ \/ UNCHANGED pipeVars
     \/ /\ \A i \in DOMAIN sends' : sends'[i].what = "Text"
        /\ \E k \in 0..MaxOutstanding : k <= Unreserved /\ Pipe!TakeMsg(k)
  /\ UNCHANGED listVars

\* CheckUnauthUsers.
Checks ==
  /\ Pipe!Polling
  /\ Unreserved > 0
  /\ Conn!Speaks
  /\ \A i \in DOMAIN sends' : sends'[i].what = "Disconnect"
  /\ UNCHANGED <<pipeVars, listVars>>

\* GotAttachment: ADDATTACHMENT is broadcast if the row is stored.
Announces ==
  /\ Pipe!GotAttachment
  /\ Conn!Speaks
  /\ \A i \in DOMAIN sends' : sends'[i].what = "Text"
  /\ attached' = attached => sends' = <<>>
  /\ UNCHANGED listVars

Delivers == Conn!Delivers /\ UNCHANGED <<pipeVars, listVars>>

SendsLink == sends = <<>> /\ Pipe!SendLink /\ UNCHANGED <<connVars, listVars>>

\* MUTANT: the loop is left with something still to be sent.
BreaksBusy ==
  /\ manager = "Working" /\ shutdown
  /\ manager' = "Joining"
  /\ UNCHANGED <<shutdown, connVars, pipeVars, listVars>>

Breaks == Conn!Breaks /\ Pipe!ManagerBreaks /\ UNCHANGED listVars
Stops  == Conn!Stops /\ Pipe!ManagerStops /\ UNCHANGED listVars

-----------------------------------------------------------------------------

ManagerRuns ==
  TracksClients \/ Commands \/ Announces \/ Delivers \/ SendsLink \/ Breaks \/ Stops

AttachmentsRun == Pipe!TaskRuns /\ UNCHANGED <<connVars, listVars>>
HeadAnswered   == Pipe!HeadAnswered /\ UNCHANGED <<connVars, listVars>>

ClientRuns(c) == Conn!TaskRuns(c) /\ UNCHANGED <<pipeVars, listVars>>

\* What a peer sends, or its loss.
PeerActs(c) ==
  /\ \/ Conn!ReadsClose(c) \/ Conn!ReadFails(c)
     \/ (Conn!ReadsText(c) \/ Conn!ReadsPing(c) \/ Conn!ReadsOther(c)) /\ Unreserved > 0
     \/ Conn!PeerVanishes(c)
  /\ UNCHANGED <<pipeVars, listVars>>

\* The peer reads what c has to write, or is found lost.
WriteSettles(c) == Conn!WriteSettles(c) /\ UNCHANGED <<pipeVars, listVars>>

ListenerRuns == ListenerBreaks \/ ListenerReturns
HandshakeEnds(c) == HandshakeDone(c) \/ HandshakeFails(c)

Next ==
  \/ Shutdown
  \/ ListenerRuns
  \/ ManagerRuns \/ Checks
  \/ AttachmentsRun \/ HeadAnswered
  \/ \E c \in Client :
       \/ AcceptsSocket(c) \/ HandshakeEnds(c)
       \/ ClientRuns(c) \/ PeerActs(c) \/ WriteSettles(c)

\* The runtime schedules every task.  That a HEAD request is answered, a handshake
\* ends and a write to a socket ends or fails are assumptions on the network: none
\* of them has a timeout here.
Fairness ==
  /\ WF_vars(ManagerRuns) /\ WF_vars(AttachmentsRun) /\ WF_vars(ListenerRuns)
  /\ \A c \in Client : WF_vars(ClientRuns(c))
  /\ WF_vars(HeadAnswered)
  /\ \A c \in Client : WF_vars(HandshakeEnds(c)) /\ WF_vars(WriteSettles(c))

Spec == Init /\ [][Next]_vars /\ Fairness

-----------------------------------------------------------------------------
(* Properties                                                              *)

\* When nobody waits for the queue of the manager and the results under way fit
\* in their queue, none of the circular waits of the components can occur.
LightLoad == []((\A c \in Client : ~Conn!Blocked(c)) /\ workload <= AttCap)

\* "wait for everything else to shutdown before returning": after a signal the
\* listener waits for every task it has started, and server::start returns.
ServerReturns == LightLoad => (shutdown ~> listener = "Returned")

\* When server::start returns, no task it started runs any more, nor the
\* attachment manager, which only the manager waits for; and none starts later.
ReturnsLast ==
  listener = "Returned" =>
    /\ manager = "Stopped" /\ attTask = "Stopped"
    /\ \A c \in Client : spawned[c] # "Handshake" /\ task[c] \in {"New", "Ended"}

(* The waits of the tasks.  A task moves if the runtime can make it take a step *)
(* without the answer to a HEAD request and without the peer of a client.       *)

ManagerMoves ==
  \/ /\ sends # <<>>
     /\ task[Head(sends).to] = "Ended" \/ Len(queue[Head(sends).to]) < ClientCap
  \/ /\ sends = <<>> /\ pending # <<>>
     /\ attTask = "Stopped" \/ Len(urlQueue) < UrlCap
  \/ /\ sends = <<>> /\ pending = <<>>
     /\ \/ manager = "Working" /\ (inbox # <<>> \/ attachQueue # <<>> \/ shutdown)
        \/ manager = "Joining" /\ attTask = "Stopped"

AttachmentsMove ==
  \/ attTask = "Idle" /\ (urlQueue # <<>> \/ shutdown)
  \/ attTask = "Sending" /\ Len(attachQueue) < AttCap

TaskMoves(c) ==
  /\ task[c] \in {"Running", "Leaving"} /\ ~Conn!Blocked(c)
  /\ task[c] = "Running" => queue[c] # <<>> \/ shutdown

ListenerMoves ==
  \/ listener = "Accepting" /\ shutdown
  \/ listener = "Joining" /\ manager = "Stopped" /\ \A c \in Client : Over(c)

Stuck ==
  /\ ~ManagerMoves /\ ~AttachmentsMove /\ ~ListenerMoves
  /\ \A c \in Client : ~TaskMoves(c)

\* The manager waits for room in the queue of a client, and the client for room
\* in the queue of the manager.
ClientCycle ==
  /\ sends # <<>>
  /\ LET c == Head(sends).to IN Len(queue[c]) = ClientCap /\ Conn!Blocked(c)

ResultWaits == attTask = "Sending" /\ Len(attachQueue) = AttCap

\* The manager waits for room in the queue of links, and the attachment manager
\* for room in the queue of results.
LinkCycle == pending # <<>> /\ Len(urlQueue) = UrlCap /\ ResultWaits

\* The manager waits for the attachment manager to end, and the attachment manager
\* for room in a queue the manager does not read any more.
JoinCycle == manager = "Joining" /\ ResultWaits

\* The manager waits for the answer to a HEAD request, which has no timeout: for
\* room in the queue of links, or for the attachment manager to end.
AnswerWait ==
  /\ attTask = "Asking"
  /\ (pending # <<>> /\ Len(urlQueue) = UrlCap) \/ manager = "Joining"

\* The manager waits for room in the queue of a client, and the client for its peer
\* to read: a write has no timeout.  One peer that stops reading holds up everyone.
WriteWait ==
  /\ sends # <<>>
  /\ LET c == Head(sends).to IN Len(queue[c]) = ClientCap /\ Conn!Writing(c)

\* Nothing is left to join_all but handshakes, which have no timeout either, and
\* clients that wait for their peer to read.
JoinAllWait ==
  /\ listener = "Joining" /\ manager = "Stopped" /\ attTask = "Stopped"
  /\ \A c \in Client : spawned[c] = "Handshake" \/ Conn!Writing(c) \/ Over(c)
  /\ \E c \in Client : ~Over(c)

\* Nothing is under way but links that wait for the answer to a HEAD request, and
\* what is written to peers that do not read it: the server waits for its peers, a
\* signal or that answer.
AtRest ==
  /\ ~shutdown /\ manager = "Working" /\ listener = "Accepting"
  /\ inbox = <<>> /\ sends = <<>> /\ pending = <<>> /\ attachQueue = <<>>
  /\ attTask = "Asking" \/ (attTask = "Idle" /\ Pipe!Outstanding = 0)
  /\ \A c \in Client :
       ~Conn!Writing(c) => task[c] \in {"New", "Running", "Ended"} /\ queue[c] = <<>>

\* When no task of the server can move, it is in one of the three circular waits
\* the components describe, or a silent web server or peer holds it up in one of
\* three ways, or server::start has returned, or all that is left is to write.
OnlyKnownWaits ==
  Stuck =>
    \/ ClientCycle \/ LinkCycle \/ JoinCycle
    \/ AnswerWait \/ WriteWait \/ JoinAllWait
    \/ listener = "Returned" \/ AtRest

\* After a signal, and however much is under way, nothing but a circular wait keeps
\* server::start from returning, if web servers answer, handshakes end and peers read
\* what is written to them or are lost.
ReturnsOrCircles ==
  shutdown ~> listener = "Returned" \/ ClientCycle \/ LinkCycle \/ JoinCycle

\* The server implements Connection and AttachmentPipeline: each of its steps is a
\* step of either or leaves what it describes alone.
ConnectionSteps  == Conn!Init /\ [][Conn!Next]_(Conn!vars)
PipelineSteps    == Pipe!Init /\ [][Pipe!Next]_(Pipe!vars)
StepsImplemented == ConnectionSteps /\ PipelineSteps

\* Under a light load the manager serves its clients as fairly as Connection takes
\* for granted, though it also waits for the attachment manager; and the attachment
\* manager as AttachmentPipeline does, though it also waits for clients.
FairnessImplemented ==
  LightLoad => /\ WF_(Conn!vars)(Conn!ManagerRuns)
               /\ \A c \in Client : /\ WF_(Conn!vars)(Conn!TaskRuns(c))
                                   /\ WF_(Conn!vars)(Conn!WriteSettles(c))
               /\ Pipe!TasksFair
=============================================================================
