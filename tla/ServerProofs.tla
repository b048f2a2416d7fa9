------------------------------ MODULE ServerProofs ------------------------------
(***************************************************************************)
(* For every number of clients, every capacity and every load: the server  *)
(* takes the steps of its two components, and keeps what ConnectionProofs  *)
(* and AttachmentPipelineProofs prove of them; server::start returns last; *)
(* the states in which no task can move are the known ones, the circular   *)
(* waits among them are for ever, and only a peer ends the wait for it.    *)
(***************************************************************************)
EXTENDS Server, TLAPS

-----------------------------------------------------------------------------
(* The components                                                          *)

\* Steps that leave the clients and the manager alone, but for its links.
LEMMA ConnStutters ==
  ASSUME UNCHANGED <<manager, shutdown, connVars>>
  PROVE  UNCHANGED Conn!vars
  BY DEF Conn!vars, connVars

\* Steps that leave the attachments and the manager alone, but for its clients.
LEMMA PipeStutters ==
  ASSUME UNCHANGED <<manager, shutdown, pipeVars>>
  PROVE  UNCHANGED Pipe!vars
  BY DEF Pipe!vars, pipeVars

\* Every step of the server is one of the clients and the manager, or none.
LEMMA ConnStep == [Next]_vars => [Conn!Next]_(Conn!vars)
<1> SUFFICES ASSUME [Next]_vars PROVE Conn!Next \/ UNCHANGED Conn!vars
  OBVIOUS
<1>1. CASE Shutdown
  BY <1>1 DEF Shutdown, Conn!Next
<1>2. CASE ListenerRuns
  BY <1>2, ConnStutters DEF ListenerRuns, ListenerBreaks, ListenerReturns
<1>3. CASE TracksClients
  BY <1>3 DEF TracksClients, Conn!Next, Conn!ManagerRuns
<1>4. CASE Commands
  BY <1>4 DEF Commands, Conn!Next, Conn!ManagerRuns
<1>5. CASE Announces \/ Checks
  BY <1>5 DEF Announces, Checks, Conn!Next
<1>6. CASE Delivers \/ Breaks \/ Stops
  BY <1>6 DEF Delivers, Breaks, Stops, Conn!Next, Conn!ManagerRuns
<1>7. CASE SendsLink
  BY <1>7, ConnStutters DEF SendsLink, Pipe!SendLink
<1>8. CASE AttachmentsRun \/ HeadAnswered
  BY <1>8, ConnStutters DEF AttachmentsRun, HeadAnswered, Pipe!TaskRuns,
     Pipe!TakeLink, Pipe!SendResult, Pipe!TaskStops, Pipe!HeadAnswered
<1>9. ASSUME NEW c \in Client, AcceptsSocket(c) \/ HandshakeFails(c)
      PROVE  UNCHANGED Conn!vars
  BY <1>9, ConnStutters DEF AcceptsSocket, HandshakeFails
<1>10. ASSUME NEW c \in Client,
              HandshakeDone(c) \/ ClientRuns(c) \/ PeerActs(c) \/ WriteSettles(c)
       PROVE  Conn!Next
  BY <1>10 DEF HandshakeDone, ClientRuns, PeerActs, WriteSettles, Conn!Next
<1>11. CASE UNCHANGED vars
  BY <1>11, ConnStutters DEF vars
<1> QED
  BY <1>1, <1>2, <1>3, <1>4, <1>5, <1>6, <1>7, <1>8, <1>9, <1>10, <1>11
     DEF Next, ManagerRuns, HandshakeEnds

\* Every step of the server is one of the attachments and the manager, or none.
LEMMA PipeStep == [Next]_vars => [Pipe!Next]_(Pipe!vars)
<1> SUFFICES ASSUME [Next]_vars PROVE Pipe!Next \/ UNCHANGED Pipe!vars
  OBVIOUS
<1>1. CASE Shutdown
  BY <1>1 DEF Shutdown, Pipe!Next
<1>2. CASE ListenerRuns
  BY <1>2, PipeStutters DEF ListenerRuns, ListenerBreaks, ListenerReturns
<1>3. CASE TracksClients
  BY <1>3, PipeStutters DEF TracksClients, Conn!Accepts, Conn!Forgets
<1>4. CASE Commands
  <2>1. CASE UNCHANGED pipeVars
    BY <1>4, <2>1, PipeStutters DEF Commands, Conn!Handles
  <2>2. CASE \E k \in 0..MaxOutstanding : Pipe!TakeMsg(k)
    BY <2>2 DEF Pipe!Next
  <2> QED
    BY <1>4, <2>1, <2>2 DEF Commands
<1>5. CASE Announces
  BY <1>5 DEF Announces, Pipe!Next, Pipe!ManagerRuns
<1>6. CASE Checks \/ Delivers
  BY <1>6, PipeStutters DEF Checks, Delivers, Conn!Speaks, Conn!Delivers
<1>7. CASE SendsLink \/ Breaks \/ Stops
  BY <1>7 DEF SendsLink, Breaks, Stops, Pipe!Next, Pipe!ManagerRuns
<1>8. CASE AttachmentsRun \/ HeadAnswered
  BY <1>8 DEF AttachmentsRun, HeadAnswered, Pipe!Next
<1>9. ASSUME NEW c \in Client, AcceptsSocket(c) \/ HandshakeEnds(c)
      PROVE  UNCHANGED Pipe!vars
  BY <1>9, PipeStutters DEF AcceptsSocket, HandshakeEnds, HandshakeDone, HandshakeFails,
     Conn!Connects
<1>10. ASSUME NEW c \in Client, ClientRuns(c) \/ PeerActs(c) \/ WriteSettles(c)
       PROVE  UNCHANGED Pipe!vars
  <2>1. UNCHANGED <<manager, shutdown>>
    <3>1. CASE ClientRuns(c)
      BY <3>1 DEF ClientRuns, Conn!TaskRuns, Conn!TakesResponse, Conn!SeesShutdown,
         Conn!Leaves
    <3>2. CASE PeerActs(c)
      BY <3>2 DEF PeerActs, Conn!ReadsText, Conn!ReadsPing, Conn!ReadsClose, Conn!ReadsOther,
         Conn!ReadFails, Conn!PeerVanishes
    <3>3. CASE WriteSettles(c)
      BY <3>3 DEF WriteSettles, Conn!WriteSettles, Conn!WriteEnds, Conn!WriteFails
    <3> QED
      BY <1>10, <3>1, <3>2, <3>3
  <2> QED
    BY <1>10, <2>1, PipeStutters DEF ClientRuns, PeerActs, WriteSettles
<1>11. CASE UNCHANGED vars
  BY <1>11, PipeStutters DEF vars
<1> QED
  BY <1>1, <1>2, <1>3, <1>4, <1>5, <1>6, <1>7, <1>8, <1>9, <1>10, <1>11
     DEF Next, ManagerRuns

\* Every step of the server is a step of both components: whatever invariant they
\* keep by themselves the server keeps, with all three at work.
THEOREM ServerImplementsSteps == Spec => StepsImplemented
<1>1. Init => Conn!Init /\ Pipe!Init
  BY DEF Init
<1>2. Spec => ConnectionSteps
  BY <1>1, ConnStep, PTL DEF Spec, ConnectionSteps
<1>3. Spec => PipelineSteps
  BY <1>1, PipeStep, PTL DEF Spec, PipelineSteps
<1> QED
  BY <1>2, <1>3 DEF StepsImplemented

-----------------------------------------------------------------------------
(* server::start returns last                                              *)

Tasks == Conn!TaskState
Kinds == {"No", "Handshake", "Client", "Failed"}

\* The manager stops after the attachment manager; only a handshake that is over
\* makes a client task; and nobody starts anything once the listener has returned.
Returning ==
  /\ task \in [Client -> Tasks] /\ spawned \in [Client -> Kinds]
  /\ manager = "Stopped" => attTask = "Stopped"
  /\ \A c \in Client : spawned[c] # "Client" => task[c] \in {"New", "Ended"}
  /\ listener = "Returned" => manager = "Stopped" /\ \A c \in Client : Over(c)

\* A client task moves on by itself only while it runs, and never starts again.
LEMMA ClientTask ==
  ASSUME task \in [Client -> Tasks],
         NEW c \in Client, ClientRuns(c) \/ PeerActs(c) \/ WriteSettles(c)
  PROVE  /\ task' \in [Client -> Tasks]
         /\ \A d \in Client : \/ task'[d] = task[d]
                              \/ task[d] \notin {"New", "Ended"} /\ task'[d] # "New"
         /\ UNCHANGED <<manager, pipeVars, listVars>>
<1> USE DEF Tasks, Conn!TaskState
<1>1. /\ UNCHANGED pipeVars /\ UNCHANGED listVars
  BY DEF ClientRuns, PeerActs, WriteSettles
<1>2. CASE Conn!PeerVanishes(c)
  BY <1>1, <1>2 DEF Conn!PeerVanishes
<1>3. CASE Conn!TakesResponse(c) \/ Conn!SeesShutdown(c) \/ Conn!ReadsPing(c)
  BY <1>1, <1>3 DEF Conn!TakesResponse, Conn!SeesShutdown, Conn!ReadsPing, Conn!Polling
<1>4. CASE Conn!WriteFails(c) \/ Conn!Leaves(c)
  BY <1>1, <1>4 DEF Conn!Writing, Conn!WriteFails, Conn!Leaves, Conn!End
<1>5. CASE Conn!WriteEnds(c)
  BY <1>1, <1>5 DEF Conn!Writing, Conn!WriteEnds, Conn!Send, Conn!End
<1>6. CASE Conn!ReadFails(c) \/ Conn!ReadsOther(c)
  BY <1>1, <1>6 DEF Conn!ReadFails, Conn!ReadsOther, Conn!Polling, Conn!Send, Conn!End
<1>7. CASE Conn!ReadsText(c) \/ Conn!ReadsClose(c)
  BY <1>1, <1>7 DEF Conn!ReadsText, Conn!ReadsClose, Conn!Polling, Conn!Send, Conn!End
<1> QED
  BY <1>2, <1>3, <1>4, <1>5, <1>6, <1>7
     DEF ClientRuns, PeerActs, WriteSettles, Conn!TaskRuns, Conn!WriteSettles

\* The manager leaves the client tasks alone, until it stops; and an attachment
\* manager that has stopped stays so.
LEMMA ManagerTask ==
  ASSUME task \in [Client -> Tasks],
         Shutdown \/ ManagerRuns \/ Checks \/ AttachmentsRun \/ HeadAnswered
  PROVE  /\ task' \in [Client -> Tasks]
         /\ \A d \in Client : task'[d] = task[d] \/ (manager = "Joining" /\ task'[d] = "Ended")
         /\ attTask = "Stopped" => attTask' = "Stopped"
         /\ manager = "Stopped" => manager' = "Stopped"
         /\ manager # "Stopped" /\ manager' = "Stopped" => attTask = "Stopped"
         /\ UNCHANGED listVars
<1>1. CASE Shutdown
  BY <1>1 DEF Shutdown, Conn!Shutdown, Pipe!Shutdown
<1>2. CASE TracksClients \/ Checks \/ Delivers
  BY <1>2 DEF TracksClients, Checks, Delivers, Conn!Accepts, Conn!Forgets, Conn!Speaks,
     Conn!Delivers, pipeVars
<1>3. CASE Commands
  BY <1>3 DEF Commands, Conn!Handles, Pipe!TakeMsg, pipeVars
<1>4. CASE Announces
  BY <1>4 DEF Announces, Conn!Speaks, Pipe!GotAttachment
<1>5. CASE SendsLink
  BY <1>5 DEF SendsLink, Pipe!SendLink, connVars
<1>6. CASE Breaks
  BY <1>6 DEF Breaks, Conn!Breaks, Pipe!ManagerBreaks, Conn!Idle
<1>7. CASE Stops
  BY <1>7 DEF Stops, Conn!Stops, Pipe!ManagerStops, Tasks, Conn!TaskState
<1>8. CASE AttachmentsRun
  BY <1>8 DEF AttachmentsRun, Pipe!TaskRuns, Pipe!TakeLink, Pipe!SendResult, Pipe!TaskStops,
     connVars
<1>9. CASE HeadAnswered
  BY <1>9 DEF HeadAnswered, Pipe!HeadAnswered, connVars
<1> QED
  BY <1>1, <1>2, <1>3, <1>4, <1>5, <1>6, <1>7, <1>8, <1>9 DEF ManagerRuns

LEMMA ReturningNext == Returning /\ [Next]_vars => Returning'
<1> SUFFICES ASSUME Returning, [Next]_vars PROVE Returning'
  OBVIOUS
<1> USE DEF Returning, Over
<1>1. ASSUME NEW c \in Client, ClientRuns(c) \/ PeerActs(c) \/ WriteSettles(c)
      PROVE  Returning'
  BY <1>1, ClientTask DEF pipeVars, listVars
<1>2. CASE Shutdown \/ ManagerRuns \/ Checks \/ AttachmentsRun \/ HeadAnswered
  BY <1>2, ManagerTask DEF listVars
<1>3. CASE ListenerRuns
  BY <1>3 DEF ListenerRuns, ListenerBreaks, ListenerReturns, connVars, pipeVars
<1>4. ASSUME NEW c \in Client, AcceptsSocket(c) PROVE Returning'
  BY <1>4 DEF AcceptsSocket, connVars, pipeVars, Kinds
<1>5. ASSUME NEW c \in Client, HandshakeDone(c) PROVE Returning'
  BY <1>5 DEF HandshakeDone, Conn!Connects, Conn!Send, Conn!End, pipeVars, Kinds, Tasks,
     Conn!TaskState
<1>6. ASSUME NEW c \in Client, HandshakeFails(c) PROVE Returning'
  BY <1>6 DEF HandshakeFails, connVars, pipeVars, Kinds
<1>7. CASE UNCHANGED vars
  BY <1>7 DEF vars, connVars, pipeVars, listVars
<1> QED
  BY <1>1, <1>2, <1>3, <1>4, <1>5, <1>6, <1>7 DEF Next, HandshakeEnds

\* However many clients connect, and whenever: when server::start returns, every
\* task it has started is over, and none is started afterwards.
THEOREM StartReturnsLast == Spec => []ReturnsLast
<1>1. Init => Returning
  BY DEF Init, Conn!Init, Returning, Over, Tasks, Conn!TaskState, Kinds
<1>2. Returning => ReturnsLast
  BY DEF Returning, ReturnsLast, Over
<1> QED
  BY <1>1, <1>2, ReturningNext, PTL DEF Spec

-----------------------------------------------------------------------------
(* What the components keep, the server keeps                              *)

Clients == INSTANCE ConnectionProofs
Links   == INSTANCE AttachmentPipelineProofs WITH task <- attTask

\* The Connection that ConnectionProofs is about is the one in Server.
LEMMA SameClients ==
  /\ Conn!Init <=> Clients!Init
  /\ [Conn!Next]_(Conn!vars) <=> [Clients!Next]_(Clients!vars)
  /\ Conn!TypeOK <=> Clients!TypeOK
<1>1. Conn!vars = Clients!vars /\ (Conn!Init <=> Clients!Init) /\ (Conn!TypeOK <=> Clients!TypeOK)
  BY DEF Conn!vars, Clients!vars, Conn!Init, Clients!Init, Conn!TypeOK, Clients!TypeOK,
     Conn!Response, Clients!Response, Conn!Message, Clients!Message,
     Conn!TaskState, Clients!TaskState
<1> USE DEF Conn!Blocked, Clients!Blocked, Conn!Polling, Clients!Polling, Conn!End, Clients!End,
            Conn!Send, Clients!Send, Conn!Writing, Clients!Writing,
            Conn!Idle, Clients!Idle, Conn!Writes, Clients!Writes
<1>2. (Conn!Shutdown <=> Clients!Shutdown) /\ (Conn!Speaks <=> Clients!Speaks)
  BY DEF Conn!Shutdown, Clients!Shutdown, Conn!Speaks, Clients!Speaks
<1>3. Conn!ManagerRuns <=> Clients!ManagerRuns
  BY DEF Conn!ManagerRuns, Clients!ManagerRuns, Conn!Accepts, Clients!Accepts,
     Conn!Handles, Clients!Handles, Conn!Forgets, Clients!Forgets, Conn!Delivers,
     Clients!Delivers, Conn!Breaks, Clients!Breaks, Conn!Stops, Clients!Stops
<1>4. \A c : Conn!TaskRuns(c) <=> Clients!TaskRuns(c)
  BY DEF Conn!TaskRuns, Clients!TaskRuns, Conn!TakesResponse, Clients!TakesResponse,
     Conn!SeesShutdown, Clients!SeesShutdown, Conn!Leaves, Clients!Leaves
<1>5. \A c : /\ Conn!Connects(c) <=> Clients!Connects(c)
             /\ Conn!WriteSettles(c) <=> Clients!WriteSettles(c)
             /\ Conn!ReadsText(c) <=> Clients!ReadsText(c)
             /\ Conn!ReadsPing(c) <=> Clients!ReadsPing(c)
             /\ Conn!ReadsClose(c) <=> Clients!ReadsClose(c)
             /\ Conn!ReadsOther(c) <=> Clients!ReadsOther(c)
             /\ Conn!ReadFails(c) <=> Clients!ReadFails(c)
             /\ Conn!PeerVanishes(c) <=> Clients!PeerVanishes(c)
  BY DEF Conn!Connects, Clients!Connects, Conn!WriteSettles, Clients!WriteSettles,
     Conn!WriteEnds, Clients!WriteEnds, Conn!WriteFails, Clients!WriteFails,
     Conn!ReadsText, Clients!ReadsText, Conn!ReadsPing, Clients!ReadsPing, Conn!ReadsClose,
     Clients!ReadsClose, Conn!ReadsOther, Clients!ReadsOther, Conn!ReadFails, Clients!ReadFails,
     Conn!PeerVanishes, Clients!PeerVanishes
<1>6. Conn!Next <=> Clients!Next
  BY <1>2, <1>3, <1>4, <1>5 DEF Conn!Next, Clients!Next
<1>7. UNCHANGED Conn!vars <=> UNCHANGED Clients!vars
  BY DEF Conn!vars, Clients!vars
<1> QED
  BY <1>1, <1>6, <1>7

\* The AttachmentPipeline that AttachmentPipelineProofs is about is the one in Server.
LEMMA SameLinks ==
  /\ Pipe!Init <=> Links!Init
  /\ [Pipe!Next]_(Pipe!vars) <=> [Links!Next]_(Links!vars)
  /\ Pipe!TypeOK <=> Links!TypeOK
<1>1. Pipe!vars = Links!vars /\ (Pipe!Init <=> Links!Init) /\ (Pipe!TypeOK <=> Links!TypeOK)
  BY DEF Pipe!vars, Links!vars, Pipe!Init, Links!Init, Pipe!TypeOK, Links!TypeOK,
     Pipe!Link, Links!Link
<1> USE DEF Pipe!Polling, Links!Polling, Pipe!Outstanding, Links!Outstanding,
            Pipe!LinksOf, Links!LinksOf
<1>2. /\ Pipe!Shutdown <=> Links!Shutdown
      /\ \A k : Pipe!TakeMsg(k) <=> Links!TakeMsg(k)
  BY DEF Pipe!Shutdown, Links!Shutdown, Pipe!TakeMsg, Links!TakeMsg
<1>3. Pipe!ManagerRuns <=> Links!ManagerRuns
  BY DEF Pipe!ManagerRuns, Links!ManagerRuns, Pipe!SendLink, Links!SendLink,
     Pipe!GotAttachment, Links!GotAttachment, Pipe!ManagerBreaks, Links!ManagerBreaks,
     Pipe!ManagerStops, Links!ManagerStops
<1>4. (Pipe!TaskRuns <=> Links!TaskRuns) /\ (Pipe!HeadAnswered <=> Links!HeadAnswered)
  BY DEF Pipe!TaskRuns, Links!TaskRuns, Pipe!TakeLink, Links!TakeLink, Pipe!SendResult,
     Links!SendResult, Pipe!TaskStops, Links!TaskStops, Pipe!HeadAnswered, Links!HeadAnswered
<1>5. Pipe!Next <=> Links!Next
  BY <1>2, <1>3, <1>4 DEF Pipe!Next, Links!Next
<1>6. UNCHANGED Pipe!vars <=> UNCHANGED Links!vars
  BY DEF Pipe!vars, Links!vars
<1> QED
  BY <1>1, <1>5, <1>6

\* What the manager and one client have under way stays in order, with the
\* attachment manager and the listener at work.
LEMMA ClientsKept == Spec => [](Clients!TypeOK /\ Clients!Orderly)
<1>1. Init => Clients!TypeOK /\ Clients!Orderly
  BY SameClients, Clients!TypeInit, Clients!OrderInit, ServerAssumption
     DEF Init, Clients!QueueAssumption
<1>2. Clients!TypeOK /\ Clients!Orderly /\ [Next]_vars => (Clients!TypeOK /\ Clients!Orderly)'
  BY ConnStep, SameClients, Clients!TypeNext, Clients!OrderNext, ServerAssumption
     DEF Clients!QueueAssumption
<1> QED
  BY <1>1, <1>2, PTL DEF Spec

LinksInv == Links!TypeOK /\ Links!WorkloadBounded /\ Links!PipelineOrdered

\* The links under way stay within the workload and in order, with clients
\* that come and go and the listener at work.
LEMMA LinksKept == Spec => []LinksInv
<1>1. Init => LinksInv
  BY SameLinks, Links!TypeInit, Links!WorkloadInit, Links!OrderInit, ServerAssumption
     DEF Init, LinksInv, Links!CapacityAssumption
<1>2. LinksInv /\ [Next]_vars => LinksInv'
  BY PipeStep, SameLinks, Links!TypeNext, Links!WorkloadNext, Links!OrderNext,
     ServerAssumption DEF LinksInv, Links!CapacityAssumption
<1> QED
  BY <1>1, <1>2, PTL DEF Spec

\* Every variable of the whole server keeps its type, the capacities of all
\* queues included, for any clients, capacities and loads.
THEOREM ServerTypes == Spec => []TypeOK
<1> DEFINE ListenerType == listener \in {"Accepting", "Joining", "Returned"}
                           /\ spawned \in [Client -> {"No", "Handshake", "Client", "Failed"}]
<1>1. Init => ListenerType
  BY DEF Init
<1>2. ListenerType /\ [Next]_vars => ListenerType'
  BY DEF Next, vars, listVars, Shutdown, AcceptsSocket, HandshakeEnds, HandshakeDone,
     HandshakeFails, ListenerRuns, ListenerBreaks, ListenerReturns, ManagerRuns, TracksClients,
     Commands, Checks, Announces, Delivers, SendsLink, Breaks, Stops, AttachmentsRun,
     HeadAnswered, ClientRuns, PeerActs, WriteSettles
<1>3. Conn!TypeOK /\ Pipe!TypeOK /\ ListenerType => TypeOK
  BY DEF TypeOK
<1>4. Clients!TypeOK /\ LinksInv => Conn!TypeOK /\ Pipe!TypeOK
  BY SameClients, SameLinks DEF LinksInv
<1> QED
  BY <1>1, <1>2, <1>3, <1>4, ClientsKept, LinksKept, PTL DEF Spec

\* The manager of the whole server never handles a command of a client it has
\* forgotten, forgets all clients but lost ones, and a client it forgets has no
\* command under way, though it also waits for the attachment manager.
THEOREM ServerKeepsClients ==
  Spec => /\ []Conn!CommandsOfKnownClients /\ []Conn!OnlyLostPeersLeak
          /\ Conn!ForgottenForGood
<1>1. Clients!TypeOK /\ Clients!Orderly => Conn!CommandsOfKnownClients /\ Conn!OnlyLostPeersLeak
  BY Clients!OrderKnows, Clients!OrderLeaks, ServerAssumption
     DEF Clients!QueueAssumption, Clients!CommandsOfKnownClients, Conn!CommandsOfKnownClients,
         Clients!OnlyLostPeersLeak, Conn!OnlyLostPeersLeak
<1> DEFINE Forgets(c) ==
      c \in known /\ c \notin known' /\ manager' # "Stopped" =>
        /\ \A i \in DOMAIN inbox' : inbox'[i].client = c => inbox'[i].kind = "Disconnected"
        /\ ~(task'[c] \in {"Running", "Writing"} /\ socket'[c] = "Open")
<1>2. Clients!TypeOK /\ Clients!Orderly /\ [Next]_vars => [\A c \in Client : Forgets(c)]_(Conn!vars)
  BY ConnStep, SameClients, Clients!OrderSilent, ServerAssumption
     DEF Clients!QueueAssumption, Clients!Silent, Clients!vars, Conn!vars
<1> QED
  BY <1>1, <1>2, ClientsKept, PTL DEF Spec, Conn!ForgottenForGood

\* In the whole server too the manager and the attachment manager do not wait
\* for each other under the workloads that AttachmentPipeline names, and store
\* attachments in order, though the manager also waits for clients.
THEOREM ServerKeepsLinks ==
  Spec => [](Pipe!NoCircularWait /\ Pipe!AttachmentsInOrder)
<1>1. LinksInv => Pipe!NoCircularWait /\ Pipe!AttachmentsInOrder
  BY Links!WorkloadFits, Links!WorkloadJoins, Links!OrderStored, ServerAssumption
     DEF LinksInv, Links!CapacityAssumption, Pipe!NoCircularWait,
         Links!LinksNotStuck, Pipe!LinksNotStuck,
         Links!JoinNotStuck, Pipe!JoinNotStuck, Links!AttachmentsInOrder,
         Pipe!AttachmentsInOrder, Links!Before, Pipe!Before
<1> QED
  BY <1>1, LinksKept, PTL

\* Through AttachmentPipeline, the whole server does with the links what History
\* takes for granted.
THEOREM ServerImplementsAnswers == Spec => Links!AnswersImplemented
<1>1. Init => Links!Answers!Init
  BY SameLinks, Links!AnswersInit, ServerAssumption DEF Init, Links!CapacityAssumption
<1>2. LinksInv /\ LinksInv' /\ [Next]_vars => [Links!Answers!Runs]_(Links!Answers!vars)
  BY PipeStep, SameLinks, Links!AnswersStep, ServerAssumption DEF LinksInv, Links!CapacityAssumption
<1> QED
  BY <1>1, <1>2, LinksKept, PTL DEF Spec, Links!AnswersImplemented

-----------------------------------------------------------------------------
(* Who waits for whom                                                      *)

\* The manager writes only to clients whose task has started.
LEMMA ClientsReached == Spec => []Clients!Reached
<1>1. Init => Clients!Reached
  BY SameClients, Clients!ReachedInit, ServerAssumption DEF Init, Clients!QueueAssumption
<1>2. Clients!TypeOK /\ Clients!Orderly /\ Clients!Reached /\ [Next]_vars => Clients!Reached'
  BY ConnStep, SameClients, Clients!ReachedNext, ServerAssumption DEF Clients!QueueAssumption
<1> QED
  BY <1>1, <1>2, ClientsKept, PTL DEF Spec

\* Only a signal makes a loop end; the manager leaves its loop with nothing left
\* to send; and a handshake that succeeds starts a task.
Waiting ==
  /\ listener # "Accepting" => shutdown
  /\ manager # "Working" => shutdown /\ sends = <<>> /\ pending = <<>>
  /\ attTask = "Stopped" => shutdown
  /\ \A c \in Client : spawned[c] = "Client" => task[c] # "New"

LEMMA WaitingNext == Returning /\ Waiting /\ [Next]_vars => Waiting'
<1> SUFFICES ASSUME Returning, Waiting, [Next]_vars PROVE Waiting'
  OBVIOUS
<1>1. task \in [Client -> Tasks] /\ spawned \in [Client -> Kinds]
  BY DEF Returning
<1> USE DEF Waiting
<1>2. ASSUME NEW c \in Client, ClientRuns(c) \/ PeerActs(c) \/ WriteSettles(c)
      PROVE  Waiting'
  <2>1. UNCHANGED <<shutdown, sends>>
    <3>1. CASE ClientRuns(c)
      BY <3>1 DEF ClientRuns, Conn!TaskRuns, Conn!TakesResponse, Conn!SeesShutdown,
         Conn!Leaves
    <3>2. CASE PeerActs(c)
      BY <3>2 DEF PeerActs, Conn!ReadsText, Conn!ReadsPing, Conn!ReadsClose, Conn!ReadsOther,
         Conn!ReadFails, Conn!PeerVanishes
    <3>3. CASE WriteSettles(c)
      BY <3>3 DEF WriteSettles, Conn!WriteSettles, Conn!WriteEnds, Conn!WriteFails
    <3> QED
      BY <1>2, <3>1, <3>2, <3>3
  <2> QED
    BY <1>1, <1>2, <2>1, ClientTask DEF pipeVars, listVars
<1>3. CASE Shutdown
  BY <1>3 DEF Shutdown, Conn!Shutdown, Pipe!Shutdown, listVars
<1>4. ASSUME \/ TracksClients \/ Commands \/ Checks \/ Announces \/ Delivers \/ SendsLink
             \/ Breaks \/ Stops
      PROVE  Waiting'
  <2>1. CASE TracksClients
    BY <2>1 DEF TracksClients, Pipe!Polling, Conn!Accepts, Conn!Forgets, pipeVars, listVars
  <2>2. CASE Commands
    BY <2>2 DEF Commands, Pipe!Polling, Conn!Handles, Pipe!TakeMsg, pipeVars, listVars
  <2>3. CASE Checks \/ Announces
    BY <2>3 DEF Checks, Announces, Pipe!Polling, Conn!Speaks, Pipe!GotAttachment, pipeVars,
       listVars
  <2>4. CASE Delivers \/ SendsLink
    BY <2>4 DEF Delivers, SendsLink, Conn!Delivers, Pipe!SendLink, pipeVars, connVars, listVars
  <2>5. CASE Breaks
    BY <2>5 DEF Breaks, Conn!Breaks, Conn!Idle, Pipe!ManagerBreaks, Pipe!Polling, listVars
  <2>6. CASE Stops
    BY <1>1, <2>6 DEF Stops, Conn!Stops, Pipe!ManagerStops, listVars, Tasks, Conn!TaskState
  <2> QED
    BY <1>4, <2>1, <2>2, <2>3, <2>4, <2>5, <2>6
<1>5. CASE AttachmentsRun \/ HeadAnswered
  BY <1>5 DEF AttachmentsRun, HeadAnswered, Pipe!TaskRuns, Pipe!TakeLink, Pipe!SendResult,
     Pipe!TaskStops, Pipe!HeadAnswered, connVars, listVars
<1>6. CASE ListenerRuns
  BY <1>6 DEF ListenerRuns, ListenerBreaks, ListenerReturns, connVars, pipeVars
<1>7. ASSUME NEW c \in Client, AcceptsSocket(c) \/ HandshakeFails(c) PROVE Waiting'
  BY <1>1, <1>7 DEF AcceptsSocket, HandshakeFails, connVars, pipeVars, Kinds
<1>8. ASSUME NEW c \in Client, HandshakeDone(c) PROVE Waiting'
  BY <1>1, <1>8 DEF HandshakeDone, Conn!Connects, Conn!Send, Conn!End, pipeVars, Kinds, Tasks,
     Conn!TaskState
<1>9. CASE UNCHANGED vars
  BY <1>9 DEF vars, connVars, pipeVars, listVars
<1> QED
  BY <1>2, <1>3, <1>4, <1>5, <1>6, <1>7, <1>8, <1>9 DEF Next, ManagerRuns, HandshakeEnds

Waits == Returning /\ Waiting /\ TypeOK /\ Clients!Orderly /\ Clients!Reached

LEMMA WaitsKept == Spec => []Waits
<1>1. Init => Returning /\ Waiting
  BY DEF Init, Conn!Init, Pipe!Init, Returning, Waiting, Over, Tasks, Conn!TaskState, Kinds
<1> QED
  BY <1>1, ReturningNext, WaitingNext, ServerTypes, ClientsKept, ClientsReached, PTL
     DEF Spec, Waits

\* What a task that has room for all it sends waits for.
LEMMA WaitsOfAttachments ==
  ASSUME TypeOK, ~AttachmentsMove
  PROVE  \/ ResultWaits
         \/ attTask = "Asking"
         \/ attTask = "Stopped"
         \/ attTask = "Idle" /\ urlQueue = <<>> /\ inHand = <<>> /\ ~shutdown
<1>1. /\ attTask \in {"Idle", "Asking", "Sending", "Stopped"} /\ inHand \in Seq(Pipe!Link)
      /\ attachQueue \in Seq(Pipe!Link) /\ Len(attachQueue) <= AttCap
      /\ Len(inHand) = IF attTask \in {"Asking", "Sending"} THEN 1 ELSE 0
  BY DEF TypeOK, Pipe!TypeOK
<1>2. CASE attTask = "Idle"
  BY <1>1, <1>2 DEF AttachmentsMove
<1>3. CASE attTask = "Sending"
  BY <1>1, <1>3, ServerAssumption DEF AttachmentsMove, ResultWaits
<1> QED
  BY <1>1, <1>2, <1>3 DEF AttachmentsMove

\* A client task that does not move waits for the manager, for its peer to read, or
\* for something to do.
LEMMA WaitsOfClient ==
  ASSUME Waits, NEW c \in Client, ~TaskMoves(c), ~Conn!Blocked(c)
  PROVE  \/ Conn!Writing(c)
         \/ /\ task[c] \in {"New", "Running", "Ended"} /\ queue[c] = <<>>
            /\ task[c] = "Running" => ~shutdown
<1>1. task[c] \in Conn!TaskState
  BY DEF Waits, TypeOK, Conn!TypeOK
<1> QED
  BY <1>1 DEF TaskMoves, Waits, Clients!Reached, Conn!TaskState, Conn!Writing

LEMMA WaitsKnown == Waits => OnlyKnownWaits
<1> SUFFICES ASSUME Waits, Stuck
             PROVE  \/ ClientCycle \/ LinkCycle \/ JoinCycle
                    \/ AnswerWait \/ WriteWait \/ JoinAllWait
                    \/ listener = "Returned" \/ AtRest
  BY DEF OnlyKnownWaits
<1>1. /\ ~ManagerMoves /\ ~AttachmentsMove /\ ~ListenerMoves /\ TypeOK
      /\ \A c \in Client : ~TaskMoves(c)
  BY DEF Stuck, Waits
<1>2. CASE sends # <<>>
  <2> DEFINE c == Head(sends).to
  <2>1. c \in Client /\ task[c] # "New"
    <3>1. sends \in Seq(Clients!Pending)
      BY <1>1 DEF TypeOK, Conn!TypeOK, Clients!Pending, Conn!Response, Clients!Response
    <3>2. 1 \in DOMAIN sends /\ Head(sends) = sends[1] /\ sends[1] \in Clients!Pending
      BY <1>2, <3>1
    <3> QED
      BY <3>2 DEF Waits, Clients!Reached, Clients!Pending
  <2>2. task[c] # "Ended" /\ ~(Len(queue[c]) < ClientCap)
    BY <1>1, <1>2 DEF ManagerMoves
  <2>3. Len(queue[c]) = ClientCap
    BY <1>1, <2>1, <2>2, ServerAssumption DEF TypeOK, Conn!TypeOK
  <2>4. queue[c] # <<>>
    BY <2>3, ServerAssumption
  <2>5. Conn!Blocked(c) \/ Conn!Writing(c)
    BY <1>1, <2>1, <2>4, WaitsOfClient
  <2> QED
    BY <1>2, <2>3, <2>5 DEF ClientCycle, WriteWait
<1>3. CASE sends = <<>> /\ pending # <<>>
  <2>1. attTask # "Stopped" /\ ~(Len(urlQueue) < UrlCap)
    BY <1>1, <1>3 DEF ManagerMoves
  <2>2. Len(urlQueue) = UrlCap /\ urlQueue # <<>>
    BY <1>1, <2>1, ServerAssumption DEF TypeOK, Pipe!TypeOK
  <2> QED
    BY <1>1, <1>3, <2>1, <2>2, WaitsOfAttachments DEF LinkCycle, AnswerWait
<1>4. CASE sends = <<>> /\ pending = <<>> /\ manager = "Working"
  <2>1. inbox = <<>> /\ attachQueue = <<>> /\ ~shutdown
    BY <1>1, <1>4 DEF ManagerMoves
  <2>2. ~ResultWaits /\ attTask # "Stopped"
    BY <2>1, ServerAssumption DEF ResultWaits, Waits, Waiting
  <2>3. \A c \in Client : ~Conn!Blocked(c)
    BY <2>1 DEF Conn!Blocked
  <2>4. attTask = "Asking" \/ (attTask = "Idle" /\ Pipe!Outstanding = 0)
    BY <1>1, <1>4, <2>1, <2>2, WaitsOfAttachments DEF Pipe!Outstanding
  <2> QED
    BY <1>1, <1>4, <2>1, <2>2, <2>3, <2>4, WaitsOfAttachments, WaitsOfClient
       DEF AtRest, Waits, Waiting
<1>5. CASE sends = <<>> /\ pending = <<>> /\ manager = "Joining"
  BY <1>1, <1>5, WaitsOfAttachments DEF ManagerMoves, JoinCycle, AnswerWait, Waits, Waiting
<1>6. CASE manager = "Stopped"
  <2>1. shutdown /\ inbox = <<>>
    BY <1>6 DEF Waits, Waiting, Clients!Orderly, Clients!Silence
  <2>2. \A c \in Client : Conn!Writing(c) \/ task[c] \in {"New", "Ended"}
    BY <1>1, <2>1, WaitsOfClient DEF Conn!Blocked
  <2>3. \A c \in Client : spawned[c] = "Handshake" \/ Conn!Writing(c) \/ Over(c)
    BY <2>2 DEF Over, Waits, Waiting
  <2>4. attTask = "Stopped"
    BY <1>6 DEF Waits, Returning
  <2> QED
    BY <1>1, <1>6, <2>1, <2>3, <2>4 DEF ListenerMoves, JoinAllWait, TypeOK
<1> QED
  BY <1>1, <1>2, <1>3, <1>4, <1>5, <1>6 DEF TypeOK, Conn!TypeOK, Waits, Waiting

\* However many clients there are and whatever the capacities of the queues: when
\* no task of the server can move, the manager and a client wait for each other,
\* or the manager and the attachment manager do, in one of two ways, or the
\* manager waits for a web server or for a peer that does not read, or join_all for
\* nothing but silent peers, or server::start has returned, or all that is left is
\* what its peers have to read.
THEOREM ServerWaits == Spec => []OnlyKnownWaits
  BY WaitsKept, WaitsKnown, PTL

\* With room in the queue of the manager and few enough links under way, a server
\* where no task can move has returned or is at rest, or a silent web server or a
\* silent peer holds it up, in one of three ways.
THEOREM LightServerNeverStuck ==
  Spec => [](Stuck /\ workload <= AttCap /\ (\A c \in Client : ~Conn!Blocked(c)) =>
               \/ listener = "Returned" \/ AtRest
               \/ AnswerWait \/ WriteWait \/ JoinAllWait)
<1> DEFINE Light == workload <= AttCap /\ \A c \in Client : ~Conn!Blocked(c)
<1>1. ASSUME Waits, OnlyKnownWaits, Pipe!NoCircularWait, Stuck, Light
      PROVE  listener = "Returned" \/ AtRest \/ AnswerWait \/ WriteWait \/ JoinAllWait
  <2>1. ~LinkCycle
    <3>1. workload \in Nat /\ workload <= UrlCap + AttCap + 1
      BY <1>1, ServerAssumption DEF Waits, TypeOK, Pipe!TypeOK
    <3> QED
      BY <1>1, <3>1 DEF LinkCycle, ResultWaits, Pipe!NoCircularWait, Pipe!LinksNotStuck
  <2>2. ~JoinCycle
    BY <1>1 DEF JoinCycle, ResultWaits, Pipe!NoCircularWait, Pipe!JoinNotStuck
  <2>3. ~ClientCycle
    <3>1. sends # <<>> => Head(sends).to \in Client
      <4>1. sends \in Seq(Clients!Pending)
        BY <1>1 DEF Waits, TypeOK, Conn!TypeOK, Clients!Pending, Conn!Response, Clients!Response
      <4>2. sends # <<>> => Head(sends) \in Clients!Pending
        BY <4>1
      <4> QED
        BY <4>2 DEF Clients!Pending
    <3> QED
      BY <1>1, <3>1 DEF ClientCycle
  <2> QED
    BY <1>1, <2>1, <2>2, <2>3 DEF OnlyKnownWaits
<1> QED
  BY <1>1, WaitsKept, ServerWaits, ServerKeepsLinks, PTL

-----------------------------------------------------------------------------
(* The circular waits are for ever                                         *)

\* A message that waits for room goes on waiting while the manager takes none.
LEMMA StaysBlocked ==
  ASSUME inbox \in Seq(Conn!Message), NEW c \in Client, Conn!Blocked(c),
         \/ inbox' = inbox
         \/ \E m \in Conn!Message : inbox' = Append(inbox, m)
  PROVE  Conn!Blocked(c)'
<1>1. PICK i \in DOMAIN inbox : i > ManagerCap /\ inbox[i].client = c
  BY DEF Conn!Blocked
<1>2. i \in DOMAIN inbox' /\ inbox'[i] = inbox[i]
  BY <1>1
<1> QED
  BY <1>1, <1>2 DEF Conn!Blocked

LEMMA ClientCycleLasts == Waits /\ ClientCycle /\ [Next]_vars => ClientCycle'
<1> SUFFICES ASSUME Waits, ClientCycle, [Next]_vars PROVE ClientCycle'
  OBVIOUS
<1>1. PICK c \in Client : c = Head(sends).to /\ task[c] # "New"
  <2>1. sends \in Seq(Clients!Pending) /\ sends # <<>>
    BY DEF ClientCycle, Waits, TypeOK, Conn!TypeOK, Clients!Pending, Conn!Response,
       Clients!Response
  <2>2. 1 \in DOMAIN sends /\ Head(sends) = sends[1] /\ sends[1] \in Clients!Pending
    BY <2>1
  <2> QED
    BY <2>2 DEF Waits, Clients!Reached, Clients!Pending
<1>2. /\ sends # <<>> /\ Len(queue[c]) = ClientCap /\ Conn!Blocked(c)
      /\ manager = "Working" /\ ClientCap \in Nat \ {0}
      /\ inbox \in Seq(Conn!Message) /\ queue \in [Client -> Seq(Conn!Response)]
  BY <1>1, ServerAssumption DEF ClientCycle, Waits, Waiting, TypeOK, Conn!TypeOK
<1>3. task[c] # "Ended"
  BY <1>2 DEF Waits, Clients!Reached
<1> DEFINE Kept == queue'[c] = queue[c]
           Told == inbox' = inbox \/ \E m \in Conn!Message : inbox' = Append(inbox, m)
<1>4. sends' = sends /\ Kept /\ Told
  <2>1. CASE Conn!ManagerRuns \/ Conn!Speaks \/ Conn!Shutdown \/ UNCHANGED Conn!vars
    BY <1>1, <1>2, <1>3, <2>1 DEF Conn!ManagerRuns, Conn!Accepts, Conn!Handles, Conn!Forgets,
       Conn!Delivers, Conn!Breaks, Conn!Stops, Conn!Speaks, Conn!Idle, Conn!Shutdown, Conn!vars
  <2>2. ASSUME NEW d \in Client, NEW kind \in {"NewConnection", "NewData", "Disconnected"},
               NEW next, Conn!Send(d, kind, next)
        PROVE  Kept /\ Told
    BY <1>2, <2>2 DEF Conn!Send, Conn!Message
  <2>3. ASSUME NEW d \in Client, d # c, Conn!End(d) PROVE Kept
    BY <1>2, <2>3 DEF Conn!End
  <2> HIDE DEF Kept, Told
  <2>4. ASSUME NEW d \in Client, Conn!Connects(d) \/ Conn!PeerVanishes(d)
        PROVE  sends' = sends /\ Kept /\ Told
    <3>1. CASE Conn!Connects(d)
      BY <2>2, <3>1 DEF Conn!Connects
    <3>2. CASE Conn!PeerVanishes(d)
      BY <3>2 DEF Conn!PeerVanishes, Kept, Told
    <3> QED
      BY <2>4, <3>1, <3>2
  <2>5. ASSUME NEW d \in Client,
               \/ Conn!ReadsText(d) \/ Conn!ReadsClose(d) \/ Conn!ReadsOther(d)
               \/ Conn!ReadFails(d)
        PROVE  sends' = sends /\ Kept /\ Told
    BY <2>2, <2>5 DEF Conn!ReadsText, Conn!ReadsClose, Conn!ReadsOther, Conn!ReadFails
  <2>6. ASSUME NEW d \in Client, Conn!SeesShutdown(d) \/ Conn!ReadsPing(d)
        PROVE  sends' = sends /\ Kept /\ Told
    BY <2>6 DEF Conn!SeesShutdown, Conn!ReadsPing, Kept, Told
  <2>7. ASSUME NEW d \in Client,
               \/ Conn!TakesResponse(d) \/ Conn!Leaves(d)
               \/ Conn!WriteEnds(d) \/ Conn!WriteFails(d)
        PROVE  sends' = sends /\ Kept /\ Told
    <3>1. d # c
      BY <1>2, <2>7 DEF Conn!TakesResponse, Conn!Leaves, Conn!WriteEnds, Conn!WriteFails,
         Conn!Polling, Conn!Writing
    <3>2. CASE Conn!TakesResponse(d)
      BY <1>2, <3>1, <3>2 DEF Conn!TakesResponse, Kept, Told
    <3>3. CASE Conn!Leaves(d)
      BY <2>3, <3>1, <3>3 DEF Conn!Leaves, Told
    <3>4. CASE Conn!WriteEnds(d)
      <4>1. CASE UNCHANGED <<queue, inbox>>
        BY <3>4, <4>1 DEF Conn!WriteEnds, Kept, Told
      <4>2. CASE Conn!Send(d, "Disconnected", "Leaving")
        BY <2>2, <3>4, <4>2 DEF Conn!WriteEnds
      <4> QED
        BY <3>4, <4>1, <4>2 DEF Conn!WriteEnds
    <3>5. CASE Conn!WriteFails(d)
      BY <2>3, <3>1, <3>5 DEF Conn!WriteFails, Told
    <3> QED
      BY <2>7, <3>2, <3>3, <3>4, <3>5
  <2> QED
    BY <2>1, <2>4, <2>5, <2>6, <2>7, ConnStep DEF Conn!Next, Conn!TaskRuns, Conn!WriteSettles
<1>5. Conn!Blocked(c)'
  BY <1>2, <1>4, StaysBlocked
<1>6. Len(queue'[c]) = ClientCap
  BY <1>2, <1>4
<1> QED
  BY <1>1, <1>2, <1>4, <1>5, <1>6 DEF ClientCycle

LEMMA LinkCyclesLast ==
  TypeOK /\ [Next]_vars => (LinkCycle => LinkCycle') /\ (JoinCycle => JoinCycle')
<1> SUFFICES ASSUME TypeOK, [Pipe!Next]_(Pipe!vars)
             PROVE  (LinkCycle => LinkCycle') /\ (JoinCycle => JoinCycle')
  BY PipeStep
<1> USE ServerAssumption DEF LinkCycle, JoinCycle, ResultWaits
<1>1. CASE Pipe!Shutdown \/ \E k \in 0..MaxOutstanding : Pipe!TakeMsg(k)
  BY <1>1 DEF Pipe!Shutdown, Pipe!TakeMsg, Pipe!Polling
<1>2. CASE Pipe!ManagerRuns
  BY <1>2 DEF Pipe!ManagerRuns, Pipe!SendLink, Pipe!GotAttachment, Pipe!ManagerBreaks,
     Pipe!ManagerStops, Pipe!Polling
<1>3. CASE Pipe!TaskRuns \/ Pipe!HeadAnswered
  BY <1>3 DEF Pipe!TaskRuns, Pipe!TakeLink, Pipe!SendResult, Pipe!TaskStops, Pipe!HeadAnswered
<1>4. CASE UNCHANGED Pipe!vars
  BY <1>4 DEF Pipe!vars
<1> QED
  BY <1>1, <1>2, <1>3, <1>4 DEF Pipe!Next

\* The three circular waits are for ever, whatever the peers, the web servers, the
\* timer and a signal do, and a server in one of them never returns from start.
THEOREM CircularWaitsLast ==
  Spec => [](/\ ClientCycle => [](ClientCycle /\ listener # "Returned")
             /\ LinkCycle => [](LinkCycle /\ listener # "Returned")
             /\ JoinCycle => [](JoinCycle /\ listener # "Returned"))
<1>1. Waits /\ [Next]_vars => /\ ClientCycle => ClientCycle'
                              /\ LinkCycle => LinkCycle'
                              /\ JoinCycle => JoinCycle'
  BY ClientCycleLasts, LinkCyclesLast DEF Waits
<1>2. Waits /\ (ClientCycle \/ LinkCycle \/ JoinCycle) => listener # "Returned"
  BY DEF Waits, Returning, Waiting, ClientCycle, LinkCycle, JoinCycle
<1> QED
  BY <1>1, <1>2, WaitsKept, PTL DEF Spec

-----------------------------------------------------------------------------
(* A peer that does not read                                               *)

\* A client that waits for its peer is not made to wait for the manager by others.
LEMMA StaysWriting ==
  ASSUME inbox \in Seq(Conn!Message), NEW c \in Client, Conn!Writing(c), task'[c] = task[c],
         \/ inbox' = inbox
         \/ \E m \in Conn!Message : m.client # c /\ inbox' = Append(inbox, m)
  PROVE  Conn!Writing(c)'
<1>1. ASSUME NEW i \in DOMAIN inbox', i > ManagerCap, inbox'[i].client = c PROVE FALSE
  <2>1. i \in DOMAIN inbox /\ inbox'[i] = inbox[i]
    BY <1>1
  <2> QED
    BY <1>1, <2>1 DEF Conn!Writing, Conn!Blocked
<1>2. ~Conn!Blocked(c)'
  BY <1>1, Zenon DEF Conn!Blocked
<1> QED
  BY <1>2 DEF Conn!Writing

LEMMA WriteWaitLasts ==
  ASSUME Waits, WriteWait, [Next]_vars
  PROVE  WriteWait' \/ Conn!WriteSettles(Head(sends).to)
<1>1. PICK c : c = Head(sends).to
  OBVIOUS
<1>2. c \in Client
  <2>1. sends \in Seq(Clients!Pending) /\ sends # <<>>
    BY DEF WriteWait, Waits, TypeOK, Conn!TypeOK, Clients!Pending, Conn!Response,
       Clients!Response
  <2>2. Head(sends) \in Clients!Pending
    BY <2>1
  <2> QED
    BY <1>1, <2>2 DEF Clients!Pending
<1>3. /\ sends # <<>> /\ Len(queue[c]) = ClientCap /\ Conn!Writing(c)
      /\ manager = "Working" /\ ClientCap \in Nat \ {0}
      /\ task[c] \in {"Writing", "Closing", "Parting"} /\ ~Conn!Blocked(c)
      /\ inbox \in Seq(Conn!Message) /\ queue \in [Client -> Seq(Conn!Response)]
      /\ task \in [Client -> Conn!TaskState]
  BY <1>1, ServerAssumption
     DEF WriteWait, Waits, Waiting, TypeOK, Conn!TypeOK, Conn!Writing
<1> DEFINE Kept == task'[c] = task[c] /\ queue'[c] = queue[c]
           Told == \/ inbox' = inbox
                   \/ \E m \in Conn!Message : m.client # c /\ inbox' = Append(inbox, m)
<1>4. ASSUME ~Conn!WriteSettles(c) PROVE sends' = sends /\ Kept /\ Told
  <2>1. CASE Conn!ManagerRuns \/ Conn!Speaks \/ Conn!Shutdown \/ UNCHANGED Conn!vars
    BY <1>1, <1>2, <1>3, <2>1 DEF Conn!ManagerRuns, Conn!Accepts, Conn!Handles, Conn!Forgets,
       Conn!Delivers, Conn!Breaks, Conn!Stops, Conn!Speaks, Conn!Idle, Conn!Shutdown, Conn!vars
  <2>2. ASSUME NEW d \in Client, NEW kind \in {"NewConnection", "NewData", "Disconnected"},
               NEW next, d # c, Conn!Send(d, kind, next)
        PROVE  Kept /\ Told
    BY <1>2, <1>3, <2>2 DEF Conn!Send, Conn!Message
  <2>3. ASSUME NEW d \in Client, d # c, Conn!End(d) PROVE Kept
    BY <1>2, <1>3, <2>3 DEF Conn!End
  <2> HIDE DEF Kept, Told
  <2>4. ASSUME NEW d \in Client, Conn!PeerVanishes(d) PROVE sends' = sends /\ Kept /\ Told
    BY <2>4 DEF Conn!PeerVanishes, Kept, Told
  <2>5. ASSUME NEW d \in Client,
               \/ Conn!Connects(d) \/ Conn!ReadsText(d) \/ Conn!ReadsPing(d)
               \/ Conn!ReadsClose(d) \/ Conn!ReadsOther(d) \/ Conn!ReadFails(d)
               \/ Conn!TakesResponse(d) \/ Conn!SeesShutdown(d) \/ Conn!Leaves(d)
               \/ Conn!WriteSettles(d)
        PROVE  sends' = sends /\ Kept /\ Told
    <3>1. d # c
      BY <1>3, <1>4, <2>5 DEF Conn!Connects, Conn!ReadsText, Conn!ReadsPing, Conn!ReadsClose,
         Conn!ReadsOther, Conn!ReadFails, Conn!TakesResponse, Conn!SeesShutdown, Conn!Leaves,
         Conn!Polling
    <3>2. CASE \/ Conn!Connects(d) \/ Conn!ReadsText(d) \/ Conn!ReadsClose(d)
               \/ Conn!ReadsOther(d) \/ Conn!ReadFails(d)
      BY <2>2, <3>1, <3>2 DEF Conn!Connects, Conn!ReadsText, Conn!ReadsClose, Conn!ReadsOther,
         Conn!ReadFails
    <3>3. CASE Conn!ReadsPing(d) \/ Conn!SeesShutdown(d) \/ Conn!TakesResponse(d)
      BY <1>2, <1>3, <3>1, <3>3 DEF Conn!ReadsPing, Conn!SeesShutdown, Conn!TakesResponse,
         Kept, Told
    <3>4. CASE Conn!Leaves(d) \/ Conn!WriteFails(d)
      BY <2>3, <3>1, <3>4 DEF Conn!Leaves, Conn!WriteFails, Told
    <3>5. CASE Conn!WriteEnds(d)
      <4>1. CASE task' = [task EXCEPT ![d] = "Running"] /\ UNCHANGED <<queue, inbox>>
        BY <1>2, <1>3, <3>1, <3>5, <4>1 DEF Conn!WriteEnds, Kept, Told
      <4>2. CASE Conn!Send(d, "Disconnected", "Leaving")
        BY <2>2, <3>1, <3>5, <4>2 DEF Conn!WriteEnds
      <4> QED
        BY <3>5, <4>1, <4>2 DEF Conn!WriteEnds
    <3> QED
      BY <2>5, <3>2, <3>3, <3>4, <3>5 DEF Conn!WriteSettles
  <2> QED
    BY <2>1, <2>4, <2>5, ConnStep DEF Conn!Next, Conn!TaskRuns
<1>5. ASSUME ~Conn!WriteSettles(c) PROVE WriteWait'
  <2>1. sends' = sends /\ Kept /\ Told
    BY <1>4, <1>5
  <2>2. Conn!Writing(c)'
    <3>1. Conn!Writing(c) /\ task'[c] = task[c] /\ inbox \in Seq(Conn!Message)
      BY <1>3, <2>1
    <3>2. Told
      BY <2>1
    <3> QED
      BY <1>2, <3>1, <3>2, StaysWriting
  <2>3. Len(queue'[c]) = ClientCap
    BY <1>3, <2>1
  <2> QED
    BY <1>1, <1>3, <2>1, <2>2, <2>3 DEF WriteWait
<1> QED
  BY <1>1, <1>5

\* A manager that waits for a peer to read waits until that very peer reads, or is
\* found lost: no timer, no signal and nothing another client does ends the wait.
THEOREM OnlyThePeerEndsWriteWait ==
  Spec => [][WriteWait => WriteWait' \/ Conn!WriteSettles(Head(sends).to)]_vars
  BY WaitsKept, WriteWaitLasts, PTL DEF Spec

-----------------------------------------------------------------------------
(* The shutdown                                                            *)

\* In the whole server too, once the manager has left its loop, the links and the
\* two tasks they go through are done with after a bounded number of steps.
THEOREM ServerShutdownIsShort ==
  Spec => /\ [](manager # "Working" => Links!Rest \in 0..3 * UrlCap + 4)
          /\ [][manager # "Working" => Links!Rest' < Links!Rest]_(Pipe!vars)
<1>1. Init => Links!Leaving
  BY DEF Init, Pipe!Init, Links!Leaving
<1>2. Links!Leaving /\ [Next]_vars => Links!Leaving'
  BY PipeStep, SameLinks, Links!LeavingNext, ServerAssumption DEF Links!CapacityAssumption
<1>3. LinksInv => (manager # "Working" => Links!Rest \in 0..3 * UrlCap + 4)
  BY Links!RestBounded, ServerAssumption DEF LinksInv, Links!CapacityAssumption
<1>4. LinksInv /\ Links!Leaving /\ [Next]_vars =>
        [manager # "Working" => Links!Rest' < Links!Rest]_(Pipe!vars)
  <2> SUFFICES ASSUME LinksInv, Links!Leaving, [Next]_vars, ~UNCHANGED Pipe!vars,
                      manager # "Working"
               PROVE  Links!Rest' < Links!Rest
    OBVIOUS
  <2>1. Links!Next
    BY PipeStep, SameLinks DEF Pipe!vars, Links!vars
  <2> QED
    BY <2>1, Links!RestFalls, ServerAssumption DEF LinksInv, Links!CapacityAssumption
<1> QED
  BY <1>1, <1>2, <1>3, <1>4, LinksKept, PTL DEF Spec

=============================================================================
