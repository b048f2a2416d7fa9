--------------------------- MODULE ConnectionProofs ---------------------------
(***************************************************************************)
(* Proofs about Connection, for any clients, any capacities of the queues  *)
(* and any number of events: first types, then the order in which the      *)
(* messages of one client reach the manager.                               *)
(***************************************************************************)
EXTENDS Connection, TLAPS

Pending == [to : Client, what : Response]

-----------------------------------------------------------------------------
(* Sequences                                                               *)

\* Taking the head off a queue.
LEMMA HeadTail ==
  ASSUME NEW S, NEW s \in Seq(S), s # <<>>
  PROVE  /\ Head(s) \in S /\ Tail(s) \in Seq(S)
         /\ Len(Tail(s)) = Len(s) - 1 /\ Len(s) \in Nat \ {0}
  OBVIOUS

\* Putting something into a queue.
LEMMA AppendType ==
  ASSUME NEW S, NEW s \in Seq(S), NEW e \in S
  PROVE  Append(s, e) \in Seq(S) /\ Len(Append(s, e)) = Len(s) + 1
  OBVIOUS

\* The empty queue.
LEMMA EmptyType == ASSUME NEW S PROVE <<>> \in Seq(S) /\ Len(<<>>) = 0
  OBVIOUS

-----------------------------------------------------------------------------
(* Types                                                                   *)

\* A queue of each client, within its capacity.
QueueType(q) == q \in [Client -> Seq(Response)] /\ \A c \in Client : Len(q[c]) <= ClientCap

\* The queues stay in their capacity when one of them is replaced by a sequence
\* that does.
LEMMA QueueChange ==
  ASSUME QueueType(queue), NEW c \in Client, NEW s \in Seq(Response), Len(s) <= ClientCap
  PROVE  QueueType([queue EXCEPT ![c] = s])
  BY DEF QueueType

\* A task that ends leaves well-typed queues behind.
LEMMA EndType ==
  ASSUME TypeOK, NEW c \in Client, End(c)
  PROVE  /\ task' \in [Client -> TaskState]
         /\ QueueType(queue')
<1>1. QueueType([queue EXCEPT ![c] = <<>>])
  BY EmptyType, QueueChange, QueueAssumption DEF TypeOK, QueueType
<1> QED
  BY <1>1 DEF TypeOK, TaskState, End

\* What a client sends to the manager.
LEMMA SendType ==
  ASSUME TypeOK, NEW c \in Client,
         NEW kind \in {"NewConnection", "NewData", "Disconnected"},
         NEW next \in {"Running", "Closing", "Leaving"},
         Send(c, kind, next)
  PROVE  /\ task' \in [Client -> TaskState]
         /\ QueueType(queue')
         /\ inbox' \in Seq(Message)
<1>1. [kind |-> kind, client |-> c] \in Message
  BY DEF Message
<1>2. CASE manager # "Stopped"
  <2>1. /\ inbox' = Append(inbox, [kind |-> kind, client |-> c])
        /\ task' = [task EXCEPT ![c] = next] /\ queue' = queue
    BY <1>2 DEF Send
  <2>2. inbox' \in Seq(Message)
    BY <1>1, <2>1, AppendType DEF TypeOK
  <2> QED
    BY <2>1, <2>2 DEF TypeOK, TaskState, QueueType
<1>3. CASE manager = "Stopped"
  BY <1>3, EndType DEF TypeOK, Send
<1> QED
  BY <1>2, <1>3

\* What a handler writes, and a Disconnect after it.
LEMMA WritesType ==
  ASSUME NEW C \in SUBSET Client, NEW what \in Response, NEW texts \in Writes(C, what)
  PROVE  texts \in Seq(Pending)
<1>1. PICK s \in UNION {[1..n -> C] : n \in 0..MaxTexts} :
        texts = [i \in DOMAIN s |-> [to |-> s[i], what |-> what]]
  BY DEF Writes
<1>2. PICK n \in 0..MaxTexts : s \in [1..n -> C]
  BY <1>1
<1>3. n \in Nat
  BY <1>2, QueueAssumption
<1>4. texts \in [1..n -> Pending]
  BY <1>1, <1>2 DEF Pending
<1> QED
  BY <1>3, <1>4

\* The initial state has the types.
LEMMA TypeInit == Init => TypeOK
<1> SUFFICES ASSUME Init PROVE TypeOK
  OBVIOUS
<1>1. inbox \in Seq(Message) /\ sends \in Seq(Pending)
  BY EmptyType DEF Init
<1>2. QueueType(queue)
  BY EmptyType, QueueAssumption DEF Init, QueueType
<1> QED
  BY <1>1, <1>2 DEF Init, TypeOK, TaskState, QueueType, Pending

\* The steps of a client task, and its peer, keep the types.
LEMMA ClientTypes ==
  ASSUME TypeOK, NEW c \in Client,
         \/ TaskRuns(c) \/ Connects(c) \/ WriteSettles(c)
         \/ ReadsText(c) \/ ReadsPing(c) \/ ReadsClose(c) \/ ReadsOther(c) \/ ReadFails(c)
         \/ PeerVanishes(c)
  PROVE  TypeOK'
<1>1. CASE TakesResponse(c)
  <2>1. queue[c] \in Seq(Response) /\ queue[c] # <<>>
    BY <1>1 DEF TypeOK, TakesResponse
  <2>2. Tail(queue[c]) \in Seq(Response) /\ Len(Tail(queue[c])) <= ClientCap
    BY <2>1, HeadTail, QueueAssumption DEF TypeOK
  <2>3. QueueType([queue EXCEPT ![c] = Tail(queue[c])])
    BY <2>2, QueueChange DEF TypeOK, QueueType
  <2> QED
    BY <1>1, <2>3 DEF TypeOK, TaskState, QueueType, TakesResponse
<1>2. CASE SeesShutdown(c)
  BY <1>2 DEF TypeOK, TaskState, SeesShutdown
<1>3. CASE WriteEnds(c)
  <2>1. CASE task' = [task EXCEPT ![c] = "Running"] /\ UNCHANGED <<queue, inbox>>
    BY <1>3, <2>1 DEF TypeOK, TaskState, WriteEnds
  <2>2. CASE Send(c, "Disconnected", "Leaving")
    BY <1>3, <2>2, SendType DEF TypeOK, QueueType, WriteEnds
  <2> QED
    BY <1>3, <2>1, <2>2 DEF WriteEnds
<1>4. CASE WriteFails(c)
  BY <1>4, EndType DEF TypeOK, QueueType, WriteFails
<1>5. CASE Leaves(c)
  BY <1>5, EndType DEF TypeOK, QueueType, Leaves
<1>6. CASE Connects(c)
  BY <1>6, SendType DEF TypeOK, QueueType, Connects
<1>7. CASE ReadsText(c)
  BY <1>7, SendType DEF TypeOK, QueueType, ReadsText
<1>8. CASE ReadsClose(c)
  BY <1>8, SendType DEF TypeOK, QueueType, ReadsClose
<1>9. CASE ReadsOther(c)
  BY <1>9, SendType DEF TypeOK, QueueType, ReadsOther
<1>10. CASE ReadFails(c)
  BY <1>10, SendType DEF TypeOK, QueueType, ReadFails
<1>11. CASE ReadsPing(c)
  BY <1>11 DEF TypeOK, TaskState, ReadsPing
<1>12. CASE PeerVanishes(c)
  BY <1>12 DEF TypeOK, PeerVanishes
<1> QED
  BY <1>1, <1>2, <1>3, <1>4, <1>5, <1>6, <1>7, <1>8, <1>9, <1>10, <1>11, <1>12
     DEF TaskRuns, WriteSettles

\* The steps of the manager keep the types.
LEMMA ManagerTypes ==
  ASSUME TypeOK, ManagerRuns \/ Speaks \/ Shutdown
  PROVE  TypeOK'
<1>1. inbox # <<>> => Head(inbox) \in Message /\ Tail(inbox) \in Seq(Message)
  BY HeadTail DEF TypeOK
<1>2. \A m \in Message : m.client \in Client
  BY DEF Message
<1>3. CASE Accepts
  BY <1>1, <1>2, <1>3 DEF TypeOK, Accepts
<1>4. CASE Handles
  <2>1. PICK texts \in Writes(known, "Text") :
          \/ sends' = texts
          \/ sends' = Append(texts, [to |-> Head(inbox).client, what |-> "Disconnect"])
    BY <1>4 DEF Handles
  <2>2. texts \in Seq(Pending)
    BY WritesType DEF TypeOK, Response
  <2>3. [to |-> Head(inbox).client, what |-> "Disconnect"] \in Pending
    BY <1>1, <1>2, <1>4 DEF Handles, Pending, Response
  <2>4. sends' \in Seq(Pending)
    BY <2>1, <2>2, <2>3, AppendType
  <2> QED
    BY <1>1, <1>4, <2>4 DEF TypeOK, Handles, Pending
<1>5. CASE Forgets
  <2>1. known' \in SUBSET Client
    BY <1>5 DEF TypeOK, Forgets
  <2>2. sends' \in Seq(Pending)
    BY <1>5, <2>1, WritesType DEF Forgets, Response
  <2> QED
    BY <1>1, <1>5, <2>1, <2>2 DEF TypeOK, Forgets, Pending
<1>6. CASE Delivers
  <2>1. sends # <<>> /\ sends \in Seq(Pending)
    BY <1>6 DEF TypeOK, Delivers, Pending
  <2>2. Head(sends) \in Pending /\ Tail(sends) \in Seq(Pending)
    BY <2>1, HeadTail
  <2>3. Head(sends).to \in Client /\ Head(sends).what \in Response
    BY <2>2 DEF Pending
  <2>4. QueueType(queue')
    <3> DEFINE c == Head(sends).to
    <3>1. CASE UNCHANGED queue
      BY <3>1 DEF TypeOK, QueueType
    <3>2. CASE /\ Len(queue[c]) < ClientCap
               /\ queue' = [queue EXCEPT ![c] = Append(@, Head(sends).what)]
      <4>1. queue[c] \in Seq(Response)
        BY <2>3 DEF TypeOK
      <4>2. /\ Append(queue[c], Head(sends).what) \in Seq(Response)
            /\ Len(Append(queue[c], Head(sends).what)) <= ClientCap
        BY <2>3, <3>2, <4>1, AppendType, QueueAssumption
      <4>3. QueueType([queue EXCEPT ![c] = Append(queue[c], Head(sends).what)])
        BY <2>3, <4>2, QueueChange DEF TypeOK, QueueType
      <4> QED
        BY <3>2, <4>3
    <3> QED
      BY <1>6, <3>1, <3>2 DEF Delivers
  <2> QED
    BY <1>6, <2>2, <2>4 DEF TypeOK, QueueType, Delivers, Pending
<1>7. CASE Breaks
  BY <1>7 DEF TypeOK, Breaks
<1>8. CASE Stops
  <2>1. QueueType(queue')
    BY <1>8, EmptyType, QueueAssumption DEF TypeOK, QueueType, Stops
  <2>2. inbox' \in Seq(Message)
    BY <1>8, EmptyType DEF Stops
  <2> QED
    BY <1>8, <2>1, <2>2 DEF TypeOK, TaskState, QueueType, Stops
<1>9. CASE Speaks
  <2>1. sends' \in Seq(Pending)
    BY <1>9, WritesType DEF TypeOK, Speaks, Response
  <2> QED
    BY <1>9, <2>1 DEF TypeOK, Speaks, Pending
<1>10. CASE Shutdown
  BY <1>10 DEF TypeOK, Shutdown
<1> QED
  BY <1>3, <1>4, <1>5, <1>6, <1>7, <1>8, <1>9, <1>10 DEF ManagerRuns

\* Every step keeps the types.
LEMMA TypeNext == TypeOK /\ [Next]_vars => TypeOK'
<1>1. TypeOK /\ UNCHANGED vars => TypeOK'
  BY DEF TypeOK, vars
<1> QED
  BY <1>1, ClientTypes, ManagerTypes DEF Next

\* Every variable keeps its type and the queue of no client outgrows its
\* capacity.
THEOREM ConnectionTypes == Spec => []TypeOK
  BY TypeInit, TypeNext, PTL DEF Spec

-----------------------------------------------------------------------------
(* The order of the messages of one client                                 *)

\* The places of the messages of a kind that c has under way.
Sent(c, kind) == {i \in DOMAIN inbox : inbox[i].client = c /\ inbox[i].kind = kind}

\* NewConnection comes first, when the manager does not know the client yet.
FirstConnects(c) ==
  \A i \in Sent(c, "NewConnection") :
    c \notin known /\ \A j \in DOMAIN inbox : inbox[j].client = c => i <= j

\* NewData comes after NewConnection and before Disconnected.
ThenSpeaks(c) ==
  \A i \in Sent(c, "NewData") :
    /\ c \in known \/ \E j \in Sent(c, "NewConnection") : j < i
    /\ \A j \in Sent(c, "Disconnected") : i < j

\* A task that has not connected has sent nothing, and read no Close frame.
BeforeConnecting(c) ==
  task[c] = "New" =>
    c \notin known /\ socket[c] # "Closed" /\ \A i \in DOMAIN inbox : inbox[i].client # c

\* A loop that has a frame to read, or will have, is that of a client that has
\* connected and not said that it leaves.
WhileSpeaking(c) ==
  task[c] \in {"Running", "Writing"} /\ socket[c] = "Open" /\ manager # "Stopped" =>
    /\ c \in known \/ Sent(c, "NewConnection") # {}
    /\ Sent(c, "Disconnected") = {}

\* c is in its loop, or writes a Close frame before it says that it leaves.
Staying(c) == task[c] \in {"Running", "Writing", "Parting"} /\ socket[c] = "Open"

\* A client the manager knows, or is going to, is in its loop or on its way out,
\* or has said that it leaves, or is lost.
LeavingTold(c) ==
  /\ task[c] = "Closing" => socket[c] # "Open"
  /\ socket[c] # "Gone" /\ (c \in known \/ Sent(c, "NewConnection") # {}) =>
       Staying(c) \/ Sent(c, "Disconnected") # {}

\* A manager that has stopped knows no client and has no queue.
Silence == manager = "Stopped" => known = {} /\ inbox = <<>>

InOrder(c) ==
  /\ FirstConnects(c) /\ ThenSpeaks(c)
  /\ BeforeConnecting(c) /\ WhileSpeaking(c) /\ LeavingTold(c)

Orderly == Silence /\ \A c \in Client : InOrder(c)

\* What is under way after a message is sent.
LEMMA AfterSend ==
  ASSUME TypeOK, NEW c \in Client, NEW kind \in {"NewConnection", "NewData", "Disconnected"},
         inbox' = Append(inbox, [kind |-> kind, client |-> c])
  PROVE  /\ Len(inbox) \in Nat
         /\ DOMAIN inbox = 1..Len(inbox) /\ DOMAIN inbox' = 1..(Len(inbox) + 1)
         /\ \A i \in DOMAIN inbox : inbox'[i] = inbox[i]
         /\ inbox'[Len(inbox) + 1].client = c
         /\ \A d \in Client, k \in {"NewConnection", "NewData", "Disconnected"} :
              Sent(d, k)' = Sent(d, k) \cup (IF d = c /\ k = kind THEN {Len(inbox) + 1} ELSE {})
<1> DEFINE m == [kind |-> kind, client |-> c]
<1>1. inbox \in Seq(Message) /\ m \in Message
  BY DEF TypeOK, Message
<1>2. /\ Len(inbox) \in Nat
      /\ DOMAIN inbox = 1..Len(inbox) /\ DOMAIN inbox' = 1..(Len(inbox) + 1)
      /\ \A i \in DOMAIN inbox : inbox'[i] = inbox[i]
      /\ inbox'[Len(inbox) + 1] = m
  BY <1>1
<1>3. ASSUME NEW d \in Client, NEW k \in {"NewConnection", "NewData", "Disconnected"}
      PROVE  Sent(d, k)' = Sent(d, k) \cup (IF d = c /\ k = kind THEN {Len(inbox) + 1} ELSE {})
  <2>1. ASSUME NEW i
        PROVE  i \in Sent(d, k)' <=>
                 i \in Sent(d, k) \/ (i = Len(inbox) + 1 /\ d = c /\ k = kind)
    <3>1. CASE i \in DOMAIN inbox
      BY <1>2, <3>1 DEF Sent
    <3>2. CASE i = Len(inbox) + 1
      BY <1>2, <3>2 DEF Sent
    <3>3. CASE i \notin DOMAIN inbox'
      BY <1>2, <3>3 DEF Sent
    <3> QED
      BY <1>2, <3>1, <3>2, <3>3
  <2> QED
    BY <2>1
<1> QED
  BY <1>2, <1>3

\* What is under way after the manager takes a message.
LEMMA AfterTake ==
  ASSUME TypeOK, inbox # <<>>, inbox' = Tail(inbox)
  PROVE  /\ Head(inbox) = inbox[1] /\ 1 \in DOMAIN inbox /\ inbox[1] \in Message
         /\ DOMAIN inbox \subseteq Nat \ {0} /\ DOMAIN inbox' \subseteq Nat \ {0}
         /\ \A i \in DOMAIN inbox' : i + 1 \in DOMAIN inbox /\ inbox'[i] = inbox[i + 1]
         /\ \A i \in DOMAIN inbox : i # 1 => i - 1 \in DOMAIN inbox' /\ inbox'[i - 1] = inbox[i]
<1>1. inbox \in Seq(Message) /\ Len(inbox) \in Nat \ {0}
  BY HeadTail DEF TypeOK
<1>2. /\ DOMAIN inbox = 1..Len(inbox) /\ DOMAIN inbox' = 1..(Len(inbox) - 1)
      /\ \A i \in 1..(Len(inbox) - 1) : inbox'[i] = inbox[i + 1]
  BY <1>1
<1>3. \A i \in 1..Len(inbox) : inbox[i] \in Message
  BY <1>1
<1> QED
  BY <1>1, <1>2, <1>3

\* Steps that leave the queue and the manager's table alone, and neither start a
\* loop nor end one but of a lost client.
LEMMA OrderKept ==
  ASSUME Orderly, UNCHANGED <<inbox, known>>,
         manager' = "Stopped" <=> manager = "Stopped",
         \A d \in Client :
           /\ task'[d] = "New" => task[d] = "New"
           /\ task'[d] = "Closing" => task[d] = "Closing"
           /\ \/ socket'[d] = socket[d] \/ socket'[d] = "Gone"
              \/ /\ socket[d] = "Open" /\ socket'[d] = "Closed"
                 /\ manager = "Stopped" /\ task'[d] # "New"
           /\ task'[d] \in {"Running", "Writing"} /\ socket'[d] = "Open" =>
                task[d] \in {"Running", "Writing"}
           /\ task[d] \in {"Running", "Writing", "Parting"} /\ socket'[d] = "Open" =>
                task'[d] \in {"Running", "Writing", "Parting"} \/ manager = "Stopped"
  PROVE  Orderly'
<1>1. Silence'
  BY DEF Orderly, Silence
<1>2. ASSUME NEW d \in Client
      PROVE  InOrder(d)'
  <2>1. InOrder(d)
    BY DEF Orderly
  <2>2. \A k : Sent(d, k)' = Sent(d, k)
    BY DEF Sent
  <2>3. manager = "Stopped" => d \notin known /\ Sent(d, "NewConnection") = {}
    BY DEF Orderly, Silence, Sent
  <2>4. FirstConnects(d)' /\ ThenSpeaks(d)'
    BY <2>1, <2>2 DEF InOrder, FirstConnects, ThenSpeaks
  <2>5. BeforeConnecting(d)'
    BY <2>1 DEF InOrder, BeforeConnecting
  <2>6. WhileSpeaking(d)'
    BY <2>1, <2>2 DEF InOrder, WhileSpeaking
  <2>7. LeavingTold(d)'
    BY <2>1, <2>2, <2>3 DEF InOrder, LeavingTold, Staying
  <2> QED
    BY <2>4, <2>5, <2>6, <2>7 DEF InOrder
<1> QED
  BY <1>1, <1>2 DEF Orderly

\* A client sends to the manager: NewConnection before all else, NewData while
\* it speaks, Disconnected when it stops speaking.
LEMMA OrderSent ==
  ASSUME TypeOK, Orderly, NEW c \in Client,
         NEW kind \in {"NewConnection", "NewData", "Disconnected"},
         inbox' = Append(inbox, [kind |-> kind, client |-> c]),
         manager # "Stopped", UNCHANGED <<manager, known>>,
         \A d \in Client \ {c} : task'[d] = task[d] /\ socket'[d] = socket[d],
         socket'[c] = "Open" => socket[c] = "Open",
         socket[c] = "Gone" => socket'[c] = "Gone",
         \/ /\ kind = "NewConnection" /\ socket'[c] = socket[c]
            /\ task[c] = "New" /\ task'[c] = "Running"
         \/ /\ kind = "NewData" /\ socket[c] = "Open" /\ socket'[c] = "Open"
            /\ task[c] = "Running" /\ task'[c] = "Running"
         \/ kind = "Disconnected" /\ task'[c] = "Leaving" /\ task[c] \in {"Running", "Parting"}
         \/ /\ kind = "Disconnected" /\ task'[c] = "Closing" /\ socket'[c] = "Closed"
            /\ task[c] = "Running"
  PROVE  Orderly'
<1>1. Silence'
  BY DEF Silence
<1>2. ASSUME NEW d \in Client
      PROVE  InOrder(d)'
  <2>1. InOrder(d)
    BY DEF Orderly
  <2>2. \A k \in {"NewConnection", "NewData", "Disconnected"} :
          Sent(d, k)' = Sent(d, k) \cup (IF d = c /\ k = kind THEN {Len(inbox) + 1} ELSE {})
    <3>1. \A e \in Client, k \in {"NewConnection", "NewData", "Disconnected"} :
            Sent(e, k)' = Sent(e, k) \cup (IF e = c /\ k = kind THEN {Len(inbox) + 1} ELSE {})
      BY AfterSend, ZenonT(30)
    <3> QED
      BY <1>2, <3>1, Zenon
  <2>3. \A k : Sent(d, k) \subseteq 1..Len(inbox)
    BY AfterSend DEF Sent
  <2>4. Len(inbox) \in Nat
    BY AfterSend
  <2>5. FirstConnects(d)'
    BY <2>1, <2>2, <2>3, <2>4, AfterSend DEF InOrder, FirstConnects, BeforeConnecting
  <2>6. ThenSpeaks(d)'
    BY <2>1, <2>2, <2>3, <2>4 DEF InOrder, ThenSpeaks, WhileSpeaking
  <2>7. BeforeConnecting(d)'
    BY <2>1, AfterSend DEF InOrder, BeforeConnecting
  <2>8. WhileSpeaking(d)'
    BY <2>1, <2>2 DEF InOrder, WhileSpeaking, BeforeConnecting, Sent
  <2>9. LeavingTold(d)'
    BY <2>1, <2>2 DEF InOrder, LeavingTold, Staying, BeforeConnecting, TypeOK
  <2> QED
    BY <2>5, <2>6, <2>7, <2>8, <2>9 DEF InOrder
<1> QED
  BY <1>1, <1>2 DEF Orderly

\* The manager takes the first message, and learns of the client or forgets it.
LEMMA OrderTaken ==
  ASSUME TypeOK, Orderly, inbox # <<>>, inbox' = Tail(inbox), manager = "Working",
         UNCHANGED <<manager, task, socket>>,
         \/ Head(inbox).kind = "NewConnection" /\ known' = known \cup {Head(inbox).client}
         \/ Head(inbox).kind = "NewData" /\ known' = known
         \/ Head(inbox).kind = "Disconnected" /\ known' = known \ {Head(inbox).client}
  PROVE  Orderly'
<1>1. Silence'
  BY DEF Silence
<1>2. ASSUME NEW d \in Client
      PROVE  InOrder(d)'
  <2>1. InOrder(d)
    BY DEF Orderly
  <2>2. \A k : \A i \in Sent(d, k)' : i \in Nat \ {0} /\ i + 1 \in Sent(d, k)
    BY AfterTake DEF Sent
  <2>3. \A k : \A i \in Sent(d, k) : i = 1 \/ (i - 1 \in Sent(d, k)' /\ i \in Nat \ {0})
    BY AfterTake DEF Sent
  <2>4. \A k : 1 \in Sent(d, k) <=> Head(inbox).client = d /\ Head(inbox).kind = k
    BY AfterTake DEF Sent
  <2>5. FirstConnects(d)'
    BY <2>1, <2>2, AfterTake DEF InOrder, FirstConnects
  <2>6. ThenSpeaks(d)'
    <3> SUFFICES ASSUME NEW i \in Sent(d, "NewData")'
                 PROVE  /\ d \in known' \/ \E j \in Sent(d, "NewConnection")' : j < i
                        /\ \A j \in Sent(d, "Disconnected")' : i < j
      BY DEF ThenSpeaks
    <3>1. i \in Nat \ {0} /\ i + 1 \in Sent(d, "NewData")
      BY <2>2
    <3>2. \A j \in Sent(d, "Disconnected") : i + 1 < j
      BY <2>1, <3>1 DEF InOrder, ThenSpeaks
    <3>3. \A j \in Sent(d, "Disconnected")' : i < j
      <4> SUFFICES ASSUME NEW j \in Sent(d, "Disconnected")' PROVE i < j
        OBVIOUS
      <4>1. j \in Nat /\ j + 1 \in Sent(d, "Disconnected")
        BY <2>2, Zenon
      <4>2. i + 1 < j + 1
        BY <3>2, <4>1, Zenon
      <4> QED
        BY <3>1, <4>1, <4>2
    <3>4. 1 \notin Sent(d, "Disconnected")
      BY <3>1, <3>2
    <3>5. CASE d \in known
      BY <2>4, <3>3, <3>4, <3>5
    <3>6. CASE \E j \in Sent(d, "NewConnection") : j < i + 1
      <4>1. PICK j \in Sent(d, "NewConnection") : j < i + 1
        BY <3>6
      <4>2. CASE j = 1
        BY <2>4, <3>3, <4>1, <4>2
      <4>3. CASE j - 1 \in Sent(d, "NewConnection")' /\ j \in Nat \ {0}
        <5>1. j - 1 < i
          BY <3>1, <4>1, <4>3
        <5> QED
          BY <3>3, <4>3, <5>1
      <4> QED
        BY <2>3, <4>2, <4>3
    <3> QED
      BY <2>1, <3>1, <3>5, <3>6 DEF InOrder, ThenSpeaks
  <2>7. BeforeConnecting(d)'
    BY <2>1, AfterTake DEF InOrder, BeforeConnecting
  <2>8. WhileSpeaking(d)'
    BY <2>1, <2>2, <2>3, <2>4 DEF InOrder, WhileSpeaking
  <2>9. LeavingTold(d)'
    <3> DEFINE Going == Sent(d, "Disconnected") # {}
    <3>1. LeavingTold(d)
      BY <2>1 DEF InOrder
    <3>2. CASE Head(inbox).client = d /\ Head(inbox).kind = "Disconnected"
      <4>1. \A i \in Sent(d, "NewConnection") : i <= 1
        BY <2>1, <3>2, AfterTake DEF InOrder, FirstConnects
      <4>2. Sent(d, "NewConnection")' = {}
        BY <2>2, <4>1
      <4>3. d \notin known'
        BY <3>2
      <4> QED
        BY <3>1, <4>2, <4>3 DEF LeavingTold, Staying
    <3>3. CASE ~(Head(inbox).client = d /\ Head(inbox).kind = "Disconnected")
      <4>1. Going => Going'
        <5>1. 1 \notin Sent(d, "Disconnected")
          BY <2>4, <3>3, Zenon
        <5>2. \A i \in Sent(d, "Disconnected") : i = 1 \/ i - 1 \in Sent(d, "Disconnected")'
          BY <2>3, Zenon
        <5> QED
          BY <5>1, <5>2
      <4>2. Sent(d, "NewConnection")' # {} => Sent(d, "NewConnection") # {}
        BY <2>2
      <4>3. d \in known' => d \in known \/ 1 \in Sent(d, "NewConnection")
        BY <2>4
      <4> QED
        BY <3>1, <4>1, <4>2, <4>3 DEF LeavingTold, Staying
    <3> QED
      BY <3>2, <3>3
  <2> QED
    BY <2>5, <2>6, <2>7, <2>8, <2>9 DEF InOrder
<1> QED
  BY <1>1, <1>2 DEF Orderly

\* A task that ends without a word: the peer is lost, or it has said all, or the
\* manager has stopped.
LEMMA EndKept ==
  ASSUME TypeOK, Orderly, NEW c \in Client, End(c),
         UNCHANGED <<inbox, manager, known>>,
         \A d \in Client \ {c} : socket'[d] = socket[d],
         \/ socket'[c] = socket[c]
         \/ socket[c] = "Open" /\ socket'[c] = "Closed" /\ manager = "Stopped",
         \/ socket[c] # "Open" \/ manager = "Stopped"
         \/ task[c] \notin {"Running", "Writing", "Parting"}
  PROVE  Orderly'
<1>1. \A d \in Client : task'[d] = IF d = c THEN "Ended" ELSE task[d]
  BY DEF TypeOK, End
<1>2. \A d \in Client :
        /\ task'[d] = "New" => task[d] = "New"
        /\ task'[d] = "Closing" => task[d] = "Closing"
        /\ \/ socket'[d] = socket[d] \/ socket'[d] = "Gone"
           \/ /\ socket[d] = "Open" /\ socket'[d] = "Closed"
              /\ manager = "Stopped" /\ task'[d] # "New"
  BY <1>1
<1>3. \A d \in Client :
        /\ task'[d] \in {"Running", "Writing"} => task[d] \in {"Running", "Writing"}
        /\ task[d] \in {"Running", "Writing", "Parting"} /\ socket'[d] = "Open" =>
             task'[d] \in {"Running", "Writing", "Parting"} \/ manager = "Stopped"
  BY <1>1
<1> QED
  BY <1>2, <1>3, OrderKept

\* Send keeps the order where OrderSent says what may be sent when.
LEMMA SendKept ==
  ASSUME TypeOK, Orderly, NEW c \in Client,
         NEW kind \in {"NewConnection", "NewData", "Disconnected"},
         NEW next \in {"Running", "Closing", "Leaving"},
         Send(c, kind, next),
         UNCHANGED <<manager, known>>,
         \A d \in Client \ {c} : socket'[d] = socket[d],
         \/ socket'[c] = socket[c]
         \/ socket[c] = "Open" /\ socket'[c] = "Closed",
         \/ /\ kind = "NewConnection" /\ socket'[c] = socket[c]
            /\ task[c] = "New" /\ next = "Running"
         \/ /\ kind = "NewData" /\ socket[c] = "Open" /\ socket'[c] = "Open"
            /\ task[c] = "Running" /\ next = "Running"
         \/ kind = "Disconnected" /\ next = "Leaving" /\ task[c] \in {"Running", "Parting"}
         \/ /\ kind = "Disconnected" /\ next = "Closing" /\ socket'[c] = "Closed"
            /\ task[c] = "Running"
  PROVE  Orderly'
<1>1. CASE manager = "Stopped"
  BY <1>1, EndKept DEF Send
<1>2. CASE manager # "Stopped"
  <2>1. \A d \in Client : task'[d] = IF d = c THEN next ELSE task[d]
    BY <1>2 DEF TypeOK, Send
  <2>2. inbox' = Append(inbox, [kind |-> kind, client |-> c])
    BY <1>2 DEF Send
  <2> QED
    BY <1>2, <2>1, <2>2, OrderSent
<1> QED
  BY <1>1, <1>2

\* The initial state is in order.
LEMMA OrderInit == Init => Orderly
  BY DEF Init, Orderly, Silence, InOrder, FirstConnects, ThenSpeaks, BeforeConnecting,
         WhileSpeaking, LeavingTold, Staying, Sent

\* The steps of a client task, and its peer, keep the order.
LEMMA ClientOrder ==
  ASSUME TypeOK, Orderly, NEW c \in Client,
         \/ TaskRuns(c) \/ Connects(c) \/ WriteSettles(c)
         \/ ReadsText(c) \/ ReadsPing(c) \/ ReadsClose(c) \/ ReadsOther(c) \/ ReadFails(c)
         \/ PeerVanishes(c)
  PROVE  Orderly'
<1>1. CASE TakesResponse(c) \/ SeesShutdown(c) \/ ReadsPing(c)
  <2>1. /\ UNCHANGED <<socket, inbox, manager, known>> /\ task[c] = "Running"
        /\ \E t \in {"Writing", "Parting"} : task' = [task EXCEPT ![c] = t]
    BY <1>1 DEF TakesResponse, SeesShutdown, ReadsPing, Polling
  <2>2. \A d \in Client : d # c => task'[d] = task[d]
    BY <2>1 DEF TypeOK
  <2>3. task'[c] \in {"Writing", "Parting"}
    BY <2>1 DEF TypeOK
  <2> QED
    BY <2>1, <2>2, <2>3, OrderKept
<1>2. CASE WriteEnds(c)
  <2>1. CASE task[c] = "Parting"
    BY <1>2, <2>1, SendKept DEF WriteEnds
  <2>2. CASE task[c] # "Parting"
    <3>1. /\ \A d \in Client : task'[d] = IF d = c THEN "Running" ELSE task[d]
          /\ UNCHANGED <<socket, inbox, manager, known>>
      BY <1>2, <2>2 DEF TypeOK, WriteEnds
    <3>2. task[c] = "Writing" \/ (task[c] = "Closing" /\ socket[c] # "Open")
      BY <1>2, <2>2 DEF WriteEnds, Writing, Orderly, InOrder, LeavingTold
    <3> QED
      BY <3>1, <3>2, OrderKept
  <2> QED
    BY <2>1, <2>2
<1>3. CASE WriteFails(c)
  BY <1>3, EndKept DEF WriteFails
<1>4. CASE Leaves(c)
  BY <1>4, EndKept DEF Leaves
<1>5. CASE Connects(c)
  BY <1>5, SendKept DEF Connects
<1>6. CASE ReadsText(c)
  BY <1>6, SendKept DEF ReadsText, Polling
<1>7. CASE ReadsClose(c)
  <2>1. \A d \in Client : socket'[d] = IF d = c THEN "Closed" ELSE socket[d]
    BY <1>7 DEF TypeOK, ReadsClose
  <2> QED
    BY <1>7, <2>1, SendKept DEF ReadsClose, Polling
<1>8. CASE ReadsOther(c)
  BY <1>8, SendKept DEF ReadsOther, Polling
<1>9. CASE ReadFails(c)
  BY <1>9, SendKept DEF ReadFails, Polling
<1>10. CASE PeerVanishes(c)
  <2>1. \A d \in Client : socket'[d] = IF d = c THEN "Gone" ELSE socket[d]
    BY <1>10 DEF TypeOK, PeerVanishes
  <2> QED
    BY <1>10, <2>1, OrderKept DEF PeerVanishes
<1> QED
  BY <1>1, <1>2, <1>3, <1>4, <1>5, <1>6, <1>7, <1>8, <1>9, <1>10
     DEF TaskRuns, WriteSettles

\* The steps of the manager keep the order.
LEMMA ManagerOrder ==
  ASSUME TypeOK, Orderly, ManagerRuns \/ Speaks \/ Shutdown
  PROVE  Orderly'
<1>1. CASE Accepts \/ Handles \/ Forgets
  BY <1>1, OrderTaken DEF Accepts, Handles, Forgets, Idle
<1>2. CASE Delivers \/ Breaks \/ Speaks \/ Shutdown
  <2>1. UNCHANGED <<task, socket, inbox, known>> /\ (manager' = "Stopped" <=> manager = "Stopped")
    BY <1>2 DEF Delivers, Breaks, Speaks, Shutdown, Idle
  <2> QED
    BY <2>1, OrderKept
<1>3. CASE Stops
  <2>1. \A d \in Client : task'[d] = "Ended" \/ task'[d] = task[d]
    BY <1>3 DEF TypeOK, Stops
  <2>2. inbox' = <<>> /\ known' = {} /\ socket' = socket /\ manager' = "Stopped"
    BY <1>3 DEF Stops
  <2>3. \A d \in Client : \A k : Sent(d, k)' = {}
    BY <2>2 DEF Sent
  <2>4. ASSUME NEW d \in Client PROVE InOrder(d)'
    <3>1. FirstConnects(d)' /\ ThenSpeaks(d)' /\ BeforeConnecting(d)' /\ WhileSpeaking(d)'
      BY <2>1, <2>2, <2>3 DEF FirstConnects, ThenSpeaks, BeforeConnecting, WhileSpeaking,
         Orderly, InOrder
    <3>2. LeavingTold(d)'
      BY <2>1, <2>2, <2>3 DEF LeavingTold, Orderly, InOrder
    <3> QED
      BY <3>1, <3>2 DEF InOrder
  <2> QED
    BY <2>2, <2>4 DEF Orderly, Silence
<1> QED
  BY <1>1, <1>2, <1>3 DEF ManagerRuns

\* Every step keeps the order.
LEMMA OrderNext == TypeOK /\ Orderly /\ [Next]_vars => Orderly'
<1>1. Orderly /\ UNCHANGED vars => Orderly'
  BY OrderKept DEF vars
<1> QED
  BY <1>1, ClientOrder, ManagerOrder DEF Next

\* The messages of every client are in order at all times.
LEMMA OrderInvariant == Spec => [](TypeOK /\ Orderly)
  BY TypeInit, TypeNext, OrderInit, OrderNext, PTL DEF Spec

-----------------------------------------------------------------------------
(* What the order implies                                                  *)

\* The client of a command at the head of the queue is known.
LEMMA OrderKnows == TypeOK /\ Orderly => CommandsOfKnownClients
<1> SUFFICES ASSUME TypeOK, Orderly, inbox # <<>>, Head(inbox).kind = "NewData"
             PROVE  Head(inbox).client \in known
  BY DEF CommandsOfKnownClients
<1> DEFINE c == Head(inbox).client
<1>1. Head(inbox) = inbox[1] /\ 1 \in DOMAIN inbox /\ DOMAIN inbox \subseteq Nat \ {0}
  <2>1. inbox \in Seq(Message) /\ Len(inbox) \in Nat \ {0}
    BY HeadTail DEF TypeOK
  <2> QED
    BY <2>1
<1>2. c \in Client /\ 1 \in Sent(c, "NewData")
  <2>1. Head(inbox) \in Message
    BY HeadTail DEF TypeOK
  <2> QED
    BY <1>1, <2>1 DEF Sent, Message
<1>3. c \in known \/ \E j \in Sent(c, "NewConnection") : j < 1
  BY <1>2 DEF Orderly, InOrder, ThenSpeaks
<1> QED
  BY <1>1, <1>3 DEF Sent

\* The manager never handles a command of a client it does not know.
THEOREM NoStrangers == Spec => []CommandsOfKnownClients
  BY OrderKnows, OrderInvariant, PTL

\* A client that ended and of which nothing is under way, but that is known, is lost.
LEMMA OrderLeaks == TypeOK /\ Orderly => OnlyLostPeersLeak
<1> SUFFICES ASSUME TypeOK, Orderly, NEW c \in Client,
                    task[c] = "Ended", c \in known,
                    \A i \in DOMAIN inbox : inbox[i].client # c
             PROVE  socket[c] = "Gone"
  BY DEF OnlyLostPeersLeak
<1>1. Sent(c, "Disconnected") = {}
  BY DEF Sent
<1>2. LeavingTold(c)
  BY DEF Orderly, InOrder
<1> QED
  BY <1>1, <1>2 DEF LeavingTold, Staying

\* Only clients whose peer was lost without a Close frame stay in the table of the
\* manager: it forgets all others, whether they closed, were closed or saw a signal.
THEOREM OnlyLostStay == Spec => []OnlyLostPeersLeak
  BY OrderLeaks, OrderInvariant, PTL

\* After this step c has nothing to say but Disconnected.
Silent(c) ==
  /\ \A i \in DOMAIN inbox' : inbox'[i].client = c => inbox'[i].kind = "Disconnected"
  /\ ~(task'[c] \in {"Running", "Writing"} /\ socket'[c] = "Open")

\* The client a step forgets is silent.
LEMMA OrderSilent ==
  TypeOK /\ Orderly /\ [Next]_vars =>
    [\A c \in Client : c \in known /\ c \notin known' /\ manager' # "Stopped" =>
       Silent(c)]_vars
<1>1. ASSUME TypeOK, Orderly, [Next]_vars,
             NEW c \in Client, c \in known, c \notin known', manager' # "Stopped"
      PROVE  Silent(c)
  <2>1. Forgets
    <3>1. CASE Accepts
      BY <1>1, <3>1 DEF Accepts
    <3>2. CASE Handles \/ Delivers \/ Breaks \/ Stops \/ Speaks \/ Shutdown
      BY <1>1, <3>2 DEF Handles, Delivers, Breaks, Stops, Speaks, Shutdown
    <3>3. ASSUME NEW d \in Client,
                 \/ TaskRuns(d) \/ Connects(d) \/ WriteSettles(d)
                 \/ ReadsText(d) \/ ReadsPing(d) \/ ReadsClose(d) \/ ReadsOther(d)
                 \/ ReadFails(d) \/ PeerVanishes(d)
          PROVE  known' = known
      BY <3>3 DEF TaskRuns, TakesResponse, SeesShutdown, Leaves, WriteSettles, WriteEnds,
            WriteFails, Connects, ReadsText, ReadsPing, ReadsClose, ReadsOther, ReadFails,
            PeerVanishes
    <3>4. CASE UNCHANGED vars
      BY <1>1, <3>4 DEF vars
    <3> QED
      BY <1>1, <3>1, <3>2, <3>3, <3>4 DEF Next, ManagerRuns
  <2>2. /\ inbox # <<>> /\ inbox' = Tail(inbox) /\ UNCHANGED <<task, socket, manager>>
        /\ Head(inbox).kind = "Disconnected" /\ Head(inbox).client = c /\ manager = "Working"
    BY <1>1, <2>1 DEF Forgets, Idle
  <2>3. 1 \in Sent(c, "Disconnected") /\ InOrder(c)
    BY <1>1, <2>2, AfterTake DEF Sent, Orderly
  <2>4. ASSUME NEW i \in DOMAIN inbox', inbox'[i].client = c
        PROVE  inbox'[i].kind = "Disconnected"
    <3>1. i \in Nat \ {0} /\ i + 1 \in DOMAIN inbox /\ inbox'[i] = inbox[i + 1]
      BY <1>1, <2>2, AfterTake
    <3>2. i + 1 \notin Sent(c, "NewConnection")
      BY <2>3, <3>1 DEF InOrder, FirstConnects, Sent
    <3>3. i + 1 \notin Sent(c, "NewData")
      BY <2>3, <3>1 DEF InOrder, ThenSpeaks
    <3>4. inbox[i + 1] \in Message
      BY <1>1, <3>1 DEF TypeOK
    <3>5. inbox[i + 1].kind \in {"NewConnection", "NewData", "Disconnected"}
      BY <3>4 DEF Message
    <3> QED
      BY <2>4, <3>1, <3>2, <3>3, <3>5 DEF Sent
  <2>5. ~(task'[c] \in {"Running", "Writing"} /\ socket'[c] = "Open")
    BY <2>2, <2>3 DEF InOrder, WhileSpeaking
  <2> QED
    BY <2>4, <2>5 DEF Silent
<1> QED
  BY <1>1

\* A client the manager has forgotten sends it no command any more.
THEOREM ForgottenIsSilent == Spec => ForgottenForGood
  BY OrderSilent, OrderInvariant, PTL DEF Spec, ForgottenForGood, Silent

-----------------------------------------------------------------------------
(* Whom the manager writes to                                              *)

\* The manager writes only to clients whose task has started, and the queue of a
\* task that is over is gone with it.
Reached ==
  /\ \A i \in DOMAIN sends : task[sends[i].to] # "New"
  /\ \A c \in Client : task[c] \in {"New", "Ended"} => queue[c] = <<>>

LEMMA ReachedInit == Init => Reached
  BY DEF Init, Reached

\* A handler writes to the clients it was given.
LEMMA WritesTo ==
  ASSUME NEW C \in SUBSET Client, NEW what, NEW texts \in Writes(C, what)
  PROVE  \A i \in DOMAIN texts : texts[i].to \in C
<1>1. PICK s \in UNION {[1..n -> C] : n \in 0..MaxTexts} :
        texts = [i \in DOMAIN s |-> [to |-> s[i], what |-> what]]
  BY DEF Writes
<1>2. PICK n \in 0..MaxTexts : s \in [1..n -> C]
  BY <1>1
<1> QED
  BY <1>1, <1>2

\* A client the manager knows, or has a message of, has a task.
LEMMA OrderStarted ==
  ASSUME TypeOK, Orderly
  PROVE  /\ \A c \in known : task[c] # "New"
         /\ inbox # <<>> => Head(inbox).client \in Client /\ task[Head(inbox).client] # "New"
<1>1. \A c \in known : task[c] # "New"
  BY DEF TypeOK, Orderly, InOrder, BeforeConnecting
<1>2. inbox # <<>> => 1 \in DOMAIN inbox /\ inbox[1] = Head(inbox) /\ Head(inbox) \in Message
  BY HeadTail DEF TypeOK
<1> QED
  BY <1>1, <1>2 DEF Orderly, InOrder, BeforeConnecting, Message

LEMMA ReachedNext == TypeOK /\ Orderly /\ Reached /\ [Next]_vars => Reached'
<1> SUFFICES ASSUME TypeOK, Orderly, Reached, [Next]_vars PROVE Reached'
  OBVIOUS
<1>a. /\ task \in [Client -> TaskState]
      /\ queue \in [Client -> Seq(Response)]
      /\ known \in SUBSET Client /\ sends \in Seq(Pending) /\ inbox \in Seq(Message)
  BY DEF TypeOK, Pending
<1>b. \A i \in DOMAIN sends : sends[i].to \in Client
  <2>1. \A i \in DOMAIN sends : sends[i] \in Pending
    BY <1>a
  <2> QED
    BY <2>1 DEF Pending
<1>1. ASSUME NEW c \in Client, sends' = sends,
             \/ End(c)
             \/ /\ \E t \in TaskState \ {"New", "Ended"} : task' = [task EXCEPT ![c] = t]
                /\ queue' = queue \/ queue' = [queue EXCEPT ![c] = Tail(@)]
      PROVE  Reached'
  <2>1. /\ \A d \in Client : d # c => task'[d] = task[d] /\ queue'[d] = queue[d]
        /\ task'[c] # "New" /\ (task'[c] = "Ended" => queue'[c] = <<>>)
    BY <1>a, <1>1 DEF End, TaskState
  <2>2. \A d \in Client : task[d] # "New" => task'[d] # "New"
    BY <2>1
  <2>3. ASSUME NEW i \in DOMAIN sends PROVE task'[sends[i].to] # "New"
    BY <1>b, <2>2 DEF Reached
  <2>4. \A d \in Client : task'[d] \in {"New", "Ended"} => queue'[d] = <<>>
    BY <2>1 DEF Reached
  <2> QED
    BY <1>1, <2>3, <2>4 DEF Reached
<1>2. ASSUME UNCHANGED <<task, queue>>, \A i \in DOMAIN sends' : task[sends'[i].to] # "New"
      PROVE  Reached'
  BY <1>2 DEF Reached
<1>3. ASSUME NEW c \in Client, TaskRuns(c) \/ WriteSettles(c) PROVE Reached'
  <2>1. CASE TakesResponse(c) \/ SeesShutdown(c)
    BY <1>1, <2>1 DEF TakesResponse, SeesShutdown, TaskState
  <2>2. CASE WriteEnds(c)
    BY <1>1, <2>2 DEF WriteEnds, Send, TaskState
  <2>3. CASE WriteFails(c) \/ Leaves(c)
    BY <1>1, <2>3 DEF WriteFails, Leaves
  <2> QED
    BY <1>3, <2>1, <2>2, <2>3 DEF TaskRuns, WriteSettles
<1>4. ASSUME NEW c \in Client,
             \/ Connects(c) \/ ReadsText(c) \/ ReadsPing(c) \/ ReadsClose(c)
             \/ ReadsOther(c) \/ ReadFails(c) \/ PeerVanishes(c)
      PROVE  Reached'
  <2>1. CASE \/ Connects(c) \/ ReadsText(c) \/ ReadsClose(c) \/ ReadsOther(c) \/ ReadFails(c)
    BY <1>1, <2>1 DEF Connects, ReadsText, ReadsClose, ReadsOther, ReadFails, Send, TaskState
  <2>2. CASE ReadsPing(c)
    BY <1>1, <2>2 DEF ReadsPing, TaskState
  <2>3. CASE PeerVanishes(c)
    BY <1>2, <2>3 DEF PeerVanishes, Reached
  <2> QED
    BY <1>4, <2>1, <2>2, <2>3
<1>5. CASE Handles
  <2>1. PICK texts \in Writes(known, "Text") :
          \/ sends' = texts
          \/ sends' = Append(texts, [to |-> Head(inbox).client, what |-> "Disconnect"])
    BY <1>5 DEF Handles
  <2>2. texts \in Seq(Pending) /\ \A i \in DOMAIN texts : texts[i].to \in known
    BY <1>a, WritesType, WritesTo DEF Response
  <2>3. \A i \in DOMAIN sends' : sends'[i].to \in known \/ sends'[i].to = Head(inbox).client
    BY <2>1, <2>2
  <2> QED
    BY <1>2, <1>5, <2>3, OrderStarted DEF Handles
<1>6. CASE Forgets
  <2>1. known' \in SUBSET Client /\ known' \subseteq known
    BY <1>a, <1>6 DEF Forgets
  <2>2. \A i \in DOMAIN sends' : sends'[i].to \in known
    BY <1>6, <2>1, WritesTo DEF Forgets
  <2> QED
    BY <1>2, <1>6, <2>2, OrderStarted DEF Forgets
<1>7. CASE Speaks
  BY <1>a, <1>2, <1>7, WritesTo, OrderStarted DEF Speaks
<1>8. CASE Accepts \/ Breaks \/ Shutdown
  BY <1>2, <1>8 DEF Accepts, Breaks, Shutdown, Reached
<1>9. CASE Delivers
  <2>1. Head(sends).to \in Client /\ task[Head(sends).to] # "New"
        /\ \A i \in DOMAIN sends' : \E j \in DOMAIN sends : sends'[i] = sends[j]
    <3>1. sends # <<>> /\ sends' = Tail(sends)
      BY <1>9 DEF Delivers
    <3>2. /\ 1 \in DOMAIN sends /\ Head(sends) = sends[1] /\ sends[1] \in Pending
          /\ \A i \in DOMAIN sends' : i + 1 \in DOMAIN sends /\ sends'[i] = sends[i + 1]
      BY <1>a, <3>1
    <3> QED
      BY <3>2 DEF Reached, Pending
  <2>2. /\ UNCHANGED task
        /\ \A d \in Client : task[d] \in {"New", "Ended"} => queue'[d] = queue[d]
    BY <1>a, <1>9, <2>1 DEF Delivers
  <2>3. \A i \in DOMAIN sends' : task'[sends'[i].to] # "New"
    BY <2>1, <2>2 DEF Reached
  <2> QED
    BY <2>2, <2>3 DEF Reached
<1>10. CASE Stops
  <2>1. /\ UNCHANGED sends
        /\ \A c \in Client : \/ task'[c] = "Ended" /\ queue'[c] = <<>>
                             \/ task'[c] = task[c] /\ queue'[c] = queue[c]
    BY <1>a, <1>10 DEF Stops
  <2>2. ASSUME NEW i \in DOMAIN sends PROVE task'[sends[i].to] # "New"
    <3>1. sends[i].to \in Client /\ task[sends[i].to] # "New"
      BY <1>b DEF Reached
    <3> QED
      BY <2>1, <3>1
  <2>3. \A c \in Client : task'[c] \in {"New", "Ended"} => queue'[c] = <<>>
    BY <2>1 DEF Reached
  <2> QED
    BY <2>1, <2>2, <2>3 DEF Reached
<1>11. CASE UNCHANGED vars
  BY <1>2, <1>11 DEF vars, Reached
<1> QED
  BY <1>3, <1>4, <1>5, <1>6, <1>7, <1>8, <1>9, <1>10, <1>11 DEF Next, ManagerRuns
=============================================================================
