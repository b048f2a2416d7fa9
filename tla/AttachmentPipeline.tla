-------------------------- MODULE AttachmentPipeline --------------------------
(***************************************************************************)
(* The manager task and the attachment manager task of attachments.rs,     *)
(* with the two bounded queues between them.                               *)
(*                                                                         *)
(* The manager handles one message at a time.  While it handles a MSG it   *)
(* sends every link of the text to the attachment manager and waits for    *)
(* room in the queue; it only takes results back between two messages.     *)
(* The attachment manager asks the web server of each link for its type    *)
(* and sends images back, waiting for room in the other queue.             *)
(*                                                                         *)
(* The commands of clients are the environment: which message is ready     *)
(* when the manager polls is any.  Each task polls its streams in a fixed  *)
(* order, but tokio lets a task take a limited number of messages before   *)
(* it has to yield, and a queue then looks empty: the shutdown status,     *)
(* which does not count, may be taken before them.                         *)
(***************************************************************************)
EXTENDS Naturals, Sequences, FiniteSets

CONSTANTS UrlCap,          \* capacity of the queue of links, 32 in the code
          AttCap,          \* capacity of the queue of results, 32 in the code
          MaxOutstanding,  \* bound on the workload of a behaviour
          MaxMessages      \* bound on the messages of a behaviour

ASSUME CapacityAssumption ==
  /\ UrlCap \in Nat \ {0} /\ AttCap \in Nat \ {0}
  /\ MaxOutstanding \in Nat /\ MaxMessages \in Nat

VARIABLES
  manager,      \* the manager task
  stored,       \* how many messages it has stored and broadcast
  pending,      \* links of the MSG it is handling that are still to be sent
  urlQueue,     \* the queue of links
  task,         \* the attachment manager task
  inHand,       \* the link it is asking for, if any
  attachQueue,  \* the queue of results
  attached,     \* the rows of message_attachments, in the order of their ids
  shutdown,     \* the watch channel
  workload      \* the most links between MSG and ADDATTACHMENT at one time,
                \* fixed for a behaviour

vars == <<manager, stored, pending, urlQueue, task, inHand, attachQueue,
          attached, shutdown, workload>>

Link == [message : Nat, index : Nat]

TypeOK ==
  /\ manager \in {"Working", "Joining", "Stopped"}
  /\ task \in {"Idle", "Asking", "Sending", "Stopped"}
  /\ stored \in Nat
  /\ pending \in Seq(Link)
  /\ urlQueue \in Seq(Link) /\ Len(urlQueue) <= UrlCap
  /\ inHand \in Seq(Link) /\ Len(inHand) = IF task \in {"Asking", "Sending"} THEN 1 ELSE 0
  /\ attachQueue \in Seq(Link) /\ Len(attachQueue) <= AttCap
  /\ attached \in Seq(Link)
  /\ shutdown \in BOOLEAN
  /\ workload \in 0..MaxOutstanding

Outstanding == Len(pending) + Len(urlQueue) + Len(inHand) + Len(attachQueue)

\* The manager is about to poll its streams.
Polling == manager = "Working" /\ pending = <<>>

-----------------------------------------------------------------------------

Init ==
  /\ manager = "Working" /\ task = "Idle"
  /\ stored = 0
  /\ pending = <<>> /\ urlQueue = <<>> /\ inHand = <<>> /\ attachQueue = <<>>
  /\ attached = <<>>
  /\ shutdown = FALSE
  /\ workload \in 0..MaxOutstanding

\* The signal handler.
Shutdown ==
  /\ ~shutdown
  /\ shutdown' = TRUE
  /\ UNCHANGED <<manager, stored, pending, urlQueue, task, inHand, attachQueue,
                 attached, workload>>

-----------------------------------------------------------------------------
(* The manager                                                             *)

LinksOf(m, k) == [i \in 1..k |-> [message |-> m, index |-> i]]

\* MUTANT: every link of the text is found twice.
TakeMsgTwice(k) ==
  /\ Polling
  /\ stored < MaxMessages /\ Outstanding + k <= workload
  /\ stored' = stored + 1
  /\ pending' = LinksOf(stored + 1, 2 * k)
  /\ UNCHANGED <<manager, urlQueue, task, inHand, attachQueue, attached,
                 shutdown, workload>>

\* MSG with k links: the message is stored and broadcast first.
TakeMsg(k) ==
  /\ Polling
  /\ stored < MaxMessages /\ Outstanding + k <= workload
  /\ stored' = stored + 1
  /\ pending' = LinksOf(stored + 1, k)
  /\ UNCHANGED <<manager, urlQueue, task, inHand, attachQueue, attached,
                 shutdown, workload>>

\* query_for_attachments: waits for room, and fails at once when the receiver
\* is gone.
SendLink ==
  /\ pending # <<>>
  /\ \/ task = "Stopped" /\ UNCHANGED urlQueue
     \/ /\ task # "Stopped" /\ Len(urlQueue) < UrlCap
        /\ urlQueue' = Append(urlQueue, Head(pending))
  /\ pending' = Tail(pending)
  /\ UNCHANGED <<manager, stored, task, inHand, attachQueue, attached, shutdown,
                 workload>>

\* add_attachment_to_message: the row is stored and ADDATTACHMENT broadcast, or
\* the statement fails and neither happens.
GotAttachment ==
  /\ Polling
  /\ attachQueue # <<>>
  /\ attachQueue' = Tail(attachQueue)
  /\ attached' \in {attached, Append(attached, Head(attachQueue))}
  /\ UNCHANGED <<manager, stored, pending, urlQueue, task, inHand, shutdown,
                 workload>>

ManagerBreaks ==
  /\ Polling
  /\ shutdown
  /\ manager' = "Joining"
  /\ UNCHANGED <<stored, pending, urlQueue, task, inHand, attachQueue, attached,
                 shutdown, workload>>

\* MUTANT: the manager does not wait for the attachment manager.
ManagerStopsAtOnce ==
  /\ manager = "Joining"
  /\ manager' = "Stopped"
  /\ UNCHANGED <<stored, pending, urlQueue, task, inHand, attachQueue, attached, shutdown,
                 workload>>

\* attachment_task.await; the receiver of the results lives until then.
ManagerStops ==
  /\ manager = "Joining"
  /\ task = "Stopped"
  /\ manager' = "Stopped"
  /\ UNCHANGED <<stored, pending, urlQueue, task, inHand, attachQueue, attached,
                 shutdown, workload>>

-----------------------------------------------------------------------------
(* The attachment manager                                                  *)

TakeLink ==
  /\ task = "Idle"
  /\ urlQueue # <<>>
  /\ task' = "Asking"
  /\ inHand' = <<Head(urlQueue)>>
  /\ urlQueue' = Tail(urlQueue)
  /\ UNCHANGED <<manager, stored, pending, attachQueue, attached, shutdown,
                 workload>>

\* The answer to the HEAD request: an image, or something else or an error.
HeadAnswered ==
  /\ task = "Asking"
  /\ \/ task' = "Sending" /\ UNCHANGED inHand
     \/ task' = "Idle" /\ inHand' = <<>>
  /\ UNCHANGED <<manager, stored, pending, urlQueue, attachQueue, attached,
                 shutdown, workload>>

\* MUTANT: the result is sent again and again.
SendResultAgain ==
  /\ task = "Sending"
  /\ Len(attachQueue) < AttCap
  /\ attachQueue' = Append(attachQueue, Head(inHand))
  /\ UNCHANGED <<manager, stored, pending, urlQueue, task, inHand, attached,
                 shutdown, workload>>

\* MUTANT: the result is pushed without waiting for room.
SendResultUnbounded ==
  /\ task = "Sending"
  /\ attachQueue' = Append(attachQueue, Head(inHand))
  /\ task' = "Idle" /\ inHand' = <<>>
  /\ UNCHANGED <<manager, stored, pending, urlQueue, attached, shutdown, workload>>

SendResult ==
  /\ task = "Sending"
  /\ Len(attachQueue) < AttCap
  /\ attachQueue' = Append(attachQueue, Head(inHand))
  /\ task' = "Idle" /\ inHand' = <<>>
  /\ UNCHANGED <<manager, stored, pending, urlQueue, attached, shutdown, workload>>

\* MUTANT: the task ends when the manager has dropped its end of the queues.
TaskStopsLast ==
  /\ task = "Idle"
  /\ manager = "Stopped"
  /\ task' = "Stopped"
  /\ UNCHANGED <<manager, stored, pending, urlQueue, inHand, attachQueue,
                 attached, shutdown, workload>>

\* MUTANT: an empty queue is taken for a closed one.
TaskStopsEmpty ==
  /\ task = "Idle"
  /\ urlQueue = <<>>
  /\ task' = "Stopped"
  /\ UNCHANGED <<manager, stored, pending, urlQueue, inHand, attachQueue,
                 attached, shutdown, workload>>

TaskStops ==
  /\ task = "Idle"
  /\ shutdown
  /\ task' = "Stopped"
  /\ UNCHANGED <<manager, stored, pending, urlQueue, inHand, attachQueue,
                 attached, shutdown, workload>>

-----------------------------------------------------------------------------

ManagerRuns == SendLink \/ GotAttachment \/ ManagerBreaks \/ ManagerStops
TaskRuns    == TakeLink \/ SendResult \/ TaskStops

Next ==
  \/ \E k \in 0..MaxOutstanding : TakeMsg(k)
  \/ Shutdown
  \/ ManagerRuns
  \/ TaskRuns
  \/ HeadAnswered

\* The runtime schedules both tasks, and every HEAD request is answered at
\* last: the client of reqwest has no timeout by default, so this is an
\* assumption on the web.  No fairness for clients and for signals.
TasksFair == WF_vars(ManagerRuns) /\ WF_vars(TaskRuns) /\ WF_vars(HeadAnswered)

Spec == Init /\ [][Next]_vars /\ TasksFair

-----------------------------------------------------------------------------
(* Properties                                                              *)

\* Over their queues (query_for_attachments against process_response), as long as
\* this number of links is under way.
LinksNotStuck ==
  workload <= UrlCap + AttCap + 1 =>
    ~ /\ pending # <<>> /\ Len(urlQueue) = UrlCap
      /\ task = "Sending" /\ Len(attachQueue) = AttCap

\* Over the shutdown, as long as the results under way fit in the queue that a
\* manager which waits for the attachment manager to end has stopped to empty.
JoinNotStuck ==
  workload <= AttCap =>
    ~ (manager = "Joining" /\ task = "Sending" /\ Len(attachQueue) = AttCap)

\* The manager and the attachment manager never wait for each other.  Both bounds
\* are exact.
NoCircularWait == LinksNotStuck /\ JoinNotStuck

Before(l, m) == l.message < m.message \/ (l.message = m.message /\ l.index < m.index)

\* Attachments are stored and announced in the order of the messages and of the
\* links in their text, each at most once, and after their message.
AttachmentsInOrder ==
  /\ \A i, j \in DOMAIN attached : i < j => Before(attached[i], attached[j])
  /\ \A i \in DOMAIN attached : attached[i].message <= stored

(* What the repository says and the code does not do                       *)

\* The queue made to "send data back to the server" does so: until a shutdown,
\* an attachment manager that has a result to send gets rid of it.
ResultsAlwaysGoBack == []~shutdown => (task = "Sending" ~> task # "Sending")

\* "Wait for everything else to shutdown before returning": after a signal, the
\* attachment manager ends and the manager that waits for it.
ShutdownAlwaysCompletes == shutdown ~> manager = "Stopped"

(* What of it holds                                                        *)

\* Results go back under the workload that excludes a circular wait.
ResultsGoBack == workload <= UrlCap + AttCap + 1 => ResultsAlwaysGoBack

\* A shutdown completes when the results under way fit in their queue.
ShutdownCompletes == workload <= AttCap => ShutdownAlwaysCompletes
=============================================================================
