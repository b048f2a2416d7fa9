---------------------------- MODULE AttachmentHistory ----------------------------
(***************************************************************************)
(* AttachmentPipeline as what History takes it for: the links under way,   *)
(* from the result the manager takes next to the link it sends last, are   *)
(* one sequence, of which any may be lost and the first may be stored.     *)
(* What clients are told follows from that in History, so that the clients *)
(* are left out here.                                                      *)
(***************************************************************************)
EXTENDS AttachmentPipeline

\* The rows of messages, with the number of their attachments.
Rows ==
  [i \in 1..stored |->
     [time |-> 0,
      attachments |-> Cardinality({j \in DOMAIN attached : attached[j].message = i})]]

MessagesOf(s) == [i \in DOMAIN s |-> s[i].message]

UnderWay ==
  MessagesOf(attachQueue) \o MessagesOf(inHand) \o MessagesOf(urlQueue) \o MessagesOf(pending)

Answers == INSTANCE History WITH
  Client <- {}, Limit <- 1, Time <- {0}, MaxLinks <- MaxOutstanding,
  messages <- Rows, links <- UnderWay, inside <- {}, asked <- {},
  told <- [a \in {} |-> {}], reply <- [a \in {} |-> {}]

\* The two tasks and the queues between them never store a result out of turn,
\* twice or for a message that is not stored, and lose no more than the links they
\* give up: every step is a MSG, an ADDATTACHMENT, the loss of one link, or
\* nothing for History.
AnswersImplemented == Answers!Init /\ [][Answers!Runs]_(Answers!vars)
=============================================================================
