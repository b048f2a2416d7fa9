-------------------------------- MODULE History --------------------------------
(***************************************************************************)
(* The messages of one channel and their attachments, in the tables        *)
(* messages and message_attachments, what HISTORY reads back of them, and  *)
(* what the connections of the members have been told: the MSG and the     *)
(* ADDATTACHMENT broadcasts, and the HISTORY replies between them.         *)
(*                                                                         *)
(* A row of the LEFT JOIN of get_channel_history is <<i, k>>: the k-th     *)
(* attachment of message i, or <<i, 0>> for a message without any.  What a *)
(* client was told is a set of the same pairs, <<i, 0>> being the message  *)
(* itself.  Texts, links and media types are left out, and so are authors: *)
(* they are users of the server (AuthorsAreMembers in ChatServerProofs),   *)
(* so that get_alt finds every one of them.                                *)
(***************************************************************************)
EXTENDS Integers, SequencesExt

CONSTANTS Client,       \* connections
          Limit,        \* the 50 of history.rs
          Time,         \* seconds, as the system clock gives them: it may be set back
          MaxMessages,  \* bound on the messages
          MaxLinks      \* bound on the links of a message

ASSUME HistoryAssumption ==
  /\ Limit \in Nat \ {0}
  /\ Time \subseteq Nat
  /\ MaxMessages \in Nat /\ MaxLinks \in Nat

VARIABLES
  messages,  \* the rows of messages, and how many attachments each has
  links,     \* messages of the links whose result the manager waits for
  inside,    \* connections of the members of the channel
  told,      \* what each of them was told
  asked,     \* those that had a HISTORY reply,
  reply      \* and the rows of the last one

vars == <<messages, links, inside, told, asked, reply>>

-----------------------------------------------------------------------------

Stored == UNION {{<<i, k>> : k \in 0..messages[i].attachments} : i \in DOMAIN messages}
Joined == {r \in Stored : r[2] = 0 => messages[r[1]].attachments = 0}

TimeOf(r) == messages[r[1]].time

TypeOK ==
  /\ messages \in Seq([time : Time, attachments : Nat])
  /\ links \in Seq(DOMAIN messages)
  /\ inside \subseteq Client /\ asked \subseteq inside
  /\ told \in [Client -> SUBSET ((DOMAIN messages) \X Nat)]
  /\ reply \in [Client -> SUBSET ((DOMAIN messages) \X Nat)]

-----------------------------------------------------------------------------
(* The query                                                               *)

\* MUTANT: ORDER BY time, without DESC.
RecentOldest(rows) ==
  {R \in SUBSET rows :
     IF Cardinality(rows) <= Limit THEN R = rows
     ELSE /\ Cardinality(R) = Limit
          /\ \A r \in R, s \in rows \ R : TimeOf(r) <= TimeOf(s)}

\* ORDER BY time DESC LIMIT: rows of the same second come in any order.
Recent(rows) ==
  {R \in SUBSET rows :
     IF Cardinality(rows) <= Limit THEN R = rows
     ELSE /\ Cardinality(R) = Limit
          /\ \A r \in R, s \in rows \ R : TimeOf(s) <= TimeOf(r)}

\* The rows grouped into messages: a message replaces what was told of it.
Grouped(rows) == rows \cup {<<r[1], 0>> : r \in rows}
Replace(old, rows) ==
  {r \in old : \A s \in rows : s[1] # r[1]} \cup Grouped(rows)

-----------------------------------------------------------------------------

Init ==
  /\ messages = <<>>
  /\ links = <<>>
  /\ inside = {} /\ asked = {}
  /\ told = [a \in Client |-> {}]
  /\ reply = [a \in Client |-> {}]

\* IDENT of a member, or JOIN.
Enter(a) ==
  /\ a \notin inside
  /\ inside' = inside \cup {a}
  /\ UNCHANGED <<messages, links, told, asked, reply>>

\* The end of a connection, also after an MSG or a HISTORY that failed.
Leave(a) ==
  /\ inside' = inside \ {a}
  /\ asked' = asked \ {a}
  /\ told' = [told EXCEPT ![a] = {}]
  /\ reply' = [reply EXCEPT ![a] = {}]
  /\ UNCHANGED <<messages, links>>

\* Everybody inside is told what r says.
Broadcast(r) ==
  told' = [a \in Client |-> IF a \in inside THEN told[a] \cup {r} ELSE told[a]]

\* MSG: the row is inserted, then the message is broadcast, then its n links go
\* to the attachment manager.
Msg(t, n) ==
  /\ Len(messages) < MaxMessages
  /\ messages' = Append(messages, [time |-> t, attachments |-> 0])
  /\ Broadcast(<<Len(messages) + 1, 0>>)
  /\ links' = links \o [i \in 1..n |-> Len(messages) + 1]
  /\ UNCHANGED <<inside, asked, reply>>

\* INSERT INTO message_attachments, for message i.
AddMessageAttachment(i) ==
  [messages EXCEPT ![i].attachments = messages[i].attachments + 1]

\* MUTANT: the result is broadcast although the INSERT has failed.
AddAttachmentToldAnyway ==
  /\ links # <<>>
  /\ LET i == Head(links)
     IN  /\ messages' \in {messages, AddMessageAttachment(i)}
         /\ Broadcast(<<i, messages[i].attachments + 1>>)
  /\ links' = Tail(links)
  /\ UNCHANGED <<inside, asked, reply>>

\* add_attachment_to_message: results come in the order of the links.
AddAttachment ==
  /\ links # <<>>
  /\ LET i == Head(links)
     IN  /\ messages' = AddMessageAttachment(i)
         /\ Broadcast(<<i, messages[i].attachments + 1>>)
  /\ links' = Tail(links)
  /\ UNCHANGED <<inside, asked, reply>>

\* A link that is no image, that nobody answers for, or whose INSERT fails.  It
\* need not be the first: the results of earlier ones may still be in the queue.
NoAttachment ==
  /\ \E i \in DOMAIN links : links' = RemoveAt(links, i)
  /\ UNCHANGED <<messages, inside, told, asked, reply>>

\* MUTANT: a reply to a connection the server does not know any more.
HistoryOkAnybody(a) ==
  /\ \E rows \in Recent(Joined) :
       /\ told' = [told EXCEPT ![a] = Replace(@, rows)]
       /\ reply' = [reply EXCEPT ![a] = rows]
  /\ asked' = asked \cup {a}
  /\ UNCHANGED <<messages, links, inside>>

\* HISTORY, which is for members of the channel.
HistoryOk(a) ==
  /\ a \in inside
  /\ \E rows \in Recent(Joined) :
       /\ told' = [told EXCEPT ![a] = Replace(@, rows)]
       /\ reply' = [reply EXCEPT ![a] = rows]
  /\ asked' = asked \cup {a}
  /\ UNCHANGED <<messages, links, inside>>

\* Connections and unanswered links are gone, the tables stay.
Restart ==
  /\ links' = <<>>
  /\ inside' = {} /\ asked' = {}
  /\ told' = [a \in Client |-> {}]
  /\ reply' = [a \in Client |-> {}]
  /\ UNCHANGED messages

\* A step of a server that keeps running.
Runs ==
  \/ \E a \in Client : Enter(a) \/ Leave(a) \/ HistoryOk(a)
  \/ \E t \in Time, n \in 0..MaxLinks : Msg(t, n)
  \/ AddAttachment
  \/ NoAttachment

Next == Runs \/ Restart

Spec == Init /\ [][Next]_vars

-----------------------------------------------------------------------------

\* Clients are told nothing the tables do not hold, whatever INSERT fails: what
\* they show is there after a restart too (msg.rs and add_attachment_to_message
\* store before they broadcast).
ToldIsStored == \A a \in Client : told[a] \subseteq Stored

\* LIMIT counts rows of the join, not messages, and cuts one second anywhere.
\* Still, once a client had a HISTORY reply, it knows every message newer than
\* some message of the reply, with every attachment, however many came before
\* or since; and it knows everything when the reply has less than Limit rows.
NothingNewerMissing ==
  \A a \in asked, r \in Stored :
    \/ Cardinality(reply[a]) < Limit
    \/ \E s \in reply[a] : TimeOf(s) < TimeOf(r)
    => r \in told[a]
=============================================================================
