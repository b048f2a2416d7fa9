---------------------------- MODULE ChatServerReads ----------------------------
(***************************************************************************)
(* ChatServer implements ReadState: a connection looks at the channel it   *)
(* is a viewer of, marks are the rows of user_last_read_messages, and what *)
(* a client is shown is what WELCOME, HASVIEWERS and NOVIEWERS told it.    *)
(***************************************************************************)
EXTENDS ChatServer

Looking == [a \in Addr |-> {c \in Channel : \E u \in User : a \in user[u].viewers[c]}]
Posted  == [c \in Channel |-> MessagesIn(db, c)]
Marked  == [u \in User |-> [c \in Channel |-> {r.message : r \in Marks(db, u, c)}]]
Leaving == {a \in Addr : connections[a] # NoUser /\ kicked[a] # "No"}

Reading == INSTANCE ReadState WITH session <- connections, looking <- Looking,
                                   posted <- Posted, marks <- Marked,
                                   shown <- toldViewing, leaving <- Leaving,
                                   MayFail <- DbMayFail

\* Every step of the server, failed statements and restarts included, is a step of
\* ReadState or changes nothing of what is read.
ReadStateImplemented == Reading!Spec
=============================================================================
