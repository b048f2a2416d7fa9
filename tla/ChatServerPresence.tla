--------------------------- MODULE ChatServerPresence ---------------------------
(***************************************************************************)
(* ChatServer implements Presence: a session is an entry of connections,   *)
(* members are Channel.users, and what a client is shown is the last       *)
(* status it was told in STATUS, WELCOME, JOIN, CHANNELINFO, MSG or        *)
(* HISTORY.                                                                *)
(***************************************************************************)
EXTENDS ChatServer

Promised == INSTANCE Presence WITH session <- connections,
                                   member  <- members,
                                   shown   <- toldStatus

\* Every step of the server, the failed and the refused commands among them, is
\* a step of Presence or changes nothing a client can see of presence.
PresenceImplemented == Promised!Spec
=============================================================================
