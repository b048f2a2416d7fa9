------------------------------- MODULE Presence -------------------------------
(***************************************************************************)
(* What the chat server promises about presence, with no word of tables,   *)
(* messages or a database: clients open sessions as users, users become    *)
(* members of channels for ever, and a client is shown the status of some  *)
(* other users.  What it is shown is always the status they have now.      *)
(* Clients learn of users: when a user comes online or goes offline, every *)
(* session of somebody else in a channel of the user does; and they never  *)
(* forget one while the session lasts.                                     *)
(***************************************************************************)
EXTENDS ChatTypes

CONSTANT NoUser  \* no session

VARIABLES
  session,  \* the user a client has a session of, or NoUser
  member,   \* the members of each channel
  shown     \* the status of each user a client is shown, or Unknown

vars == <<session, member, shown>>

-----------------------------------------------------------------------------

Comembers(u) == UNION {member[c] : c \in {d \in Channel : u \in member[d]}}
Sessions(W)  == {a \in Addr : session[a] \in W}
Known(a)     == {v \in User : shown[a][v] # "Unknown"}

\* The status of v after a step.
Status(v) == IF \E a \in Addr : session'[a] = v THEN "Online" ELSE "Offline"

\* After a step a client is shown the status of the users it knows.
Shows(known) ==
  shown' = [a \in Addr |-> [v \in User |-> IF v \in known[a] THEN Status(v) ELSE "Unknown"]]

\* The clients X learn of the users V.
Learn(X, V) == [a \in Addr |-> IF a \in X THEN Known(a) \cup V ELSE Known(a)]

\* Whom the status of u is news to, if it changes.
Audience(u) == Sessions(Comembers(u) \ {u})

-----------------------------------------------------------------------------

Init ==
  /\ session = [a \in Addr |-> NoUser]
  /\ member = [c \in Channel |-> {}]
  /\ shown = [a \in Addr |-> [v \in User |-> "Unknown"]]

\* A session begins with the status of everybody u shares a channel with; the
\* first session of u is news.
Enter(a, u) ==
  /\ session[a] = NoUser
  /\ session' = [session EXCEPT ![a] = u]
  /\ LET told == IF Sessions({u}) = {} THEN Audience(u) ELSE {}
     IN  Shows([Learn(told, {u}) EXCEPT ![a] = @ \cup Comembers(u)])
  /\ UNCHANGED member

\* The end of the last session of u is news.
Leave(a) ==
  LET u == session[a]
  IN  /\ u # NoUser
      /\ session' = [session EXCEPT ![a] = NoUser]
      /\ LET told == IF Sessions({u}) = {a} THEN Audience(u) ELSE {}
         IN  Shows([Learn(told, {u}) EXCEPT ![a] = {}])
      /\ UNCHANGED member

\* The members of the channel learn of u, and a of all of them.
Join(a, c) ==
  LET u      == session[a]
      inside == member[c] \cup {u}
  IN  /\ u # NoUser /\ u \notin member[c]
      /\ member' = [member EXCEPT ![c] = inside]
      /\ Shows([Learn(Sessions(inside), {u}) EXCEPT ![a] = @ \cup inside])
      /\ UNCHANGED session

\* A message shows its author to the members of the channel.
Speak(a, c) ==
  /\ session[a] \in member[c]
  /\ Shows(Learn(Sessions(member[c]), {session[a]}))
  /\ UNCHANGED <<session, member>>

\* Old messages show their authors.
Read(a, V) ==
  /\ session[a] # NoUser /\ V \subseteq Comembers(session[a])
  /\ Shows(Learn({a}, V))
  /\ UNCHANGED <<session, member>>

\* All sessions end at once; memberships last.
Restart ==
  /\ session' = [a \in Addr |-> NoUser]
  /\ Shows([a \in Addr |-> {}])
  /\ UNCHANGED member

Next ==
  \/ \E a \in Addr :
       \/ \E u \in User : Enter(a, u)
       \/ Leave(a)
       \/ \E c \in Channel : Join(a, c) \/ Speak(a, c)
       \/ \E V \in SUBSET User : Read(a, V)
  \/ Restart

Spec == Init /\ [][Next]_vars
=============================================================================
