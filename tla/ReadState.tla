------------------------------ MODULE ReadState ------------------------------
(***************************************************************************)
(* What the chat server promises about reading, with no word of tables,    *)
(* maps or messages: a session looks at one channel at most.  While a user *)
(* looks at a channel it has read all of it and has no mark there; when    *)
(* the last session that looks at the channel turns away, the newest       *)
(* message is marked.  Every session of the user is shown the channels any *)
(* of them looks at.                                                       *)
(*                                                                         *)
(* A mark may not be stored or removed, because the store failed or there  *)
(* is no message to mark.  Then the session that turned away is made to    *)
(* leave, unless it was leaving; nothing else is left undone or undone.    *)
(***************************************************************************)
EXTENDS ChatTypes, Naturals, FiniteSetsExt

CONSTANTS NoUser,  \* no session
          MayFail  \* whether the store may fail

VARIABLES
  session,  \* the user a client has a session of, or NoUser
  looking,  \* the channel a client looks at, if any, as a set
  posted,   \* the numbers of the messages of each channel
  marks,    \* the messages of each channel a user has marked
  shown,    \* the channels a client is shown as looked at by its user
  leaving   \* sessions that have been told to go

vars == <<session, looking, posted, marks, shown, leaving>>

-----------------------------------------------------------------------------

Sessions(u) == {a \in Addr : session[a] = u}
LookedAt(u) == UNION {looking[a] : a \in Sessions(u)}

\* What nobody of the user of a looks at any more once a looks at now only.
Left(a, now) ==
  LookedAt(session[a]) \ (now \cup UNION {looking[b] : b \in Sessions(session[a]) \ {a}})

\* The marks that get stored of those on left: all, or none.
Stored(left) ==
  {done \in {left, {}} : IF done = left THEN \A c \in left : posted[c] # {}
                                        ELSE MayFail \/ \E c \in left : posted[c] = {}}

\* What u looks at now it has read; the newest messages of done are marked.
Mark(u, now, done) ==
  marks' = [marks EXCEPT ![u] =
              [c \in Channel |-> IF c \in now THEN {}
                                 ELSE IF c \in done THEN @[c] \cup {Max(posted[c])} ELSE @[c]]]

\* The sessions of u are shown that come is looked at and gone is not any more.
Show(u, gone, come) ==
  [a \in Addr |-> IF a \in Sessions(u) THEN (shown[a] \ gone) \cup come ELSE shown[a]]

\* a looks at now only, and the marks and the sessions of its user follow, ...
Turns(a, now) ==
  LET left == Left(a, now) IN
  \E done \in Stored(left) :
    /\ Mark(session[a], now, done)
    /\ IF done = left
         THEN shown' = Show(session[a], left, now) /\ UNCHANGED leaving
         ELSE UNCHANGED shown /\ leaving' = leaving \cup {a}

-----------------------------------------------------------------------------

Init ==
  /\ session = [a \in Addr |-> NoUser]
  /\ looking = [a \in Addr |-> {}]
  /\ posted = [c \in Channel |-> {}]
  /\ marks = [u \in User |-> [c \in Channel |-> {}]]
  /\ shown = [a \in Addr |-> {}]
  /\ leaving = {}

\* A session begins with what the others of its user look at; it may have been
\* told to go before it began.
Enter(a, u) ==
  /\ session[a] = NoUser
  /\ session' = [session EXCEPT ![a] = u]
  /\ shown' = [shown EXCEPT ![a] = LookedAt(u)]
  /\ leaving' \in {leaving, leaving \cup {a}}
  /\ UNCHANGED <<looking, posted, marks>>

\* ... or nothing follows, as the old mark on c cannot be removed.
Look(a, c) ==
  /\ session[a] # NoUser
  /\ looking' = [looking EXCEPT ![a] = {c}]
  /\ \/ Turns(a, {c})
     \/ MayFail /\ leaving' = leaving \cup {a} /\ UNCHANGED <<marks, shown>>
  /\ UNCHANGED <<session, posted>>

LookAway(a) ==
  /\ session[a] # NoUser
  /\ looking' = [looking EXCEPT ![a] = {}]
  /\ Turns(a, {})
  /\ UNCHANGED <<session, posted>>

\* The end of a session is one more way to turn away.
Leave(a) ==
  /\ session[a] # NoUser
  /\ session' = [session EXCEPT ![a] = NoUser]
  /\ looking' = [looking EXCEPT ![a] = {}]
  /\ \E done \in Stored(Left(a, {})) :
       /\ Mark(session[a], {}, done)
       /\ shown' = [Show(session[a], done, {}) EXCEPT ![a] = {}]
  /\ leaving' = leaving \ {a}
  /\ UNCHANGED posted

\* A message is newer than all others.
Post(c) ==
  /\ \E n \in posted'[c] :
       /\ \A d \in Channel : \A m \in posted[d] : m < n
       /\ posted' = [posted EXCEPT ![c] = @ \cup {n}]
  /\ UNCHANGED <<session, looking, marks, shown, leaving>>

\* Any session may be told to go.
Expel ==
  /\ leaving \subseteq leaving'
  /\ leaving' \subseteq {a \in Addr : session[a] # NoUser}
  /\ UNCHANGED <<session, looking, posted, marks, shown>>

\* The server ends, and all sessions with it; the marks stay.
Restart ==
  /\ session' = [a \in Addr |-> NoUser]
  /\ looking' = [a \in Addr |-> {}]
  /\ shown' = [a \in Addr |-> {}]
  /\ leaving' = {}
  /\ UNCHANGED <<posted, marks>>

Next ==
  \/ \E a \in Addr :
       \/ \E u \in User : Enter(a, u)
       \/ \E c \in Channel : Look(a, c)
       \/ LookAway(a) \/ Leave(a)
  \/ \E c \in Channel : Post(c)
  \/ Expel
  \/ Restart

Spec == Init /\ [][Next]_vars
=============================================================================
