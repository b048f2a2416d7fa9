------------------------------ MODULE UserModel -------------------------------
(***************************************************************************)
(* The User struct of models/user.rs as a record r, and its methods.       *)
(*                                                                         *)
(* connections is the key set of User.connections.  active_channels maps a *)
(* channel to the connections viewing it: active is its key set, and       *)
(* viewers[c] the set stored under c, {} when c is not a key.              *)
(***************************************************************************)
EXTENDS ChatTypes

Statuses == {"Online", "Offline"}   \* OnlineStatus::Away is never assigned

UserType ==
  [connections : SUBSET Addr,
   active      : SUBSET Channel,
   viewers     : [Channel -> SUBSET Addr],
   status      : Statuses]

NewUser ==
  [connections |-> {}, active |-> {}, viewers |-> [c \in Channel |-> {}], status |-> "Offline"]

AddConnection(r, a) ==
  [r EXCEPT !.connections = @ \cup {a}, !.status = "Online"]

\* MUTANTS of remove_connection: the status is Away while nobody is connected;
\* the connection is not removed; the emptiness is tested before the removal;
\* the channels the connection alone views are dropped on the way.
RemoveConnectionAway(r, a) ==
  [r EXCEPT !.connections = @ \ {a},
            !.status = IF r.connections \subseteq {a} THEN "Away" ELSE @]
RemoveConnectionKept(r, a) ==
  [r EXCEPT !.status = IF r.connections \subseteq {a} THEN "Offline" ELSE @]
RemoveConnectionTestFirst(r, a) ==
  [r EXCEPT !.connections = @ \ {a},
            !.status = IF r.connections = {} THEN "Offline" ELSE @]
RemoveConnectionDropsViews(r, a) ==
  [r EXCEPT !.connections = @ \ {a},
            !.status = IF r.connections \subseteq {a} THEN "Offline" ELSE @,
            !.active = {c \in @ : ~(r.viewers[c] \subseteq {a})},
            !.viewers = [c \in Channel |-> r.viewers[c] \ {a}]]

RemoveConnection(r, a) ==
  [r EXCEPT !.connections = @ \ {a},
            !.status = IF r.connections \subseteq {a} THEN "Offline" ELSE @]

\* MUTANT: the status is compared after it was assigned.
ComesOnlineLate(r) == FALSE

\* What add_connection and remove_connection return.
ComesOnline(r)     == r.status # "Online"
GoesOffline(r, a)  == r.connections \subseteq {a}

\* clear_viewing stops a from viewing the first channel it is found under, in
\* the order of the HashMap: Viewed lists the candidates, at most one of which
\* is put in stop.
Viewed(r, a)      == {c \in r.active : a \in r.viewers[c]}
StopChoiceNone(r, a) == {{}}   \* MUTANT: set_viewing does not call clear_viewing
StopChoice(r, a)  == IF Viewed(r, a) = {} THEN {{}} ELSE {{c} : c \in Viewed(r, a)}
ClearViewing(r, a, stop) ==
  [r EXCEPT !.viewers = [c \in Channel |-> IF c \in stop THEN r.viewers[c] \ {a} ELSE r.viewers[c]]]

\* set_viewing(channel, addr, true)
SetViewing(r, c, a, stop) ==
  LET cleared == ClearViewing(r, a, stop)
  IN  [cleared EXCEPT !.active = @ \cup {c}, !.viewers[c] = @ \cup {a}]

\* get_and_clear_no_viewers: the channels it returns, and the user after it.
NoViewers(r)     == {c \in r.active : r.viewers[c] = {}}
DropNoViewers(r) == [r EXCEPT !.active = @ \ NoViewers(r)]
=============================================================================
