------------------------------ MODULE HistoryProofs ------------------------------
(***************************************************************************)
(* The invariants of History, for every set of connections, every LIMIT    *)
(* and every set of times, and for any number of messages and links up to  *)
(* the bounds, whatever they are.                                          *)
(***************************************************************************)
EXTENDS History, TLAPS

\* A row of messages.
Row == [time : Time, attachments : Nat]

\* The types the proofs use, which do not depend on the tables.
Types ==
  /\ messages \in Seq(Row)
  /\ links \in Seq(Nat) /\ \A j \in DOMAIN links : links[j] \in DOMAIN messages
  /\ inside \subseteq Client /\ asked \subseteq inside
  /\ told \in [Client -> SUBSET (Nat \X Nat)]
  /\ reply \in [Client -> SUBSET (Nat \X Nat)]
  /\ \A a \in Client : \A s \in reply[a] : s[1] \in DOMAIN messages

-----------------------------------------------------------------------------
(* The query                                                               *)

\* The fields of a row.
LEMMA RowFields ==
  ASSUME messages \in Seq(Row), NEW i \in DOMAIN messages
  PROVE  /\ i \in Nat /\ messages[i].attachments \in Nat /\ messages[i].time \in Nat
         /\ messages[i].attachments + 1 \in Nat
<1>1. i \in 1..Len(messages)
  OBVIOUS
<1>2. messages[i] \in Row
  BY <1>1
<1>3. messages[i].time \in Time /\ messages[i].attachments \in Nat
  BY <1>2 DEF Row
<1>4. messages[i].time \in Nat
  BY <1>3, HistoryAssumption
<1> QED
  BY <1>1, <1>3, <1>4

\* Writing a new number of attachments changes that field of that row alone.
LEMMA RowWritten ==
  ASSUME messages \in Seq(Row), NEW i \in DOMAIN messages, NEW n \in Nat,
         messages' = [messages EXCEPT ![i].attachments = n]
  PROVE  /\ messages' \in Seq(Row)
         /\ DOMAIN messages' = DOMAIN messages
         /\ \A j \in DOMAIN messages \ {i} : messages'[j] = messages[j]
         /\ messages'[i].attachments = n
         /\ messages'[i].time = messages[i].time
<1> DEFINE row == [messages[i] EXCEPT !.attachments = n]
<1>1. messages[i] \in Row
  <2>1. i \in 1..Len(messages)
    OBVIOUS
  <2> QED
    BY <2>1
<1>2. row \in Row /\ row.attachments = n /\ row.time = messages[i].time
  BY <1>1 DEF Row
<1>3. messages' = [messages EXCEPT ![i] = row]
  OBVIOUS
<1> HIDE DEF row
<1> QED
  BY <1>2, <1>3

\* The pairs the tables hold.
LEMMA StoredPairs ==
  ASSUME messages \in Seq(Row)
  PROVE  /\ Stored \subseteq Nat \X Nat
         /\ \A i, k : <<i, k>> \in Stored <=>
              i \in DOMAIN messages /\ k \in 0..messages[i].attachments
         /\ \A r \in Stored : r = <<r[1], r[2]>> /\ r[1] \in DOMAIN messages /\ r[2] \in 0..messages[r[1]].attachments
         /\ \A i \in DOMAIN messages :
              /\ i \in Nat /\ messages[i].attachments \in Nat /\ messages[i].time \in Nat
              /\ <<i, 0>> \in Stored
<1>1. \A i \in DOMAIN messages :
        i \in Nat /\ messages[i].attachments \in Nat /\ messages[i].time \in Nat
  BY RowFields
<1>2. \A i \in DOMAIN messages : 0 \in 0..messages[i].attachments
  BY <1>1
<1> QED
  BY <1>1, <1>2 DEF Stored

\* What a reply does to what a client was told: nothing but stored pairs comes
\* in, and it holds all pairs of a message whose rows are all in the reply.
LEMMA ReplyEffect ==
  ASSUME messages \in Seq(Row),
         NEW old \in SUBSET (Nat \X Nat), NEW rows \in Recent(Joined)
  PROVE  /\ rows \subseteq Stored
         /\ Replace(old, rows) \in SUBSET (Nat \X Nat)
         /\ old \subseteq Stored => Replace(old, rows) \subseteq Stored
         /\ \A r \in Stored : (\A s \in Joined : s[1] = r[1] => s \in rows) => r \in Replace(old, rows)
<1>1. rows \subseteq Joined /\ Joined \subseteq Stored
  BY DEF Recent, Joined
<1>2. Grouped(rows) \subseteq Stored
  <2>1. \A r \in rows : <<r[1], 0>> \in Stored
    BY <1>1, StoredPairs
  <2> QED
    BY <1>1, <2>1 DEF Grouped
<1>3. ASSUME NEW r \in Stored, \A s \in Joined : s[1] = r[1] => s \in rows
      PROVE  r \in Grouped(rows)
  <2> DEFINE i == r[1]
             n == messages[i].attachments
  <2>1. i \in DOMAIN messages /\ r[2] \in 0..n /\ r = <<i, r[2]>> /\ n \in Nat
    BY StoredPairs
  <2>2. CASE r[2] # 0 \/ n = 0
    BY <1>3, <2>2, <2>1 DEF Joined, Grouped
  <2>3. CASE r[2] = 0 /\ n # 0
    <3>1. 1 \in 0..n
      BY <2>1, <2>3
    <3>3. <<i, 1>> \in Joined
      BY <2>1, <3>1, StoredPairs DEF Joined
    <3>2. <<i, 1>> \in rows
      BY <1>3, <3>3
    <3> QED
      BY <2>1, <2>3, <3>2 DEF Grouped
  <2> QED
    BY <2>2, <2>3
<1> QED
  BY <1>1, <1>2, <1>3, StoredPairs DEF Replace

\* A reply of less than Limit rows has them all, and any reply has all rows
\* newer than one of its rows.
LEMMA RecentIsNewest ==
  ASSUME messages \in Seq(Row),
         NEW rows \in Recent(Joined), NEW r \in Joined,
         Cardinality(rows) < Limit \/ \E s \in rows : TimeOf(s) < TimeOf(r)
  PROVE  r \in rows
<1>1. CASE Cardinality(Joined) <= Limit
  BY <1>1 DEF Recent
<1>2. CASE ~(Cardinality(Joined) <= Limit)
  <2>1. /\ rows \subseteq Joined /\ Cardinality(rows) = Limit
        /\ \A s \in rows, q \in Joined \ rows : TimeOf(q) <= TimeOf(s)
    BY <1>2 DEF Recent
  <2>2. \A q \in Joined : TimeOf(q) \in Nat
    BY StoredPairs DEF Joined, TimeOf
  <2> QED
    BY <2>1, <2>2, HistoryAssumption
<1> QED
  BY <1>1, <1>2

\* Losing one link leaves only links there were.
LEMMA RestOfLinks ==
  ASSUME links \in Seq(Nat), NEW i \in DOMAIN links
  PROVE  /\ RemoveAt(links, i) \in Seq(Nat)
         /\ \A j \in DOMAIN RemoveAt(links, i) : \E k \in DOMAIN links : RemoveAt(links, i)[j] = links[k]
<1> DEFINE a == SubSeq(links, 1, i - 1)
           b == SubSeq(links, i + 1, Len(links))
<1>1. /\ a \in Seq(Nat) /\ Len(a) = i - 1
      /\ \A j \in 1..(i - 1) : a[j] = links[j]
  OBVIOUS
<1>2. /\ b \in Seq(Nat) /\ Len(b) = Len(links) - i
      /\ \A j \in 1..(Len(links) - i) : b[j] = links[i + j]
  OBVIOUS
<1>3. RemoveAt(links, i) = a \o b
  BY DEF RemoveAt
<1> HIDE DEF a, b
<1>4. /\ a \o b \in Seq(Nat)
      /\ \A j \in DOMAIN (a \o b) : (j \in 1..Len(a) /\ (a \o b)[j] = a[j])
                                 \/ (j - Len(a) \in 1..Len(b) /\ (a \o b)[j] = b[j - Len(a)])
  BY <1>1, <1>2
<1>5. i \in Nat /\ Len(links) \in Nat /\ DOMAIN links = 1..Len(links)
  OBVIOUS
<1>6. ASSUME NEW j \in DOMAIN (a \o b)
      PROVE  \E k \in DOMAIN links : (a \o b)[j] = links[k]
  <2>1. CASE j \in 1..Len(a) /\ (a \o b)[j] = a[j]
    BY <1>1, <1>5, <2>1
  <2>2. CASE j - Len(a) \in 1..Len(b) /\ (a \o b)[j] = b[j - Len(a)]
    <3> DEFINE n == j - Len(a)
    <3>1. n \in 1..(Len(links) - i) /\ (a \o b)[j] = b[n]
      BY <1>2, <2>2
    <3> HIDE DEF n
    <3>2. i + n \in 1..Len(links)
      BY <1>5, <3>1
    <3> QED
      BY <1>2, <1>5, <3>1, <3>2
  <2> QED
    BY <1>4, <2>1, <2>2
<1> QED
  BY <1>3, <1>4, <1>6

-----------------------------------------------------------------------------
(* The invariants                                                          *)

\* Every step keeps the types.
LEMMA TypesStep == Types /\ [Next]_vars => Types'
<1> SUFFICES ASSUME Types, [Next]_vars PROVE Types'
  OBVIOUS
<1> USE DEF Types
<1>1. ASSUME NEW a \in Client, Enter(a) PROVE Types'
  BY <1>1 DEF Enter
<1>2. ASSUME NEW a \in Client, Leave(a) PROVE Types'
  BY <1>2 DEF Leave
<1>3. ASSUME NEW a \in Client, HistoryOk(a) PROVE Types'
  <2>1. PICK rows \in Recent(Joined) : /\ told' = [told EXCEPT ![a] = Replace(@, rows)]
                                       /\ reply' = [reply EXCEPT ![a] = rows]
    BY <1>3 DEF HistoryOk
  <2>2. rows \subseteq Stored /\ Replace(told[a], rows) \in SUBSET (Nat \X Nat)
    BY ReplyEffect
  <2> QED
    BY <1>3, <2>1, <2>2, StoredPairs DEF HistoryOk
<1>4. ASSUME NEW t \in Time, NEW n \in 0..MaxLinks, Msg(t, n) PROVE Types'
  <2> DEFINE i == Len(messages) + 1
             more == [j \in 1..n |-> i]
  <2>1. /\ messages' = Append(messages, [time |-> t, attachments |-> 0])
        /\ links' = links \o more
        /\ told' = [a \in Client |-> IF a \in inside THEN told[a] \cup {<<i, 0>>} ELSE told[a]]
        /\ UNCHANGED <<inside, asked, reply>>
    BY <1>4 DEF Msg, Broadcast
  <2>2. t \in Nat /\ i \in Nat /\ n \in Nat
    BY HistoryAssumption
  <2>3. /\ messages' \in Seq(Row)
        /\ DOMAIN messages' = DOMAIN messages \cup {i}
    <3>1. [time |-> t, attachments |-> 0] \in Row
      BY <2>2 DEF Row
    <3> QED
      BY <2>1, <3>1
  <2>4. more \in Seq(Nat) /\ \A j \in DOMAIN more : more[j] = i
    BY <2>2
  <2>5. links' \in Seq(Nat) /\ \A j \in DOMAIN links' : links'[j] \in DOMAIN messages \cup {i}
    BY <2>1, <2>4
  <2> QED
    BY <2>1, <2>2, <2>3, <2>5
<1>5. CASE AddAttachment
  <2> DEFINE i == Head(links)
             n == messages[i].attachments + 1
  <2>1. /\ links # <<>> /\ links' = Tail(links)
        /\ messages' = [messages EXCEPT ![i].attachments = n]
        /\ told' = [a \in Client |-> IF a \in inside THEN told[a] \cup {<<i, n>>} ELSE told[a]]
        /\ UNCHANGED <<inside, asked, reply>>
    BY <1>5 DEF AddAttachment, AddMessageAttachment, Broadcast
  <2>2. i \in DOMAIN messages /\ n = messages[i].attachments + 1
    BY <2>1
  <2>3. links' \in Seq(Nat) /\ \A j \in DOMAIN links' : links'[j] \in DOMAIN messages
    BY <2>1
  <2>4. i \in Nat /\ n \in Nat
    BY <2>2, RowFields
  <2> HIDE DEF i, n
  <2>5. messages' \in Seq(Row) /\ DOMAIN messages' = DOMAIN messages
    BY <2>1, <2>2, <2>4, RowWritten
  <2> QED
    BY <2>1, <2>3, <2>4, <2>5
<1>6. CASE NoAttachment
  <2>1. /\ links' \in Seq(Nat) /\ \A j \in DOMAIN links' : links'[j] \in DOMAIN messages
        /\ UNCHANGED <<messages, inside, told, asked, reply>>
    BY <1>6, RestOfLinks DEF NoAttachment
  <2> QED
    BY <2>1
<1>7. CASE Restart
  BY <1>7 DEF Restart
<1>8. CASE UNCHANGED vars
  BY <1>8 DEF vars
<1> QED
  BY <1>1, <1>2, <1>3, <1>4, <1>5, <1>6, <1>7, <1>8 DEF Next, Runs

\* A stored pair that is new is told to everybody inside by the broadcast.
LEMMA BroadcastKeeps ==
  ASSUME Types, Types', ToldIsStored, NothingNewerMissing, NEW p \in Nat \X Nat,
         Broadcast(p), UNCHANGED <<inside, asked, reply>>,
         Stored' = Stored \cup {p},
         \A r \in Stored : TimeOf(r)' = TimeOf(r)
  PROVE  ToldIsStored' /\ NothingNewerMissing'
<1>1. \A a \in Client : told'[a] = IF a \in inside THEN told[a] \cup {p} ELSE told[a]
  BY DEF Broadcast
<1>2. ToldIsStored'
  BY <1>1 DEF ToldIsStored
<1>3. ASSUME NEW a \in asked, NEW s \in reply[a]
      PROVE  TimeOf(s)' = TimeOf(s)
  <2>1. s \in Nat \X Nat /\ s[1] \in DOMAIN messages
    BY DEF Types
  <2>2. <<s[1], 0>> \in Stored
    BY <2>1, StoredPairs DEF Types
  <2> QED
    BY <2>2 DEF TimeOf
<1>4. ASSUME NEW a \in asked, NEW r \in Stored',
             Cardinality(reply[a]) < Limit \/ \E s \in reply[a] : TimeOf(s)' < TimeOf(r)'
      PROVE  r \in told'[a]
  <2>1. a \in Client /\ a \in inside
    BY DEF Types
  <2>2. CASE r = p
    BY <1>1, <2>1, <2>2
  <2>3. CASE r \in Stored
    <3>1. TimeOf(r)' = TimeOf(r)
      BY <2>3
    <3>2. Cardinality(reply[a]) < Limit \/ \E s \in reply[a] : TimeOf(s) < TimeOf(r)
      BY <1>3, <1>4, <3>1
    <3>3. r \in told[a]
      BY <2>3, <3>2 DEF NothingNewerMissing
    <3> QED
      BY <1>1, <2>1, <3>3
  <2> QED
    BY <2>2, <2>3
<1> QED
  BY <1>2, <1>4 DEF NothingNewerMissing

\* Every step keeps what was told and what is stored in agreement.
LEMMA ToldStep ==
  ASSUME Types, ToldIsStored, NothingNewerMissing, [Next]_vars
  PROVE  ToldIsStored' /\ NothingNewerMissing'
<1>1. Types'
  BY TypesStep
<1>2. ASSUME UNCHANGED messages
      PROVE  Stored' = Stored /\ \A r : TimeOf(r)' = TimeOf(r)
  BY <1>2 DEF Stored, TimeOf
<1>3. ASSUME UNCHANGED <<messages, told, asked, reply>>
      PROVE  ToldIsStored' /\ NothingNewerMissing'
  BY <1>2, <1>3 DEF ToldIsStored, NothingNewerMissing
<1>4. ASSUME NEW a \in Client, Leave(a)
      PROVE  ToldIsStored' /\ NothingNewerMissing'
  BY <1>2, <1>4 DEF Leave, Types, ToldIsStored, NothingNewerMissing
<1>5. ASSUME NEW a \in Client, HistoryOk(a)
      PROVE  ToldIsStored' /\ NothingNewerMissing'
  <2>1. PICK rows \in Recent(Joined) : /\ told' = [told EXCEPT ![a] = Replace(@, rows)]
                                       /\ reply' = [reply EXCEPT ![a] = rows]
    BY <1>5 DEF HistoryOk
  <2>2. /\ \A b \in Client : /\ told'[b] = IF b = a THEN Replace(told[a], rows) ELSE told[b]
                             /\ reply'[b] = IF b = a THEN rows ELSE reply[b]
        /\ asked' = asked \cup {a} /\ asked \subseteq Client
        /\ UNCHANGED messages
    BY <1>5, <2>1 DEF HistoryOk, Types
  <2>3. /\ Replace(told[a], rows) \subseteq Stored
        /\ \A r \in Stored : (\A s \in Joined : s[1] = r[1] => s \in rows) => r \in Replace(told[a], rows)
    BY ReplyEffect DEF Types, ToldIsStored
  <2>4. ASSUME NEW r \in Stored, Cardinality(rows) < Limit \/ \E s \in rows : TimeOf(s) < TimeOf(r)
        PROVE  r \in Replace(told[a], rows)
    <3>1. ASSUME NEW s \in Joined, s[1] = r[1] PROVE s \in rows
      BY <2>4, <3>1, RecentIsNewest DEF Types, TimeOf
    <3> QED
      BY <2>3, <3>1
  <2>5. ToldIsStored'
    BY <1>2, <2>2, <2>3 DEF ToldIsStored
  <2>6. ASSUME NEW b \in asked', NEW r \in Stored',
               Cardinality(reply'[b]) < Limit \/ \E s \in reply'[b] : TimeOf(s)' < TimeOf(r)'
        PROVE  r \in told'[b]
    <3>1. r \in Stored /\ (Cardinality(reply'[b]) < Limit \/ \E s \in reply'[b] : TimeOf(s) < TimeOf(r))
      BY <1>2, <2>2, <2>6
    <3>2. CASE b = a
      BY <2>2, <2>4, <3>1, <3>2
    <3>3. CASE b # a
      BY <2>2, <3>1, <3>3 DEF NothingNewerMissing
    <3> QED
      BY <3>2, <3>3
  <2> QED
    BY <2>5, <2>6 DEF NothingNewerMissing
<1>6. ASSUME NEW t \in Time, NEW n \in 0..MaxLinks, Msg(t, n)
      PROVE  ToldIsStored' /\ NothingNewerMissing'
  <2> DEFINE i == Len(messages) + 1
  <2>1. /\ messages' = Append(messages, [time |-> t, attachments |-> 0])
        /\ Broadcast(<<i, 0>>)
        /\ UNCHANGED <<inside, asked, reply>>
    BY <1>6 DEF Msg
  <2>2. /\ DOMAIN messages' = DOMAIN messages \cup {i}
        /\ \A j \in DOMAIN messages : messages'[j] = messages[j]
        /\ messages'[i].attachments = 0 /\ i \notin DOMAIN messages /\ i \in Nat
    BY <2>1 DEF Types
  <2> HIDE DEF i
  <2>3. Stored' = Stored \cup {<<i, 0>>}
    BY <2>2 DEF Stored
  <2>4. \A r \in Stored : TimeOf(r)' = TimeOf(r)
    BY <2>2, StoredPairs DEF TimeOf, Types
  <2> QED
    BY <1>1, <2>1, <2>2, <2>3, <2>4, BroadcastKeeps
<1>7. CASE AddAttachment
  <2> DEFINE i == Head(links)
             n == messages[i].attachments + 1
  <2>1. /\ links # <<>>
        /\ messages' = [messages EXCEPT ![i].attachments = n]
        /\ Broadcast(<<i, n>>)
        /\ UNCHANGED <<inside, asked, reply>>
    BY <1>7 DEF AddAttachment, AddMessageAttachment
  <2>2. i \in DOMAIN messages /\ n = messages[i].attachments + 1
    BY <2>1 DEF Types
  <2>7. i \in Nat /\ n \in Nat /\ messages[i].attachments \in Nat
    BY <2>2, RowFields DEF Types
  <2> HIDE DEF i, n
  <2>6. i \in Nat /\ n \in Nat /\ messages[i].attachments = n - 1
    BY <2>2, <2>7
  <2>3. /\ DOMAIN messages' = DOMAIN messages
        /\ \A j \in DOMAIN messages \ {i} : messages'[j] = messages[j]
        /\ messages'[i].attachments = n
        /\ messages'[i].time = messages[i].time
    BY <2>1, <2>2, <2>6, RowWritten DEF Types
  <2>4. Stored' = Stored \cup {<<i, n>>}
    <3>1. 0..n = (0..(n - 1)) \cup {n}
      BY <2>6
    <3>2. /\ \A j \in DOMAIN messages \ {i} : 0..messages'[j].attachments = 0..messages[j].attachments
          /\ 0..messages'[i].attachments = (0..messages[i].attachments) \cup {n}
      BY <2>3, <2>6, <3>1
    <3>3. ASSUME NEW p \in Stored' PROVE p \in Stored \cup {<<i, n>>}
      <4>1. PICK j \in DOMAIN messages : \E k \in 0..messages'[j].attachments : p = <<j, k>>
        BY <2>3 DEF Stored
      <4>2. PICK k \in 0..messages'[j].attachments : p = <<j, k>>
        BY <4>1
      <4>3. (j = i /\ k = n) \/ k \in 0..messages[j].attachments
        BY <3>2
      <4> QED
        BY <4>2, <4>3 DEF Stored
    <3>4. ASSUME NEW p \in Stored \cup {<<i, n>>} PROVE p \in Stored'
      <4>1. PICK j \in DOMAIN messages : \E k \in 0..messages'[j].attachments : p = <<j, k>>
        BY <2>2, <3>2 DEF Stored
      <4> QED
        BY <2>3, <4>1 DEF Stored
    <3> QED
      BY <3>3, <3>4
  <2>5. \A r \in Stored : TimeOf(r)' = TimeOf(r)
    BY <2>3, StoredPairs DEF TimeOf, Types
  <2> QED
    BY <1>1, <2>1, <2>6, <2>4, <2>5, BroadcastKeeps
<1>8. CASE Restart
  BY <1>8 DEF Restart, ToldIsStored, NothingNewerMissing
<1>9. /\ \A a : Enter(a) => UNCHANGED <<messages, told, asked, reply>>
      /\ NoAttachment => UNCHANGED <<messages, told, asked, reply>>
      /\ UNCHANGED vars => UNCHANGED <<messages, told, asked, reply>>
  BY DEF Enter, NoAttachment, vars
<1> QED
  BY <1>3, <1>4, <1>5, <1>6, <1>7, <1>8, <1>9 DEF Next, Runs

\* The three together.
LEMMA HistoryInvariants == Spec => [](Types /\ ToldIsStored /\ NothingNewerMissing)
<1>1. Init => Types /\ ToldIsStored /\ NothingNewerMissing
  BY DEF Init, Types, ToldIsStored, NothingNewerMissing
<1>2. Types /\ ToldIsStored /\ NothingNewerMissing /\ [Next]_vars
        => (Types /\ ToldIsStored /\ NothingNewerMissing)'
  BY TypesStep, ToldStep
<1> QED
  BY <1>1, <1>2, PTL DEF Spec

\* Every variable of History keeps its type: what is told, replied or awaited
\* is of messages there are.
THEOREM HistoryTypes == Spec => []TypeOK
<1>1. Types /\ ToldIsStored => TypeOK
  <2> SUFFICES ASSUME Types, ToldIsStored PROVE TypeOK
    OBVIOUS
  <2>1. links \in Seq(DOMAIN messages)
    BY DEF Types
  <2>2. ASSUME NEW a \in Client, NEW r \in told[a] PROVE r \in (DOMAIN messages) \X Nat
    <3>1. r \in Stored /\ r \in Nat \X Nat
      BY <2>2 DEF Types, ToldIsStored
    <3>2. r[1] \in DOMAIN messages
      BY <3>1, StoredPairs DEF Types
    <3> QED
      BY <3>1, <3>2
  <2>3. ASSUME NEW a \in Client, NEW r \in reply[a] PROVE r \in (DOMAIN messages) \X Nat
    BY <2>3 DEF Types
  <2>4. \A a \in Client : told[a] \in SUBSET ((DOMAIN messages) \X Nat)
    BY <2>2
  <2>5. \A a \in Client : reply[a] \in SUBSET ((DOMAIN messages) \X Nat)
    BY <2>3
  <2> QED
    BY <2>1, <2>4, <2>5 DEF Types, TypeOK, Row
<1> QED
  BY <1>1, HistoryInvariants, PTL

\* No client shows a message or an attachment that a restart would lose.
THEOREM OnlyStoredIsTold == Spec => []ToldIsStored
  BY HistoryInvariants, PTL

\* A HISTORY reply and the broadcasts after it leave no gap: what is missing is
\* older than, or of the second of, the oldest message of the reply.
THEOREM HistoryHasNoGap == Spec => []NothingNewerMissing
  BY HistoryInvariants, PTL
=============================================================================
