----------------------- MODULE AttachmentPipelineProofs -----------------------
(***************************************************************************)
(* Proofs about AttachmentPipeline, for every capacity of the two queues   *)
(* and every workload: no circular wait, a short shutdown, attachments in  *)
(* order, and the refinement of the links of History.                      *)
(***************************************************************************)
EXTENDS AttachmentHistory, FiniteSetTheorems, TLAPS

-----------------------------------------------------------------------------
(* Sequences of links                                                      *)

\* The links a MSG sends form a sequence of the length asked for.
LEMMA LinksOfType ==
  ASSUME NEW m \in Nat, NEW k \in Nat
  PROVE  LinksOf(m, k) \in Seq(Link) /\ Len(LinksOf(m, k)) = k
<1>1. \A i \in 1..k : [message |-> m, index |-> i] \in Link
  BY DEF Link
<1>2. LinksOf(m, k) \in [1..k -> Link]
  BY <1>1 DEF LinksOf
<1> QED
  BY <1>2 DEF LinksOf

\* Taking the head off a queue.
LEMMA HeadTail ==
  ASSUME NEW s \in Seq(Link), s # <<>>
  PROVE  /\ Head(s) \in Link /\ Tail(s) \in Seq(Link)
         /\ Len(Tail(s)) = Len(s) - 1 /\ Len(s) \in Nat \ {0}
  OBVIOUS

\* The empty queue.
LEMMA EmptyType == <<>> \in Seq(Link) /\ Len(<<>>) = 0
  OBVIOUS

\* A queue of one link has a head.
LEMMA SingleHead ==
  ASSUME NEW s \in Seq(Link), Len(s) = 1
  PROVE  Head(s) \in Link
<1>1. 1 \in 1..Len(s)
  OBVIOUS
<1>2. s[1] \in Link
  BY <1>1
<1> QED
  BY <1>2

\* Putting a link into a queue.
LEMMA AppendType ==
  ASSUME NEW s \in Seq(Link), NEW l \in Link
  PROVE  Append(s, l) \in Seq(Link) /\ Len(Append(s, l)) = Len(s) + 1
  OBVIOUS

-----------------------------------------------------------------------------
(* Types                                                                   *)

\* The initial state has the types.
LEMMA TypeInit == Init => TypeOK
<1> SUFFICES ASSUME Init PROVE TypeOK
  OBVIOUS
<1>1. /\ manager = "Working" /\ task = "Idle" /\ stored \in Nat /\ shutdown \in BOOLEAN
      /\ workload \in 0..MaxOutstanding
  BY DEF Init
<1>2. \A s \in {pending, urlQueue, inHand, attachQueue, attached} : s \in Seq(Link) /\ Len(s) = 0
  BY EmptyType DEF Init
<1> QED
  BY <1>1, <1>2, CapacityAssumption DEF TypeOK

\* Every step keeps the types.
LEMMA TypeNext == TypeOK /\ [Next]_vars => TypeOK'
<1> SUFFICES ASSUME TypeOK, [Next]_vars PROVE TypeOK'
  OBVIOUS
<1>1. ASSUME NEW k \in 0..MaxOutstanding, TakeMsg(k) PROVE TypeOK'
  <2>1. k \in Nat /\ stored + 1 \in Nat
    BY CapacityAssumption DEF TypeOK
  <2> QED
    BY <1>1, <2>1, LinksOfType DEF TypeOK, TakeMsg
<1>2. CASE Shutdown
  BY <1>2 DEF TypeOK, Shutdown
<1>3. CASE SendLink
  <2>1. Head(pending) \in Link /\ Tail(pending) \in Seq(Link)
    BY <1>3, HeadTail DEF TypeOK, SendLink
  <2>2. /\ urlQueue' \in Seq(Link) /\ Len(urlQueue') <= UrlCap
    <3>1. CASE task = "Stopped"
      BY <1>3, <3>1 DEF TypeOK, SendLink
    <3>2. CASE task # "Stopped"
      <4>1. /\ urlQueue' = Append(urlQueue, Head(pending))
            /\ Len(urlQueue) < UrlCap /\ Len(urlQueue) \in Nat
        BY <1>3, <3>2 DEF TypeOK, SendLink
      <4> QED
        BY <2>1, <4>1, AppendType, CapacityAssumption DEF TypeOK
    <3> QED
      BY <3>1, <3>2
  <2> QED
    BY <1>3, <2>1, <2>2 DEF TypeOK, SendLink
<1>4. CASE GotAttachment
  <2>1. /\ Head(attachQueue) \in Link /\ Tail(attachQueue) \in Seq(Link)
        /\ Len(Tail(attachQueue)) <= AttCap
    BY <1>4, HeadTail, CapacityAssumption DEF TypeOK, GotAttachment
  <2>2. attached' \in Seq(Link)
    BY <1>4, <2>1, AppendType DEF TypeOK, GotAttachment
  <2> QED
    BY <1>4, <2>1, <2>2 DEF TypeOK, GotAttachment
<1>5. CASE ManagerBreaks
  BY <1>5 DEF TypeOK, ManagerBreaks
<1>6. CASE ManagerStops
  BY <1>6 DEF TypeOK, ManagerStops
<1>7. CASE TakeLink
  <2>1. /\ Head(urlQueue) \in Link /\ Tail(urlQueue) \in Seq(Link)
        /\ Len(Tail(urlQueue)) <= UrlCap
    BY <1>7, HeadTail, CapacityAssumption DEF TypeOK, TakeLink
  <2>2. <<Head(urlQueue)>> \in Seq(Link) /\ Len(<<Head(urlQueue)>>) = 1
    BY <2>1
  <2> QED
    BY <1>7, <2>1, <2>2 DEF TypeOK, TakeLink
<1>8. CASE SendResult
  <2>1. Head(inHand) \in Link
    BY <1>8, SingleHead DEF TypeOK, SendResult
  <2>2. attachQueue' \in Seq(Link) /\ Len(attachQueue') <= AttCap
    BY <1>8, <2>1, AppendType, CapacityAssumption DEF TypeOK, SendResult
  <2> QED
    BY <1>8, <2>1, <2>2, EmptyType DEF TypeOK, SendResult
<1>9. CASE TaskStops
  BY <1>9 DEF TypeOK, TaskStops
<1>10. CASE HeadAnswered
  <2>1. CASE task' = "Sending" /\ UNCHANGED inHand
    BY <1>10, <2>1 DEF TypeOK, HeadAnswered
  <2>2. CASE task' = "Idle" /\ inHand' = <<>>
    <3>1. inHand' \in Seq(Link) /\ Len(inHand') = 0
      BY <2>2, EmptyType
    <3> QED
      BY <1>10, <2>2, <3>1 DEF TypeOK, HeadAnswered
  <2> QED
    BY <1>10, <2>1, <2>2 DEF HeadAnswered
<1>11. CASE UNCHANGED vars
  BY <1>11 DEF TypeOK, vars
<1> QED
  BY <1>1, <1>2, <1>3, <1>4, <1>5, <1>6, <1>7, <1>8, <1>9, <1>10, <1>11
     DEF Next, ManagerRuns, TaskRuns

\* Every variable keeps its type and no queue outgrows its capacity.
THEOREM PipelineTypes == Spec => []TypeOK
  BY TypeInit, TypeNext, PTL DEF Spec

-----------------------------------------------------------------------------
(* Deadlock freedom: links are never multiplied on their way, so the       *)
(* workload bounds what the queues and the tasks hold together, at any     *)
(* moment.                                                                 *)

WorkloadBounded == Outstanding <= workload

\* No step makes links of its own: only a MSG adds some, within the workload.
LEMMA WorkloadNext ==
  TypeOK /\ TypeOK' /\ WorkloadBounded /\ [Next]_vars => WorkloadBounded'
<1> SUFFICES ASSUME TypeOK, TypeOK', WorkloadBounded, [Next]_vars PROVE WorkloadBounded'
  OBVIOUS
<1>0. /\ Len(pending) \in Nat /\ Len(urlQueue) \in Nat
      /\ Len(inHand) \in Nat /\ Len(attachQueue) \in Nat
      /\ workload \in Nat
  BY CapacityAssumption DEF TypeOK
<1>2. workload' = workload
  BY DEF Next, ManagerRuns, TaskRuns, vars, TakeMsg, Shutdown, SendLink, GotAttachment,
         ManagerBreaks, ManagerStops, TakeLink, SendResult, TaskStops, HeadAnswered
<1>1. ASSUME NEW k \in 0..MaxOutstanding, TakeMsg(k) PROVE WorkloadBounded'
  <2>1. k \in Nat /\ stored + 1 \in Nat /\ Len(pending) = 0
    BY <1>1, CapacityAssumption DEF TypeOK, TakeMsg, Polling
  <2>2. Len(pending') = k
    BY <1>1, <2>1, LinksOfType DEF TakeMsg
  <2> QED
    BY <1>0, <1>2, <1>1, <2>1, <2>2 DEF TakeMsg, WorkloadBounded, Outstanding
<1>3. CASE SendLink
  <2>1. /\ Head(pending) \in Link
        /\ Len(pending') = Len(pending) - 1
    BY <1>3, HeadTail DEF TypeOK, SendLink
  <2>2. Len(urlQueue') <= Len(urlQueue) + 1 /\ Len(urlQueue') \in Nat
    BY <1>3, <2>1, AppendType DEF TypeOK, SendLink
  <2>3. inHand' = inHand /\ attachQueue' = attachQueue
    BY <1>3 DEF SendLink
  <2> QED
    BY <1>0, <1>2, <2>1, <2>2, <2>3 DEF WorkloadBounded, Outstanding
<1>4. CASE GotAttachment
  <2>1. Len(attachQueue') = Len(attachQueue) - 1
    BY <1>4, HeadTail DEF TypeOK, GotAttachment
  <2>2. UNCHANGED <<pending, urlQueue, inHand>>
    BY <1>4 DEF GotAttachment
  <2> QED
    BY <1>0, <1>2, <2>1, <2>2 DEF WorkloadBounded, Outstanding
<1>7. CASE TakeLink
  <2>1. Len(urlQueue') = Len(urlQueue) - 1
    BY <1>7, HeadTail DEF TypeOK, TakeLink
  <2>2. Len(inHand) = 0 /\ Len(inHand') = 1
    BY <1>7 DEF TypeOK, TakeLink
  <2>3. UNCHANGED <<pending, attachQueue>>
    BY <1>7 DEF TakeLink
  <2> QED
    BY <1>0, <1>2, <2>1, <2>2, <2>3 DEF WorkloadBounded, Outstanding
<1>8. CASE SendResult
  <2>1. Len(inHand) = 1 /\ Len(inHand') = 0
    BY <1>8 DEF TypeOK, SendResult
  <2>2. Head(inHand) \in Link
    BY <2>1, SingleHead DEF TypeOK
  <2>3. Len(attachQueue') = Len(attachQueue) + 1
    BY <1>8, <2>2, AppendType DEF TypeOK, SendResult
  <2>4. UNCHANGED <<pending, urlQueue>>
    BY <1>8 DEF SendResult
  <2> QED
    BY <1>0, <1>2, <2>1, <2>3, <2>4 DEF WorkloadBounded, Outstanding
<1>10. CASE HeadAnswered
  <2>1. Len(inHand') <= Len(inHand) /\ Len(inHand') \in Nat
    BY <1>10 DEF TypeOK, HeadAnswered
  <2>2. UNCHANGED <<pending, urlQueue, attachQueue>>
    BY <1>10 DEF HeadAnswered
  <2> QED
    BY <1>0, <1>2, <2>1, <2>2 DEF WorkloadBounded, Outstanding
<1>11. CASE Shutdown \/ ManagerBreaks \/ ManagerStops \/ TaskStops \/ UNCHANGED vars
  <2>1. UNCHANGED <<pending, urlQueue, inHand, attachQueue>>
    BY <1>11 DEF Shutdown, ManagerBreaks, ManagerStops, TaskStops, vars
  <2> QED
    BY <1>2, <2>1 DEF WorkloadBounded, Outstanding
<1> QED
  BY <1>1, <1>3, <1>4, <1>7, <1>8, <1>10, <1>11 DEF Next, ManagerRuns, TaskRuns

\* Nothing is under way at the start.
LEMMA WorkloadInit == Init => WorkloadBounded
  BY EmptyType, CapacityAssumption DEF Init, WorkloadBounded, Outstanding

\* The invariant both results rest on.
LEMMA WorkloadInvariant == Spec => [](TypeOK /\ WorkloadBounded)
<1>1. TypeOK /\ WorkloadBounded /\ [Next]_vars => (TypeOK /\ WorkloadBounded)'
  BY TypeNext, WorkloadNext
<1> QED
  BY <1>1, TypeInit, WorkloadInit, PTL DEF Spec

\* Both waiting takes one link more than the workload.
LEMMA WorkloadFits == TypeOK /\ WorkloadBounded => LinksNotStuck
<1> SUFFICES ASSUME TypeOK, WorkloadBounded, workload <= UrlCap + AttCap + 1,
                    pending # <<>>, Len(urlQueue) = UrlCap,
                    task = "Sending", Len(attachQueue) = AttCap
             PROVE  FALSE
  BY DEF LinksNotStuck
<1>1. Len(inHand) = 1 /\ Len(pending) \in Nat \ {0} /\ workload \in Nat
  BY HeadTail, CapacityAssumption DEF TypeOK
<1> QED
  BY <1>1, CapacityAssumption DEF WorkloadBounded, Outstanding

\* A full queue of results and one in hand take one link more than AttCap.
LEMMA WorkloadJoins == TypeOK /\ WorkloadBounded => JoinNotStuck
<1> SUFFICES ASSUME TypeOK, WorkloadBounded, workload <= AttCap,
                    task = "Sending", Len(attachQueue) = AttCap
             PROVE  FALSE
  BY DEF JoinNotStuck
<1>1. /\ Len(inHand) = 1 /\ Len(pending) \in Nat /\ Len(urlQueue) \in Nat
      /\ workload \in Nat
  BY CapacityAssumption DEF TypeOK
<1> QED
  BY <1>1, CapacityAssumption DEF WorkloadBounded, Outstanding

\* Whatever the capacities, a workload of one link more than both queues hold
\* cannot make the manager and the attachment manager wait for each other, nor can
\* one that fits in the queue of results when the manager has stopped to take them.
THEOREM NoDeadlock == Spec => []NoCircularWait
<1>1. TypeOK /\ WorkloadBounded => NoCircularWait
  BY WorkloadFits, WorkloadJoins DEF NoCircularWait
<1> QED
  BY <1>1, WorkloadInvariant, PTL

-----------------------------------------------------------------------------
(* A shutdown: what the two tasks have left to do after the manager has    *)
(* left its loop                                                           *)

\* The manager leaves its loop after a signal, with no link left to send.
Leaving == manager # "Working" => shutdown /\ pending = <<>>

\* The steps that are left: three for a link that is queued, and what the task and
\* the manager have to do themselves.
Rest ==
  3 * Len(urlQueue)
  + (CASE task = "Asking" -> 3 [] task = "Sending" -> 2 [] task = "Idle" -> 1
       [] task = "Stopped" -> 0)
  + (CASE manager = "Working" -> 2 [] manager = "Joining" -> 1 [] manager = "Stopped" -> 0)

LEMMA LeavingNext == Leaving /\ [Next]_vars => Leaving'
  BY DEF Leaving, Next, vars, ManagerRuns, TaskRuns, Polling, Shutdown, TakeMsg, SendLink,
     GotAttachment, ManagerBreaks, ManagerStops, TakeLink, HeadAnswered, SendResult, TaskStops

\* The lengths of the queue of links, before and after its head is taken.
LEMMA QueueLengths ==
  ASSUME TypeOK
  PROVE  /\ Len(urlQueue) \in 0..UrlCap
         /\ urlQueue # <<>> => Len(Tail(urlQueue)) = Len(urlQueue) - 1
<1>1. urlQueue \in Seq(Link) /\ Len(urlQueue) <= UrlCap
  BY DEF TypeOK
<1> QED
  BY <1>1

LEMMA RestFalls ==
  ASSUME TypeOK, Leaving, manager # "Working", Next
  PROVE  Rest' < Rest
<1>1. /\ shutdown /\ pending = <<>> /\ manager \in {"Joining", "Stopped"}
      /\ Len(urlQueue) \in Nat
  BY QueueLengths DEF Leaving, TypeOK
<1>2. \/ TakeLink \/ HeadAnswered \/ SendResult \/ TaskStops \/ ManagerStops
  BY <1>1 DEF Next, ManagerRuns, TaskRuns, Polling, Shutdown, TakeMsg, SendLink,
     GotAttachment, ManagerBreaks
<1>3. CASE TakeLink
  <2>1. Len(urlQueue') = Len(urlQueue) - 1
    BY <1>3, QueueLengths DEF TakeLink
  <2> QED
    BY <1>1, <1>3, <2>1 DEF TakeLink, Rest
<1>4. CASE HeadAnswered
  BY <1>1, <1>4 DEF HeadAnswered, Rest
<1>5. CASE SendResult
  BY <1>1, <1>5 DEF SendResult, Rest
<1>6. CASE TaskStops
  BY <1>1, <1>6 DEF TaskStops, Rest
<1>7. CASE ManagerStops
  BY <1>1, <1>7 DEF ManagerStops, Rest
<1> QED
  BY <1>2, <1>3, <1>4, <1>5, <1>6, <1>7

\* A natural number of steps, at most 3 * UrlCap + 4.
LEMMA RestBounded ==
  ASSUME TypeOK
  PROVE  Rest \in Nat /\ (manager # "Working" => Rest <= 3 * UrlCap + 4)
<1>1. /\ manager \in {"Working", "Joining", "Stopped"}
      /\ task \in {"Idle", "Asking", "Sending", "Stopped"}
      /\ Len(urlQueue) \in 0..UrlCap
  BY QueueLengths DEF TypeOK
<1> QED
  BY <1>1, CapacityAssumption DEF Rest

\* Once the manager has left its loop, every step of the two tasks, in whatever
\* order, is one of the last 3 * UrlCap + 4: the shutdown never runs in circles.
THEOREM ShutdownIsShort ==
  Spec => /\ [](manager # "Working" => Rest \in 0..3 * UrlCap + 4)
          /\ [][manager # "Working" => Rest' < Rest]_vars
<1>1. Init => TypeOK /\ Leaving
  BY TypeInit DEF Init, Leaving
<1>2. TypeOK /\ Leaving /\ [Next]_vars => (TypeOK /\ Leaving)'
  BY TypeNext, LeavingNext
<1>3. TypeOK => (manager # "Working" => Rest \in 0..3 * UrlCap + 4)
  BY RestBounded, CapacityAssumption
<1>4. TypeOK /\ Leaving /\ [Next]_vars => [manager # "Working" => Rest' < Rest]_vars
  BY RestFalls
<1> QED
  BY <1>1, <1>2, <1>3, <1>4, PTL DEF Spec

-----------------------------------------------------------------------------
(* Order: what is attached, waits, is in hand or is still to be sent stands *)
(* in the order of the messages and of the links in them, from the oldest   *)
(* row of message_attachments to the last link of the MSG being handled.    *)

LinksIn(s)  == {s[i] : i \in DOMAIN s}
InOrder(s)  == \A i, j \in DOMAIN s : i < j => Before(s[i], s[j])
Ahead(s, t) == \A l \in LinksIn(s), m \in LinksIn(t) : Before(l, m)

\* An empty queue is in order.
LEMMA EmptyOrder == LinksIn(<<>>) = {} /\ InOrder(<<>>)
  BY DEF LinksIn, InOrder

\* A queue of one link is in order.
LEMMA SingleOrder ==
  ASSUME NEW l \in Link
  PROVE  LinksIn(<<l>>) = {l} /\ InOrder(<<l>>)
  BY DEF LinksIn, InOrder

\* Taking the head off a queue leaves it in order, and only links behind it.
LEMMA TailOrder ==
  ASSUME NEW s \in Seq(Link), s # <<>>, InOrder(s)
  PROVE  /\ InOrder(Tail(s))
         /\ LinksIn(Tail(s)) \subseteq LinksIn(s)
         /\ Head(s) \in LinksIn(s)
         /\ \A m \in LinksIn(Tail(s)) : Before(Head(s), m)
<1>1. /\ DOMAIN s = 1..Len(s) /\ Len(s) \in Nat \ {0} /\ Head(s) = s[1]
      /\ DOMAIN Tail(s) = 1..(Len(s) - 1)
      /\ \A i \in 1..(Len(s) - 1) : Tail(s)[i] = s[i + 1] /\ i + 1 \in 1..Len(s)
  BY HeadTail
<1>2. InOrder(Tail(s))
  BY <1>1 DEF InOrder
<1>3. LinksIn(Tail(s)) \subseteq LinksIn(s) /\ Head(s) \in LinksIn(s)
  BY <1>1 DEF LinksIn
<1>4. \A m \in LinksIn(Tail(s)) : Before(Head(s), m)
  <2> SUFFICES ASSUME NEW i \in 1..(Len(s) - 1) PROVE Before(Head(s), Tail(s)[i])
    BY <1>1 DEF LinksIn
  <2>1. 1 < i + 1
    OBVIOUS
  <2> QED
    BY <1>1, <2>1 DEF InOrder
<1> QED
  BY <1>2, <1>3, <1>4

\* Putting a link behind all others keeps a queue in order.
LEMMA AppendOrder ==
  ASSUME NEW s \in Seq(Link), NEW l \in Link, InOrder(s), \A m \in LinksIn(s) : Before(m, l)
  PROVE  InOrder(Append(s, l)) /\ LinksIn(Append(s, l)) = LinksIn(s) \cup {l}
<1>1. /\ DOMAIN s = 1..Len(s) /\ Len(s) \in Nat
      /\ DOMAIN Append(s, l) = 1..(Len(s) + 1)
      /\ \A i \in 1..Len(s) : Append(s, l)[i] = s[i]
      /\ Append(s, l)[Len(s) + 1] = l
  OBVIOUS
<1>2. \A i \in 1..(Len(s) + 1) : i \in 1..Len(s) \/ i = Len(s) + 1
  BY <1>1
<1>3. LinksIn(Append(s, l)) = LinksIn(s) \cup {l}
  BY <1>1, <1>2 DEF LinksIn
<1>4. ASSUME NEW i \in 1..(Len(s) + 1), NEW j \in 1..(Len(s) + 1), i < j
      PROVE  Before(Append(s, l)[i], Append(s, l)[j])
  <2>1. i \in 1..Len(s)
    BY <1>1, <1>4
  <2>2. s[i] \in LinksIn(s)
    BY <1>1, <2>1 DEF LinksIn
  <2>3. CASE j \in 1..Len(s)
    BY <1>1, <1>4, <2>1, <2>3 DEF InOrder
  <2>4. CASE j = Len(s) + 1
    BY <1>1, <2>1, <2>2, <2>4
  <2> QED
    BY <1>2, <2>3, <2>4
<1> QED
  BY <1>1, <1>3, <1>4 DEF InOrder

\* The links of one MSG are in the order of its text.
LEMMA LinksOfOrder ==
  ASSUME NEW m \in Nat, NEW k \in Nat
  PROVE  InOrder(LinksOf(m, k)) /\ \A l \in LinksIn(LinksOf(m, k)) : l.message = m
  BY DEF InOrder, LinksIn, LinksOf, Before

\* A link of an earlier message comes before one of a later message.
LEMMA EarlierMessage ==
  ASSUME NEW l, NEW m, l.message < m.message
  PROVE  Before(l, m)
  BY DEF Before

PipelineOrdered ==
  /\ InOrder(attached) /\ InOrder(attachQueue) /\ InOrder(inHand)
  /\ InOrder(urlQueue) /\ InOrder(pending)
  /\ Ahead(attached, attachQueue) /\ Ahead(attached, inHand)
  /\ Ahead(attached, urlQueue) /\ Ahead(attached, pending)
  /\ Ahead(attachQueue, inHand) /\ Ahead(attachQueue, urlQueue) /\ Ahead(attachQueue, pending)
  /\ Ahead(inHand, urlQueue) /\ Ahead(inHand, pending)
  /\ Ahead(urlQueue, pending)
  /\ \A s \in {attached, attachQueue, inHand, urlQueue, pending} :
       \A l \in LinksIn(s) : l \in Link /\ l.message \in 1..stored

\* Nothing is in the pipeline at the start.
LEMMA OrderInit == Init => PipelineOrdered
  BY EmptyOrder DEF Init, PipelineOrdered, Ahead

\* Each step moves the first link of a queue to the end of the one before it,
\* drops it, or adds the links of a newer message at the end.
LEMMA OrderNext ==
  TypeOK /\ PipelineOrdered /\ [Next]_vars => PipelineOrdered'
<1> SUFFICES ASSUME TypeOK, PipelineOrdered, [Next]_vars PROVE PipelineOrdered'
  OBVIOUS
<1>1. ASSUME NEW k \in 0..MaxOutstanding, TakeMsg(k) PROVE PipelineOrdered'
  <2>1. /\ k \in Nat /\ stored \in Nat /\ stored + 1 \in Nat
        /\ stored' = stored + 1 /\ pending' = LinksOf(stored + 1, k)
        /\ UNCHANGED <<attached, attachQueue, inHand, urlQueue>>
    BY <1>1, CapacityAssumption DEF TypeOK, TakeMsg
  <2>2. /\ InOrder(pending')
        /\ \A l \in LinksIn(pending') : l \in Link /\ l.message = stored + 1
    <3>1. LinksOf(stored + 1, k) \in Seq(Link)
      BY <2>1, LinksOfType
    <3>2. \A l \in LinksIn(LinksOf(stored + 1, k)) : l \in Link
      BY <3>1 DEF LinksIn
    <3> QED
      BY <2>1, <3>2, LinksOfOrder
  <2>3. \A s \in {attached, attachQueue, inHand, urlQueue} : Ahead(s, pending')
    <3> SUFFICES ASSUME NEW s \in {attached, attachQueue, inHand, urlQueue},
                        NEW l \in LinksIn(s), NEW m \in LinksIn(pending')
                 PROVE  Before(l, m)
      BY DEF Ahead
    <3>1. l \in Link /\ l.message <= stored /\ m.message = stored + 1
      BY <2>2 DEF PipelineOrdered
    <3>2. l.message < m.message
      BY <2>1, <3>1 DEF Link
    <3> QED
      BY <3>2, EarlierMessage
  <2>4. \A s \in {attached, attachQueue, inHand, urlQueue} :
          \A l \in LinksIn(s) : l \in Link /\ l.message <= stored + 1
    BY <2>1 DEF PipelineOrdered, Link
  <2>5. \A l \in LinksIn(pending') : l \in Link /\ l.message <= stored + 1
    BY <2>1, <2>2
  <2> QED
    BY <2>1, <2>2, <2>3, <2>4, <2>5 DEF PipelineOrdered
<1>3. CASE SendLink
  <2>1. /\ pending # <<>> /\ pending \in Seq(Link) /\ urlQueue \in Seq(Link)
        /\ pending' = Tail(pending)
        /\ UNCHANGED <<attached, attachQueue, inHand, stored>>
    BY <1>3 DEF TypeOK, SendLink
  <2>2. /\ InOrder(pending') /\ LinksIn(pending') \subseteq LinksIn(pending)
        /\ Head(pending) \in LinksIn(pending) /\ Head(pending) \in Link
        /\ \A m \in LinksIn(pending') : Before(Head(pending), m)
    BY <2>1, TailOrder, HeadTail DEF PipelineOrdered
  <2>3. \/ urlQueue' = urlQueue
        \/ /\ InOrder(urlQueue')
           /\ LinksIn(urlQueue') = LinksIn(urlQueue) \cup {Head(pending)}
    <3>1. urlQueue' = urlQueue \/ urlQueue' = Append(urlQueue, Head(pending))
      BY <1>3 DEF SendLink
    <3>2. \A m \in LinksIn(urlQueue) : Before(m, Head(pending))
      BY <2>2 DEF PipelineOrdered, Ahead
    <3> QED
      BY <2>1, <2>2, <3>1, <3>2, AppendOrder DEF PipelineOrdered
  <2>4. CASE urlQueue' = urlQueue
    BY <2>1, <2>2, <2>4 DEF PipelineOrdered, Ahead
  <2>5. CASE /\ InOrder(urlQueue')
             /\ LinksIn(urlQueue') = LinksIn(urlQueue) \cup {Head(pending)}
    BY <2>1, <2>2, <2>5 DEF PipelineOrdered, Ahead
  <2> QED
    BY <2>3, <2>4, <2>5
<1>4. CASE GotAttachment
  <2>1. /\ attachQueue # <<>> /\ attachQueue \in Seq(Link) /\ attached \in Seq(Link)
        /\ attachQueue' = Tail(attachQueue)
        /\ UNCHANGED <<urlQueue, pending, inHand, stored>>
    BY <1>4 DEF TypeOK, GotAttachment
  <2>2. /\ InOrder(attachQueue') /\ LinksIn(attachQueue') \subseteq LinksIn(attachQueue)
        /\ Head(attachQueue) \in LinksIn(attachQueue) /\ Head(attachQueue) \in Link
        /\ \A m \in LinksIn(attachQueue') : Before(Head(attachQueue), m)
    BY <2>1, TailOrder, HeadTail DEF PipelineOrdered
  <2>3. \/ attached' = attached
        \/ /\ InOrder(attached')
           /\ LinksIn(attached') = LinksIn(attached) \cup {Head(attachQueue)}
    <3>1. attached' = attached \/ attached' = Append(attached, Head(attachQueue))
      BY <1>4 DEF GotAttachment
    <3>2. \A m \in LinksIn(attached) : Before(m, Head(attachQueue))
      BY <2>2 DEF PipelineOrdered, Ahead
    <3> QED
      BY <2>1, <2>2, <3>1, <3>2, AppendOrder DEF PipelineOrdered
  <2>4. CASE attached' = attached
    BY <2>1, <2>2, <2>4 DEF PipelineOrdered, Ahead
  <2>5. CASE /\ InOrder(attached')
             /\ LinksIn(attached') = LinksIn(attached) \cup {Head(attachQueue)}
    BY <2>1, <2>2, <2>5 DEF PipelineOrdered, Ahead
  <2> QED
    BY <2>3, <2>4, <2>5
<1>7. CASE TakeLink
  <2>1. /\ urlQueue # <<>> /\ urlQueue \in Seq(Link)
        /\ urlQueue' = Tail(urlQueue) /\ inHand' = <<Head(urlQueue)>>
        /\ UNCHANGED <<attached, attachQueue, pending, stored>>
    BY <1>7 DEF TypeOK, TakeLink
  <2>2. /\ InOrder(urlQueue') /\ LinksIn(urlQueue') \subseteq LinksIn(urlQueue)
        /\ Head(urlQueue) \in LinksIn(urlQueue) /\ Head(urlQueue) \in Link
        /\ \A m \in LinksIn(urlQueue') : Before(Head(urlQueue), m)
    BY <2>1, TailOrder, HeadTail DEF PipelineOrdered
  <2>3. InOrder(inHand') /\ LinksIn(inHand') = {Head(urlQueue)}
    BY <2>1, <2>2, SingleOrder
  <2> QED
    BY <2>1, <2>2, <2>3 DEF PipelineOrdered, Ahead
<1>8. CASE SendResult
  <2>1. /\ inHand \in Seq(Link) /\ Len(inHand) = 1 /\ attachQueue \in Seq(Link)
        /\ attachQueue' = Append(attachQueue, Head(inHand)) /\ inHand' = <<>>
        /\ UNCHANGED <<attached, urlQueue, pending, stored>>
    BY <1>8 DEF TypeOK, SendResult
  <2>2. Head(inHand) \in Link /\ Head(inHand) \in LinksIn(inHand)
    BY <2>1, SingleHead DEF LinksIn
  <2>3. \A m \in LinksIn(attachQueue) : Before(m, Head(inHand))
    BY <2>2 DEF PipelineOrdered, Ahead
  <2>4. /\ InOrder(attachQueue')
        /\ LinksIn(attachQueue') = LinksIn(attachQueue) \cup {Head(inHand)}
    BY <2>1, <2>2, <2>3, AppendOrder DEF PipelineOrdered
  <2>5. InOrder(inHand') /\ LinksIn(inHand') = {}
    BY <2>1, EmptyOrder
  <2> QED
    BY <2>1, <2>2, <2>4, <2>5 DEF PipelineOrdered, Ahead
<1>10. CASE HeadAnswered
  <2>1. UNCHANGED <<attached, attachQueue, urlQueue, pending, stored>>
    BY <1>10 DEF HeadAnswered
  <2>2. CASE inHand' = inHand
    BY <2>1, <2>2 DEF PipelineOrdered
  <2>3. CASE inHand' = <<>>
    <3>1. InOrder(inHand') /\ LinksIn(inHand') = {}
      BY <2>3, EmptyOrder
    <3> QED
      BY <2>1, <3>1 DEF PipelineOrdered, Ahead
  <2> QED
    BY <1>10, <2>2, <2>3 DEF HeadAnswered
<1>11. CASE Shutdown \/ ManagerBreaks \/ ManagerStops \/ TaskStops \/ UNCHANGED vars
  <2>1. UNCHANGED <<attached, attachQueue, inHand, urlQueue, pending, stored>>
    BY <1>11 DEF Shutdown, ManagerBreaks, ManagerStops, TaskStops, vars
  <2> QED
    BY <2>1 DEF PipelineOrdered
<1> QED
  BY <1>1, <1>3, <1>4, <1>7, <1>8, <1>10, <1>11 DEF Next, ManagerRuns, TaskRuns

\* What is stored is the front of the pipeline.
LEMMA OrderStored == TypeOK /\ PipelineOrdered => AttachmentsInOrder
  BY DEF PipelineOrdered, AttachmentsInOrder, InOrder, LinksIn

\* Attachments are stored and announced at most once, in the order of the
\* links, and after their message, whatever the two tasks do when.
THEOREM AttachedInOrder == Spec => []AttachmentsInOrder
<1>1. Init => TypeOK /\ PipelineOrdered
  BY TypeInit, OrderInit
<1>2. TypeOK /\ PipelineOrdered /\ [Next]_vars => (TypeOK /\ PipelineOrdered)'
  BY TypeNext, OrderNext
<1> QED
  BY <1>1, <1>2, OrderStored, PTL DEF Spec

-----------------------------------------------------------------------------
(* The refinement of History: the steps above, told in the messages of the  *)
(* links.                                                                   *)

\* The messages of a queue of links, and of what is put in or taken out.
LEMMA MessagesType ==
  ASSUME NEW s \in Seq(Link)
  PROVE  /\ MessagesOf(s) \in Seq(Nat) /\ Len(MessagesOf(s)) = Len(s)
         /\ \A l \in Link : MessagesOf(Append(s, l)) = Append(MessagesOf(s), l.message)
         /\ s # <<>> => /\ MessagesOf(s) = <<Head(s).message>> \o MessagesOf(Tail(s))
                        /\ Head(s).message \in Nat
<1>0. \A l \in Link : l.message \in Nat
  BY DEF Link
<1>1. \A i \in DOMAIN s : s[i] \in Link /\ s[i].message \in Nat
  BY <1>0
<1>2. MessagesOf(s) \in Seq(Nat) /\ Len(MessagesOf(s)) = Len(s)
  BY <1>1 DEF MessagesOf
<1>3. ASSUME NEW l \in Link
      PROVE  MessagesOf(Append(s, l)) = Append(MessagesOf(s), l.message)
  <2>1. l.message \in Nat
    BY DEF Link
  <2> QED
    BY <1>1, <1>2, <2>1 DEF MessagesOf
<1>4. ASSUME s # <<>>
      PROVE  /\ MessagesOf(s) = <<Head(s).message>> \o MessagesOf(Tail(s))
             /\ Head(s).message \in Nat
  <2>1. Tail(s) \in Seq(Link) /\ Len(Tail(s)) = Len(s) - 1 /\ Len(s) \in Nat \ {0}
        /\ Head(s) = s[1] /\ \A i \in 1..(Len(s) - 1) : Tail(s)[i] = s[i + 1]
    BY <1>4
  <2>2. s[1].message \in Nat
    BY <1>1, <2>1
  <2> QED
    BY <1>1, <1>2, <2>1, <2>2 DEF MessagesOf
<1> QED
  BY <1>2, <1>3, <1>4

\* Sequences joined in another order.
LEMMA Joins ==
  ASSUME NEW r \in Seq(Nat), NEW s \in Seq(Nat), NEW t \in Seq(Nat)
  PROVE  (r \o s) \o t = r \o (s \o t)
  OBVIOUS

LEMMA JoinsType ==
  ASSUME NEW s \in Seq(Nat), NEW t \in Seq(Nat)
  PROVE  s \o t \in Seq(Nat)
  OBVIOUS

LEMMA JoinsOne ==
  ASSUME NEW s \in Seq(Nat), NEW n \in Nat
  PROVE  /\ <<n>> \in Seq(Nat) /\ Append(s, n) = s \o <<n>>
         /\ <<>> \o s = s /\ s \o <<>> = s /\ <<>> \in Seq(Nat)
  OBVIOUS

\* Taking one element out of a sequence.
LEMMA OneLost ==
  ASSUME NEW s \in Seq(Nat), NEW t \in Seq(Nat), NEW n \in Nat
  PROVE  \E i \in DOMAIN (s \o <<n>> \o t) : s \o t = Answers!RemoveAt(s \o <<n>> \o t, i)
<1> DEFINE u == s \o <<n>> \o t
           i == Len(s) + 1
<1>1. i \in DOMAIN u /\ Len(u) = Len(s) + 1 + Len(t)
  OBVIOUS
<1>2. SubSeq(u, 1, i - 1) = s
  OBVIOUS
<1>3. SubSeq(u, i + 1, Len(u)) = t
  OBVIOUS
<1>4. s \o t = Answers!RemoveAt(u, i)
  BY <1>2, <1>3 DEF Answers!RemoveAt
<1> QED
  BY <1>1, <1>4

Way(a, h, u, p) == a \o h \o u \o p
Lost(s, t) == \E i \in DOMAIN s : t = Answers!RemoveAt(s, i)

\* A message passed from one queue to the next is the same sequence under way.
LEMMA LinkPassed ==
  ASSUME NEW a \in Seq(Nat), NEW h \in Seq(Nat), NEW u \in Seq(Nat), NEW p \in Seq(Nat), NEW n \in Nat
  PROVE  Way(a, h, Append(u, n), p) = Way(a, h, u, <<n>> \o p)
<1> DEFINE b == a \o h
<1>1. b \in Seq(Nat) /\ b \o u \in Seq(Nat) /\ <<n>> \in Seq(Nat) /\ Append(u, n) = u \o <<n>>
  BY JoinsType, JoinsOne
<1>2. b \o (u \o <<n>>) = (b \o u) \o <<n>>
  BY <1>1, Joins
<1>3. ((b \o u) \o <<n>>) \o p = (b \o u) \o (<<n>> \o p)
  BY <1>1, Joins
<1> QED
  BY <1>1, <1>2, <1>3 DEF Way

LEMMA LinkTaken ==
  ASSUME NEW a \in Seq(Nat), NEW u \in Seq(Nat), NEW p \in Seq(Nat), NEW n \in Nat
  PROVE  Way(a, <<>>, <<n>> \o u, p) = Way(a, <<n>>, u, p)
<1>1. a \o <<>> = a /\ <<n>> \in Seq(Nat)
  BY JoinsOne
<1>2. a \o (<<n>> \o u) = (a \o <<n>>) \o u
  BY <1>1, Joins
<1> QED
  BY <1>1, <1>2 DEF Way

LEMMA ResultPassed ==
  ASSUME NEW a \in Seq(Nat), NEW n \in Nat, NEW u, NEW p
  PROVE  Way(Append(a, n), <<>>, u, p) = Way(a, <<n>>, u, p)
<1>1. Append(a, n) = a \o <<n>> /\ Append(a, n) \in Seq(Nat) /\ Append(a, n) \o <<>> = Append(a, n)
  BY JoinsOne
<1> QED
  BY <1>1 DEF Way

\* A lost one leaves the rest of it.
LEMMA LinkLost ==
  ASSUME NEW a \in Seq(Nat), NEW h \in Seq(Nat), NEW u \in Seq(Nat), NEW p \in Seq(Nat), NEW n \in Nat
  PROVE  Lost(Way(a, h, u, <<n>> \o p), Way(a, h, u, p))
<1>1. <<n>> \in Seq(Nat) /\ a \o h \o u \in Seq(Nat)
  BY JoinsOne, JoinsType
<1>2. Lost(a \o h \o u \o <<n>> \o p, a \o h \o u \o p)
  BY <1>1, OneLost DEF Lost
<1>3. (a \o h \o u) \o <<n>> \o p = (a \o h \o u) \o (<<n>> \o p)
  BY <1>1, Joins
<1> QED
  BY <1>2, <1>3 DEF Way

LEMMA HandLost ==
  ASSUME NEW a \in Seq(Nat), NEW u \in Seq(Nat), NEW p \in Seq(Nat), NEW n \in Nat
  PROVE  Lost(Way(a, <<n>>, u, p), Way(a, <<>>, u, p))
<1>1. u \o p \in Seq(Nat) /\ a \o <<n>> \in Seq(Nat)
  BY JoinsOne, JoinsType
<1>2. Lost(a \o <<n>> \o (u \o p), a \o (u \o p))
  BY <1>1, OneLost DEF Lost
<1>3. (a \o <<n>>) \o (u \o p) = (a \o <<n>>) \o u \o p
  BY <1>1, Joins
<1>4. a \o (u \o p) = a \o u \o p
  BY Joins
<1>5. a \o <<>> = a
  BY JoinsOne
<1> QED
  BY <1>2, <1>3, <1>4, <1>5 DEF Way

LEMMA FirstLost ==
  ASSUME NEW s \in Seq(Nat), NEW n \in Nat
  PROVE  Lost(<<n>> \o s, s)
<1>1. <<>> \in Seq(Nat) /\ <<>> \o <<n>> \o s = <<n>> \o s /\ <<>> \o s = s
  BY JoinsOne
<1>2. Lost(<<>> \o <<n>> \o s, <<>> \o s)
  BY <1>1, OneLost DEF Lost
<1> QED
  BY <1>1, <1>2

\* The rows while nothing is stored, and when a message or an attachment is.
LEMMA RowsKept == UNCHANGED <<stored, attached>> => Rows' = Rows
  BY DEF Rows

LEMMA RowOfMsg ==
  ASSUME stored \in Nat, \A i \in DOMAIN attached : attached[i].message \in 1..stored,
         stored' = stored + 1, attached' = attached
  PROVE  Rows' = Append(Rows, [time |-> 0, attachments |-> 0]) /\ Len(Rows) = stored
<1> DEFINE N(i) == Cardinality({j \in DOMAIN attached : attached[j].message = i})
<1>1. N(stored + 1) = 0
  <2>1. {j \in DOMAIN attached : attached[j].message = stored + 1} = {}
    OBVIOUS
  <2> QED
    BY <2>1, FS_EmptySet
<1>2. /\ Rows = [i \in 1..stored |-> [time |-> 0, attachments |-> N(i)]]
      /\ Rows' = [i \in 1..(stored + 1) |-> [time |-> 0, attachments |-> N(i)]]
  BY DEF Rows
<1> HIDE DEF N
<1>3. 1..(stored + 1) = (1..stored) \cup {stored + 1}
  OBVIOUS
<1> QED
  BY <1>1, <1>2, <1>3

LEMMA RowOfAttachment ==
  ASSUME stored \in Nat, attached \in Seq(Link), NEW l \in Link, l.message \in 1..stored,
         stored' = stored, attached' = Append(attached, l)
  PROVE  /\ l.message \in DOMAIN Rows
         /\ Rows' = [Rows EXCEPT ![l.message].attachments = Rows[l.message].attachments + 1]
<1> DEFINE S(i) == {j \in DOMAIN attached : attached[j].message = i}
           T(i) == {j \in DOMAIN attached' : attached'[j].message = i}
           n    == Len(attached) + 1
<1>1. /\ n \in Nat /\ n \notin DOMAIN attached /\ DOMAIN attached' = (DOMAIN attached) \cup {n}
      /\ attached'[n] = l /\ \A j \in DOMAIN attached : attached'[j] = attached[j]
  OBVIOUS
<1>2. \A i : IsFiniteSet(S(i))
  <2>1. IsFiniteSet(1..Len(attached)) /\ DOMAIN attached = 1..Len(attached)
    BY FS_Interval
  <2>2. \A i : S(i) \subseteq 1..Len(attached)
    BY <2>1
  <2> QED
    BY <2>1, <2>2, FS_Subset
<1>3. \A i : i # l.message => T(i) = S(i)
  BY <1>1
<1>4. T(l.message) = S(l.message) \cup {n} /\ n \notin S(l.message)
  BY <1>1
<1>5. /\ Rows = [i \in 1..stored |-> [time |-> 0, attachments |-> Cardinality(S(i))]]
      /\ Rows' = [i \in 1..stored |-> [time |-> 0, attachments |-> Cardinality(T(i))]]
  BY DEF Rows
<1> HIDE DEF S, T, n
<1>6. Cardinality(T(l.message)) = Cardinality(S(l.message)) + 1
  BY <1>2, <1>4, FS_AddElement
<1> QED
  BY <1>3, <1>5, <1>6

\* What the steps do to the sequence of links under way.
LEMMA UnderWayMoves ==
  ASSUME TypeOK, TypeOK', [Next]_vars
  PROVE  \/ UnderWay' = UnderWay /\ UNCHANGED <<stored, attached>>
         \/ Lost(UnderWay, UnderWay') /\ UNCHANGED <<stored, attached>>
         \/ /\ attachQueue # <<>> /\ attached' = Append(attached, Head(attachQueue))
            /\ UnderWay = <<Head(attachQueue).message>> \o UnderWay'
            /\ UNCHANGED stored
         \/ \E k \in 0..MaxOutstanding :
              /\ stored < MaxMessages /\ stored' = stored + 1 /\ UNCHANGED attached
              /\ UnderWay' = UnderWay \o [i \in 1..k |-> stored + 1]
<1> DEFINE results == MessagesOf(attachQueue)
           hand    == MessagesOf(inHand)
           waiting == MessagesOf(urlQueue)
           unsent  == MessagesOf(pending)
<1>0. /\ results \in Seq(Nat) /\ hand \in Seq(Nat) /\ waiting \in Seq(Nat) /\ unsent \in Seq(Nat)
      /\ results' \in Seq(Nat) /\ hand' \in Seq(Nat) /\ waiting' \in Seq(Nat) /\ unsent' \in Seq(Nat)
      /\ UnderWay = Way(results, hand, waiting, unsent) /\ UnderWay' = Way(results', hand', waiting', unsent')
  BY MessagesType DEF TypeOK, UnderWay, Way
<1>1. ASSUME NEW k \in 0..MaxOutstanding, TakeMsg(k)
      PROVE  /\ stored < MaxMessages /\ stored' = stored + 1 /\ UNCHANGED attached
             /\ UnderWay' = UnderWay \o [i \in 1..k |-> stored + 1]
  <2>1. unsent' = [i \in 1..k |-> stored + 1]
    BY <1>1, CapacityAssumption DEF TakeMsg, LinksOf, MessagesOf
  <2>2. unsent = <<>> /\ results' = results /\ hand' = hand /\ waiting' = waiting
    BY <1>1 DEF TakeMsg, Polling, MessagesOf
  <2> HIDE DEF results, hand, waiting, unsent
  <2>3. UnderWay = results \o hand \o waiting
    BY <1>0, <2>2, JoinsType, JoinsOne DEF Way
  <2> QED
    BY <1>1, <1>0, <2>1, <2>2, <2>3 DEF TakeMsg, Way
<1>3. CASE SendLink
  <2> DEFINE m == Head(pending).message
  <2>1. m \in Nat /\ unsent = <<m>> \o unsent' /\ (waiting' = Append(waiting, m) \/ waiting' = waiting)
    BY <1>3, MessagesType, HeadTail DEF SendLink, TypeOK
  <2>2. results' = results /\ hand' = hand /\ UNCHANGED <<stored, attached>>
    BY <1>3 DEF SendLink
  <2> HIDE DEF results, hand, waiting, unsent, m
  <2>3. CASE waiting' = Append(waiting, m)
    <3>1. Way(results, hand, Append(waiting, m), unsent') = Way(results, hand, waiting, <<m>> \o unsent')
      BY <1>0, <2>1, LinkPassed
    <3> QED
      BY <1>0, <2>1, <2>2, <2>3, <3>1
  <2>4. CASE waiting' = waiting
    <3>1. Lost(Way(results, hand, waiting, <<m>> \o unsent'), Way(results, hand, waiting, unsent'))
      BY <1>0, <2>1, LinkLost
    <3> QED
      BY <1>0, <2>1, <2>2, <2>4, <3>1
  <2> QED
    BY <2>1, <2>3, <2>4
<1>4. CASE GotAttachment
  <2> DEFINE m == Head(attachQueue).message
  <2>1. m \in Nat /\ results = <<m>> \o results' /\ attachQueue # <<>>
    BY <1>4, MessagesType DEF GotAttachment, TypeOK
  <2>2. /\ hand' = hand /\ waiting' = waiting /\ unsent' = unsent /\ UNCHANGED stored
        /\ attached' = attached \/ attached' = Append(attached, Head(attachQueue))
    BY <1>4 DEF GotAttachment
  <2> HIDE DEF results, hand, waiting, unsent, m
  <2>3. m \in Nat /\ UnderWay = <<m>> \o UnderWay' /\ UnderWay' \in Seq(Nat)
    <3> DEFINE first == <<m>>
               b == results' \o hand
               c == b \o waiting
    <3>1. /\ first \in Seq(Nat) /\ results' \in Seq(Nat) /\ hand \in Seq(Nat)
          /\ waiting \in Seq(Nat) /\ unsent \in Seq(Nat)
      BY <1>0, <2>1, JoinsOne
    <3> HIDE DEF first
    <3>3. (first \o results') \o hand = first \o b
      BY <3>1, Joins
    <3>4. b \in Seq(Nat) /\ c \in Seq(Nat)
      BY <3>1, JoinsType
    <3> HIDE DEF b
    <3>5. (first \o b) \o waiting = first \o c
      <4>1. first \in Seq(Nat) /\ b \in Seq(Nat) /\ waiting \in Seq(Nat)
        BY <3>1, <3>4
      <4> QED
        BY <4>1, Joins
    <3> HIDE DEF c
    <3>6. (first \o c) \o unsent = first \o (c \o unsent)
      <4>1. first \in Seq(Nat) /\ c \in Seq(Nat) /\ unsent \in Seq(Nat)
        BY <3>1, <3>4
      <4> QED
        BY <4>1, Joins
    <3>7. UnderWay = first \o UnderWay'
      BY <1>0, <2>1, <2>2, <3>3, <3>5, <3>6 DEF Way, first, b, c
    <3>2. UnderWay' \in Seq(Nat)
      BY <1>0, JoinsType DEF Way
    <3> QED
      BY <2>1, <3>2, <3>7 DEF first
  <2>4. Lost(UnderWay, UnderWay')
    BY <2>3, FirstLost
  <2> QED
    BY <2>1, <2>2, <2>3, <2>4 DEF m
<1>5. CASE TakeLink
  <2> DEFINE m == Head(urlQueue).message
  <2>1. m \in Nat /\ waiting = <<m>> \o waiting'
    BY <1>5, MessagesType DEF TakeLink, TypeOK
  <2>2. results' = results /\ unsent' = unsent /\ hand = <<>> /\ UNCHANGED <<stored, attached>>
    BY <1>5 DEF TakeLink, TypeOK, MessagesOf
  <2>3. hand' = <<m>>
    BY <1>5 DEF TakeLink, MessagesOf
  <2> HIDE DEF results, hand, waiting, unsent, m
  <2>4. Way(results, <<>>, <<m>> \o waiting', unsent) = Way(results, <<m>>, waiting', unsent)
    BY <1>0, <2>1, LinkTaken
  <2> QED
    BY <1>0, <2>1, <2>2, <2>3, <2>4
<1>6. CASE SendResult \/ HeadAnswered
  <2> DEFINE m == Head(inHand).message
  <2>1. inHand \in Seq(Link) /\ Len(inHand) = 1
    BY <1>6 DEF SendResult, HeadAnswered, TypeOK
  <2>2. Head(inHand) \in Link
    BY <2>1, SingleHead
  <2>5. m \in Nat
    BY <2>2 DEF Link
  <2>6. hand = <<m>>
    BY <2>1 DEF MessagesOf
  <2>3. waiting' = waiting /\ unsent' = unsent /\ UNCHANGED <<stored, attached>>
    BY <1>6 DEF SendResult, HeadAnswered
  <2>4. \/ hand' = <<>> /\ results' = Append(results, m)
        \/ hand' = hand /\ results' = results
        \/ hand' = <<>> /\ results' = results
    <3>1. MessagesOf(<<>>) = <<>>
      BY DEF MessagesOf
    <3>2. MessagesOf(Append(attachQueue, Head(inHand))) = Append(results, m)
      BY <2>2, MessagesType DEF TypeOK
    <3> QED
      BY <1>6, <3>1, <3>2 DEF SendResult, HeadAnswered
  <2> HIDE DEF results, hand, waiting, unsent, m
  <2>7. /\ Way(Append(results, m), <<>>, waiting, unsent) = Way(results, <<m>>, waiting, unsent)
        /\ Lost(Way(results, <<m>>, waiting, unsent), Way(results, <<>>, waiting, unsent))
    BY <1>0, <2>5, ResultPassed, HandLost
  <2> QED
    BY <1>0, <2>3, <2>4, <2>6, <2>7
<1>8. CASE Shutdown \/ ManagerBreaks \/ ManagerStops \/ TaskStops \/ UNCHANGED vars
  <2>1. UNCHANGED <<stored, attached, attachQueue, inHand, urlQueue, pending>>
    BY <1>8 DEF Shutdown, ManagerBreaks, ManagerStops, TaskStops, vars
  <2> QED
    BY <2>1 DEF UnderWay
<1> QED
  BY <1>1, <1>3, <1>4, <1>5, <1>6, <1>8 DEF Next, ManagerRuns, TaskRuns

\* Every link of the pipeline is of a message that is stored.
LEMMA LinksOfMessages ==
  TypeOK /\ PipelineOrdered => /\ \A i \in DOMAIN attached : attached[i].message \in 1..stored
                               /\ attachQueue # <<>> => Head(attachQueue).message \in 1..stored
<1> SUFFICES ASSUME TypeOK, PipelineOrdered
             PROVE  /\ \A i \in DOMAIN attached : attached[i].message \in 1..stored
                    /\ attachQueue # <<>> => Head(attachQueue).message \in 1..stored
  OBVIOUS
<1>1. \A i \in DOMAIN attached : attached[i] \in LinksIn(attached)
  BY DEF LinksIn
<1>2. attachQueue # <<>> => Head(attachQueue) \in LinksIn(attachQueue)
  BY TailOrder DEF TypeOK, PipelineOrdered
<1> QED
  BY <1>1, <1>2 DEF PipelineOrdered

\* The first message has not been stored.
LEMMA AnswersInit == Init => Answers!Init
<1> SUFFICES ASSUME Init PROVE Rows = <<>> /\ UnderWay = <<>>
  BY DEF Answers!Init
<1>1. Rows = <<>>
  BY DEF Init, Rows
<1>2. MessagesOf(<<>>) = <<>>
  BY DEF MessagesOf
<1> QED
  BY <1>1, <1>2 DEF Init, UnderWay

\* Every step is a step of History, or changes nothing it knows.
LEMMA AnswersStep ==
  TypeOK /\ TypeOK' /\ PipelineOrdered /\ [Next]_vars => [Answers!Runs]_(Answers!vars)
<1> SUFFICES ASSUME TypeOK, TypeOK', PipelineOrdered, [Next]_vars
             PROVE  [Answers!Runs]_(Answers!vars)
  OBVIOUS
<1>0. /\ stored \in Nat /\ attached \in Seq(Link) /\ attachQueue \in Seq(Link)
      /\ \A i \in DOMAIN attached : attached[i].message \in 1..stored
      /\ attachQueue # <<>> => /\ Head(attachQueue) \in Link
                               /\ Head(attachQueue).message \in 1..stored
  BY LinksOfMessages, HeadTail DEF TypeOK
<1>1. ASSUME UnderWay' = UnderWay, UNCHANGED <<stored, attached>>
      PROVE  UNCHANGED Answers!vars
  BY <1>1, RowsKept DEF Answers!vars
<1>2. ASSUME Lost(UnderWay, UnderWay'), UNCHANGED <<stored, attached>>
      PROVE  Answers!Runs
  <2>1. Answers!NoAttachment
    BY <1>2, RowsKept DEF Answers!NoAttachment, Lost
  <2> QED
    BY <2>1 DEF Answers!Runs
<1>3. ASSUME attachQueue # <<>>, attached' = Append(attached, Head(attachQueue)),
             UnderWay = <<Head(attachQueue).message>> \o UnderWay', UNCHANGED stored
      PROVE  Answers!Runs
  <2> DEFINE m == Head(attachQueue).message
  <2>1. /\ m \in DOMAIN Rows
        /\ Rows' = [Rows EXCEPT ![m].attachments = Rows[m].attachments + 1]
    BY <1>0, <1>3, RowOfAttachment
  <2>2. UnderWay' \in Seq(Nat) /\ m \in Nat
    <3>1. /\ MessagesOf(attachQueue') \in Seq(Nat) /\ MessagesOf(inHand') \in Seq(Nat)
          /\ MessagesOf(urlQueue') \in Seq(Nat) /\ MessagesOf(pending') \in Seq(Nat)
      BY MessagesType DEF TypeOK
    <3> QED
      BY <1>0, <1>3, <3>1, JoinsType DEF UnderWay, MessagesOf, Link
  <2> HIDE DEF m
  <2>3. UnderWay # <<>> /\ Head(UnderWay) = m /\ Tail(UnderWay) = UnderWay'
    <3>1. \A s \in Seq(Nat) : <<m>> \o s # <<>> /\ Head(<<m>> \o s) = m /\ Tail(<<m>> \o s) = s
      BY <2>2
    <3> QED
      BY <1>3, <2>2, <3>1 DEF m
  <2>4. Answers!AddAttachment
    BY <2>1, <2>3 DEF Answers!AddAttachment, Answers!AddMessageAttachment, Answers!Broadcast
  <2> QED
    BY <2>4 DEF Answers!Runs
<1>4. ASSUME NEW k \in 0..MaxOutstanding, stored < MaxMessages, stored' = stored + 1,
             UNCHANGED attached, UnderWay' = UnderWay \o [i \in 1..k |-> stored + 1]
      PROVE  Answers!Runs
  <2>1. Rows' = Append(Rows, [time |-> 0, attachments |-> 0]) /\ Len(Rows) = stored
    BY <1>0, <1>4, RowOfMsg
  <2>2. Answers!Msg(0, k)
    BY <1>4, <2>1 DEF Answers!Msg, Answers!Broadcast
  <2> QED
    BY <2>2 DEF Answers!Runs
<1> QED
  BY <1>1, <1>2, <1>3, <1>4, UnderWayMoves

\* Whatever the two tasks do when, for any capacities and any workload, what they
\* do to the links is what History takes for granted.
THEOREM PipelineImplementsAnswers == Spec => AnswersImplemented
<1>1. Init => TypeOK /\ PipelineOrdered
  BY TypeInit, OrderInit
<1>2. TypeOK /\ PipelineOrdered /\ [Next]_vars => (TypeOK /\ PipelineOrdered)'
  BY TypeNext, OrderNext
<1>3. TypeOK /\ TypeOK' /\ PipelineOrdered /\ [Next]_vars => [Answers!Runs]_(Answers!vars)
  BY AnswersStep
<1> QED
  BY <1>1, <1>2, <1>3, AnswersInit, PTL DEF Spec, AnswersImplemented
=============================================================================
