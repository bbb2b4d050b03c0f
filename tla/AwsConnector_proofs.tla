------------------------ MODULE AwsConnector_proofs ------------------------
(***************************************************************************)
(* Proofs about the AWS connector, for every size of its message queue.    *)
(*                                                                         *)
(* The argument: the phase events in the queue are exactly the phases the  *)
(* client announced and the thread has not taken, one of each, the lowest  *)
(* first.  That is the inductive invariant IInv; type correctness, the     *)
(* order in which events meet states, the completeness of the queue, the   *)
(* single shadow request and the refinement of PhaseTracker follow.        *)
(***************************************************************************)
EXTENDS AwsConnector, TLAPS

\* The first phase event the thread has not taken from the queue.
Base == IF thread = "send" THEN AWS_STATE_READY ELSE state

\* Phase events lie between what was taken and what was announced ...
InRange ==
    \A i \in 1 .. Len(queue) :
        queue[i] \in LinkEvents => Base <= queue[i] /\ queue[i] < announced

\* ... increase along the queue ...
Increasing ==
    \A i, j \in 1 .. Len(queue) :
        i < j /\ queue[i] \in LinkEvents /\ queue[j] \in LinkEvents
            => queue[i] < queue[j]

\* ... and are all there.
Complete ==
    \A e \in LinkEvents :
        Base <= e /\ e < announced => \E i \in 1 .. Len(queue) : queue[i] = e

\* What the client announced is what its session went through.
Session ==
    /\ client = "asked"      => announced = 0
    /\ client = "connecting" => announced = 1
    /\ client = "connected"  => announced = 2
    /\ client = "ready"      => announced = 3
    /\ thread \in {"init", "connect"} => client = "off" /\ announced = 0

\* The thread's position, its state and the requests it made.
Progress ==
    /\ state <= AWS_STATE_READY
    /\ Base <= announced
    /\ thread = "send" => state = AWS_STATE_CONNECTED
    /\ sends = IF Base = AWS_STATE_READY THEN 1 ELSE 0

IInv == TypeOK /\ InRange /\ Increasing /\ Complete /\ Session /\ Progress

-----------------------------------------------------------------------------
(* Facts about sequences the steps need.                                   *)

\* What Append does to length and elements.
LEMMA AppendFacts ==
    ASSUME NEW S, NEW q \in Seq(S), NEW e \in S
    PROVE  /\ Append(q, e) \in Seq(S)
           /\ Len(Append(q, e)) = Len(q) + 1
           /\ Len(q) \in Nat
           /\ \A i \in 1 .. Len(q) : Append(q, e)[i] = q[i] /\ q[i] \in S
           /\ Append(q, e)[Len(q) + 1] = e
OBVIOUS

\* What Tail does to length and elements.
LEMMA TailFacts ==
    ASSUME NEW S, NEW q \in Seq(S), q # <<>>
    PROVE  /\ Tail(q) \in Seq(S)
           /\ Len(Tail(q)) = Len(q) - 1
           /\ Len(q) \in Nat /\ Len(q) >= 1
           /\ \A i \in 1 .. Len(q) - 1 : Tail(q)[i] = q[i + 1] /\ q[i + 1] \in S
           /\ Head(q) = q[1] /\ q[1] \in S
OBVIOUS

-----------------------------------------------------------------------------
(* The queue: what adding and taking an event does to its contents.        *)

\* A phase event at the head of the queue is the next one to take.
LEMMA HeadIsBase ==
    ASSUME IInv, queue # <<>>, Head(queue) \in LinkEvents
    PROVE  Head(queue) = Base
<1> DEFINE h == Head(queue)
<1>1. /\ Len(queue) \in Nat /\ Len(queue) >= 1
      /\ h = queue[1]
  BY TailFacts DEF IInv, TypeOK
<1>2. Base \in 0 .. 3 /\ announced \in 0 .. 3
  BY DEF IInv, TypeOK, Progress, Base, States, AWS_STATE_OFFLINE,
         AWS_STATE_DISCONNECTING, AWS_STATE_READY
<1>3. Base <= h /\ h < announced
  BY <1>1 DEF IInv, InRange
<1>4. h \in 0 .. 2
  BY DEF LinkEvents, AWS_EVENT_CONNECTING, AWS_EVENT_CONNECTED, AWS_EVENT_READY
<1>5. CASE Base # h
  <2>1. Base \in LinkEvents /\ Base < announced
    BY <1>2, <1>3, <1>4, <1>5
    DEF LinkEvents, AWS_EVENT_CONNECTING, AWS_EVENT_CONNECTED, AWS_EVENT_READY
  <2>2. PICK i \in 1 .. Len(queue) : queue[i] = Base
    BY <1>2, <2>1 DEF IInv, Complete
  <2>3. 1 < i
    BY <1>1, <1>5, <2>2
  <2>4. h < Base
    BY <1>1, <2>1, <2>2, <2>3 DEF IInv, Increasing
  <2> QED BY <1>2, <1>3, <1>4, <2>4
<1> QED BY <1>5

\* Adding an event keeps the queue complete and in order, if a phase event is
\* the next phase and is announced with it.
LEMMA PutKeeps ==
    ASSUME IInv, NEW e \in Events,
           queue' = Append(queue, e),
           UNCHANGED <<thread, state>>,
           e \in LinkEvents => announced = e /\ announced' = e + 1,
           e \notin LinkEvents => announced' = announced
    PROVE  InRange' /\ Increasing' /\ Complete'
<1>1. /\ Len(queue') = Len(queue) + 1
      /\ Len(queue) \in Nat
      /\ \A i \in 1 .. Len(queue) : queue'[i] = queue[i] /\ queue[i] \in Events
      /\ queue'[Len(queue) + 1] = e
  BY AppendFacts DEF IInv, TypeOK
<1>2. Base' = Base /\ Base \in 0 .. 3 /\ announced \in 0 .. 3 /\ Base <= announced
  BY DEF IInv, TypeOK, Progress, Base, States, AWS_STATE_OFFLINE,
         AWS_STATE_DISCONNECTING, AWS_STATE_READY
<1>3. LinkEvents = 0 .. 2 /\ Events = 0 .. 4
  BY DEF LinkEvents, Events, AWS_EVENT_CONNECTING, AWS_EVENT_CONNECTED,
         AWS_EVENT_READY, AWS_IOT_SHADOW_RECEIVED
<1>4. announced' \in 0 .. 3 /\ announced <= announced'
  BY <1>2, <1>3
<1>5. InRange'
  <2> SUFFICES ASSUME NEW i \in 1 .. Len(queue) + 1, queue'[i] \in LinkEvents
               PROVE  Base <= queue'[i] /\ queue'[i] < announced'
    BY <1>1, <1>2 DEF InRange
  <2>1. CASE i \in 1 .. Len(queue)
    BY <1>1, <1>2, <1>3, <1>4, <2>1 DEF IInv, InRange
  <2>2. CASE i = Len(queue) + 1
    BY <1>1, <1>2, <1>3, <2>2
  <2> QED BY <1>1, <2>1, <2>2
<1>6. Increasing'
  <2> SUFFICES ASSUME NEW i \in 1 .. Len(queue) + 1, NEW j \in 1 .. Len(queue) + 1,
                      i < j, queue'[i] \in LinkEvents, queue'[j] \in LinkEvents
               PROVE  queue'[i] < queue'[j]
    BY <1>1 DEF Increasing
  <2>1. CASE j \in 1 .. Len(queue)
    BY <1>1, <2>1 DEF IInv, Increasing
  <2>2. CASE j = Len(queue) + 1
    BY <1>1, <2>2 DEF IInv, InRange
  <2> QED BY <1>1, <2>1, <2>2
<1>7. Complete'
  <2> SUFFICES ASSUME NEW d \in LinkEvents, Base <= d, d < announced'
               PROVE  \E i \in 1 .. Len(queue) + 1 : queue'[i] = d
    BY <1>1, <1>2 DEF Complete
  <2>1. CASE d < announced
    <3>1. PICK i \in 1 .. Len(queue) : queue[i] = d
      BY <2>1 DEF IInv, Complete
    <3> QED BY <1>1, <3>1
  <2>2. CASE ~(d < announced)
    <3>1. d = e
      BY <1>2, <1>3, <2>2
    <3> QED BY <1>1, <3>1
  <2> QED BY <2>1, <2>2
<1> QED BY <1>5, <1>6, <1>7

\* Taking an event keeps what is left complete and in order, if a phase event
\* counts as taken.
LEMMA GetKeeps ==
    ASSUME IInv, queue # <<>>,
           queue' = Tail(queue),
           announced' = announced,
           Base' = IF Head(queue) \in LinkEvents THEN Base + 1 ELSE Base
    PROVE  InRange' /\ Increasing' /\ Complete'
<1>1. /\ Len(queue') = Len(queue) - 1
      /\ Len(queue) \in Nat /\ Len(queue) >= 1
      /\ \A i \in 1 .. Len(queue) - 1 :
            queue'[i] = queue[i + 1] /\ queue[i + 1] \in Events
      /\ Head(queue) = queue[1]
  BY TailFacts DEF IInv, TypeOK
<1>2. Base \in 0 .. 3 /\ announced \in 0 .. 3
  BY DEF IInv, TypeOK, Progress, Base, States, AWS_STATE_OFFLINE,
         AWS_STATE_DISCONNECTING, AWS_STATE_READY
<1>3. LinkEvents = 0 .. 2 /\ Events = 0 .. 4
  BY DEF LinkEvents, Events, AWS_EVENT_CONNECTING, AWS_EVENT_CONNECTED,
         AWS_EVENT_READY, AWS_IOT_SHADOW_RECEIVED
<1>4. Head(queue) \in LinkEvents => Head(queue) = Base
  BY HeadIsBase
<1>5. InRange'
  <2> SUFFICES ASSUME NEW i \in 1 .. Len(queue) - 1, queue[i + 1] \in LinkEvents
               PROVE  Base' <= queue[i + 1] /\ queue[i + 1] < announced
    BY <1>1 DEF InRange
  <2>1. Base <= queue[i + 1] /\ queue[i + 1] < announced
    BY <1>1 DEF IInv, InRange
  <2>2. Head(queue) \in LinkEvents => Head(queue) < queue[i + 1]
    BY <1>1 DEF IInv, Increasing
  <2> QED BY <1>2, <1>3, <1>4, <2>1, <2>2
<1>6. Increasing'
  <2> SUFFICES ASSUME NEW i \in 1 .. Len(queue) - 1, NEW j \in 1 .. Len(queue) - 1,
                      i < j, queue[i + 1] \in LinkEvents, queue[j + 1] \in LinkEvents
               PROVE  queue[i + 1] < queue[j + 1]
    BY <1>1 DEF Increasing
  <2> QED BY <1>1 DEF IInv, Increasing
<1>7. Complete'
  <2> SUFFICES ASSUME NEW d \in LinkEvents, Base' <= d, d < announced
               PROVE  \E i \in 1 .. Len(queue) - 1 : queue[i + 1] = d
    BY <1>1 DEF Complete
  <2>1. Base <= d
    BY <1>2, <1>3
  <2>2. PICK i \in 1 .. Len(queue) : queue[i] = d
    BY <2>1 DEF IInv, Complete
  <2>3. i # 1
    BY <1>1, <1>2, <1>3, <1>4, <2>2
  <2>4. i - 1 \in 1 .. Len(queue) - 1 /\ (i - 1) + 1 = i
    BY <1>1, <2>3
  <2> QED BY <2>2, <2>4
<1> QED BY <1>5, <1>6, <1>7

-----------------------------------------------------------------------------
(* The inductive invariant.                                                *)

\* The numbers behind the names of states and events.
LEMMA Codes ==
    /\ States = 0 .. 4 /\ Events = 0 .. 4 /\ LinkEvents = 0 .. 2
    /\ AWS_STATE_OFFLINE = 0 /\ AWS_STATE_CONNECTING = 1
    /\ AWS_STATE_CONNECTED = 2 /\ AWS_STATE_READY = 3
    /\ AWS_EVENT_CONNECTING = 0 /\ AWS_EVENT_CONNECTED = 1
    /\ AWS_EVENT_READY = 2 /\ AWS_EVENT_DISCONNECTED = 3
    /\ AWS_IOT_SHADOW_RECEIVED = 4
BY DEF States, Events, LinkEvents, AWS_STATE_OFFLINE, AWS_STATE_CONNECTING,
       AWS_STATE_CONNECTED, AWS_STATE_READY, AWS_STATE_DISCONNECTING,
       AWS_EVENT_CONNECTING, AWS_EVENT_CONNECTED, AWS_EVENT_READY,
       AWS_EVENT_DISCONNECTED, AWS_IOT_SHADOW_RECEIVED

\* A boot starts in the invariant, whatever the queue size.
LEMMA BootInv ==
    /\ Init => IInv
    /\ aws_connector_init => IInv'
<1> USE Codes, QueueSizeAssumption DEF Base
<1>1. Init => IInv
  BY DEF Init, IInv, TypeOK, InRange, Increasing, Complete, Session, Progress,
         Threads, Callbacks, Clients
<1>2. aws_connector_init => IInv'
  BY DEF aws_connector_init, IInv, TypeOK, InRange, Increasing, Complete, Session,
         Progress, Threads, Callbacks, Clients
<1> QED BY <1>1, <1>2

\* Every variable the invariant's queue conjuncts mention is unchanged.
LEMMA QueueUnchanged ==
    ASSUME IInv, UNCHANGED <<queue, announced>>, Base' = Base
    PROVE  InRange' /\ Increasing' /\ Complete'
BY DEF IInv, InRange, Increasing, Complete

\* A reset leaves the invariant as it is (the RAM is gone, not rewritten).
LEMMA AbortInv == IInv /\ erabort => IInv'
BY DEF IInv, erabort, TypeOK, InRange, Increasing, Complete, Session, Progress, Base

\* The state a handler leaves for the event at the head of the queue is the
\* next phase for a phase event, and the same for any other.
LEMMA HandlerState ==
    ASSUME IInv, queue # <<>>, thread = "wait", ~Requests(Head(queue))
    PROVE  NextState(Head(queue)) =
               IF Head(queue) \in LinkEvents THEN state + 1 ELSE state
<1>1. Head(queue) \in Events
  BY TailFacts DEF IInv, TypeOK
<1>2. Head(queue) \in LinkEvents => Head(queue) = state
  BY HeadIsBase DEF Base
<1>3. state \in 0 .. 3
  BY Codes DEF IInv, TypeOK, Progress
<1> QED
  BY <1>1, <1>2, <1>3, Codes
  DEF NextState, Requests, aws_offline_state, aws_connecting_state,
      aws_connected_state

\* One step of the supervisor thread keeps the invariant.
LEMMA ThreadInv == IInv /\ Thread => IInv'
<1> SUFFICES ASSUME IInv, Thread PROVE IInv'
  OBVIOUS
<1> USE Codes
<1>1. CASE TaskInit
  <2>1. CASE erabort
    BY <2>1, AbortInv
  <2>2. CASE ~erabort
    <3>1. /\ thread = "init" /\ thread' = "connect"
          /\ UNCHANGED <<up, state, queue, callback, client, announced, sends>>
      BY <1>1, <2>2 DEF TaskInit
    <3>2. Base' = Base
      BY <3>1 DEF Base
    <3>3. InRange' /\ Increasing' /\ Complete'
      BY <3>1, <3>2, QueueUnchanged
    <3> QED
      BY <3>1, <3>2, <3>3 DEF IInv, TypeOK, Session, Progress, Threads
  <2> QED BY <2>1, <2>2
<1>2. CASE TaskConnect
  <2>1. Base' = Base
    BY <1>2 DEF TaskConnect, Base
  <2>2. InRange' /\ Increasing' /\ Complete'
    BY <1>2, <2>1, QueueUnchanged DEF TaskConnect
  <2> QED
    BY <1>2, <2>1, <2>2
    DEF TaskConnect, IInv, TypeOK, Session, Progress, Threads, Clients
<1>3. CASE ProcessEvent
  <2> DEFINE h == Head(queue)
  <2>1. state' = IF h \in LinkEvents THEN state + 1 ELSE state
    BY <1>3, HandlerState DEF ProcessEvent
  <2>2. Base = state /\ Base' = state'
    BY <1>3 DEF ProcessEvent, Base
  <2>3. InRange' /\ Increasing' /\ Complete'
    BY <1>3, <2>1, <2>2, GetKeeps DEF ProcessEvent
  <2>4. h \in LinkEvents => state < 2 /\ state + 1 <= announced
    <3>1. h \in LinkEvents => h = state /\ h < announced
      BY <1>3, <2>2, HeadIsBase, TailFacts DEF ProcessEvent, IInv, TypeOK, InRange
    <3>2. h \in LinkEvents => h # AWS_EVENT_READY
      BY <1>3, <3>1 DEF ProcessEvent, Requests
    <3> QED BY <3>1, <3>2 DEF IInv, TypeOK
  <2>5. queue' \in Seq(Events) /\ Len(queue') <= MSG_QUEUE_SZ
    BY <1>3, TailFacts, QueueSizeAssumption DEF ProcessEvent, IInv, TypeOK
  <2> QED
    BY <1>3, <2>1, <2>2, <2>3, <2>4, <2>5
    DEF ProcessEvent, IInv, TypeOK, Session, Progress
<1>4. CASE RequestShadow
  <2>1. Head(queue) \in LinkEvents /\ state = 2 /\ Base = 2 /\ Base' = 3
    BY <1>4 DEF RequestShadow, Requests, Base
  <2>2. InRange' /\ Increasing' /\ Complete'
    BY <1>4, <2>1, GetKeeps DEF RequestShadow
  <2>3. 3 <= announced
    BY <1>4, <2>1, HeadIsBase, TailFacts DEF RequestShadow, IInv, TypeOK, InRange
  <2>4. queue' \in Seq(Events) /\ Len(queue') <= MSG_QUEUE_SZ
    BY <1>4, TailFacts, QueueSizeAssumption DEF RequestShadow, IInv, TypeOK
  <2>5. sends = 0 /\ sends' = 1
    BY <1>4, <2>1 DEF RequestShadow, IInv, Progress
  <2> QED
    BY <1>4, <2>1, <2>2, <2>3, <2>4, <2>5
    DEF RequestShadow, IInv, TypeOK, Session, Progress, Threads
<1>5. CASE SendReturns
  <2>1. Base' = Base
    BY <1>5 DEF SendReturns, Base
  <2>2. InRange' /\ Increasing' /\ Complete'
    BY <1>5, <2>1, QueueUnchanged DEF SendReturns
  <2> QED
    BY <1>5, <2>1, <2>2
    DEF SendReturns, IInv, TypeOK, Session, Progress, Threads, Base
<1> QED BY <1>1, <1>2, <1>3, <1>4, <1>5 DEF Thread

\* One step of the client keeps the invariant.
LEMMA ClientInv == IInv /\ Client => IInv'
<1> SUFFICES ASSUME IInv, Client PROVE IInv'
  OBVIOUS
<1> USE Codes
<1>1. ASSUME NEW e \in Events, NEW next \in Clients, NEW n \in 0 .. 3,
             e \in LinkEvents => announced = e /\ n = e + 1,
             e \notin LinkEvents => n = announced,
             next = "asked"      => n = 0,
             next = "connecting" => n = 1,
             next = "connected"  => n = 2,
             next = "ready"      => n = 3,
             client # "off",
             aws_iot_event_handler(e, next, n)
      PROVE  IInv'
  <2>1. CASE erabort
    BY <2>1, AbortInv
  <2>2. CASE ~erabort
    <3>1. /\ queue' = Append(queue, e) /\ Len(queue) < MSG_QUEUE_SZ
          /\ client' = next /\ announced' = n
          /\ UNCHANGED <<up, thread, state, callback, sends>>
      BY <1>1, <2>2 DEF aws_iot_event_handler, k_msgq_put
    <3>2. InRange' /\ Increasing' /\ Complete'
      BY <1>1, <3>1, PutKeeps
    <3>3. Base' = Base /\ announced <= announced'
      BY <1>1, <3>1 DEF Base, IInv, TypeOK
    <3>4. queue' \in Seq(Events) /\ Len(queue') <= MSG_QUEUE_SZ
      BY <3>1, AppendFacts, QueueSizeAssumption DEF IInv, TypeOK
    <3>5. thread \notin {"init", "connect"}
      BY <1>1 DEF IInv, Session
    <3>6. TypeOK'
      BY <1>1, <3>1, <3>4 DEF IInv, TypeOK
    <3>7. Session'
      BY <1>1, <3>1, <3>5 DEF Session
    <3>8. Progress'
      BY <1>1, <3>1, <3>3 DEF IInv, TypeOK, Progress, Base
    <3> QED BY <3>2, <3>6, <3>7, <3>8 DEF IInv
  <2> QED BY <2>1, <2>2
<1>2. CASE OnConnecting
  BY <1>1, <1>2 DEF OnConnecting, IInv, Session, Clients
<1>3. CASE OnConnected
  BY <1>1, <1>3 DEF OnConnected, IInv, Session, Clients
<1>4. CASE OnReady
  BY <1>1, <1>4 DEF OnReady, IInv, Session, Clients
<1>5. CASE OnDisconnected
  BY <1>1, <1>5 DEF OnDisconnected, IInv, TypeOK, Clients
<1>6. CASE OnDataReceived
  <2>1. Base' = Base
    BY <1>6 DEF OnDataReceived, Base
  <2>2. InRange' /\ Increasing' /\ Complete'
    BY <1>6, <2>1, QueueUnchanged DEF OnDataReceived
  <2> QED
    BY <1>6, <2>1, <2>2
    DEF OnDataReceived, IInv, TypeOK, Session, Progress, Callbacks
<1>7. CASE DataDecoded
  <2>1. CASE erabort
    BY <2>1, AbortInv
  <2>2. CASE ~erabort
    <3>1. /\ queue' = Append(queue, AWS_IOT_SHADOW_RECEIVED)
          /\ Len(queue) < MSG_QUEUE_SZ
          /\ callback' = "idle"
          /\ UNCHANGED <<up, thread, state, client, announced, sends>>
      BY <1>7, <2>2 DEF DataDecoded, k_msgq_put
    <3>2. InRange' /\ Increasing' /\ Complete'
      BY <3>1, PutKeeps
    <3>3. Base' = Base
      BY <3>1 DEF Base
    <3>4. queue' \in Seq(Events) /\ Len(queue') <= MSG_QUEUE_SZ
      BY <3>1, AppendFacts, QueueSizeAssumption DEF IInv, TypeOK
    <3> QED
      BY <3>1, <3>2, <3>3, <3>4 DEF IInv, TypeOK, Session, Progress, Callbacks
  <2> QED BY <2>1, <2>2
<1> QED BY <1>2, <1>3, <1>4, <1>5, <1>6, <1>7 DEF Client

\* Every step keeps the invariant.
LEMMA StepInv == IInv /\ [Next]_vars => IInv'
<1> SUFFICES ASSUME IInv, [Next]_vars PROVE IInv'
  OBVIOUS
<1>1. CASE Reset
  BY <1>1, AbortInv DEF Reset
<1>2. CASE UNCHANGED vars
  BY <1>2 DEF vars, IInv, TypeOK, InRange, Increasing, Complete, Session, Progress, Base
<1> QED
  BY <1>1, <1>2, ThreadInv, ClientInv, BootInv DEF Next

-----------------------------------------------------------------------------
(* What follows for every behaviour.                                       *)

\* The inductive invariant holds in every state of every behaviour.
LEMMA Invariance == Spec => []IInv
<1>1. Init => IInv
  BY BootInv
<1>2. IInv /\ [Next]_vars => IInv'
  BY StepInv
<1> QED BY <1>1, <1>2, PTL DEF Spec

\* The variables keep their types, and the queue never exceeds its buffer.
THEOREM TypeCorrect == Spec => []TypeOK
<1>1. IInv => TypeOK
  BY DEF IInv
<1> QED BY <1>1, Invariance, PTL

\* What the invariant says of the events and of the request.
LEMMA Consequences == IInv => NothingLost /\ EventsInOrder /\ ReadyMeansRequested
<1>1. IInv => NothingLost
  BY Codes DEF IInv, Complete, Progress, NothingLost, Base, TypeOK
<1>2. IInv => EventsInOrder
  BY HeadIsBase DEF EventsInOrder, Base
<1>3. IInv => ReadyMeansRequested
  BY Codes DEF IInv, TypeOK, Progress, Base, ReadyMeansRequested
<1> QED BY <1>1, <1>2, <1>3

\* No announced phase is lost between the callback and the thread.
THEOREM NoEventLost == Spec => []NothingLost
BY Consequences, Invariance, PTL

\* A phase event meets the one state that expects it.
THEOREM OrderedEvents == Spec => []EventsInOrder
BY Consequences, Invariance, PTL

\* The shadow is requested once, before the state is READY.
THEOREM OneRequest == Spec => []ReadyMeansRequested
BY Consequences, Invariance, PTL

-----------------------------------------------------------------------------
(* The size of the queue.                                                  *)

\* The session is dropped once, as the client never dials again.
OneDrop ==
    /\ \A i \in 1 .. Len(queue) :
          queue[i] = AWS_EVENT_DISCONNECTED
              => client = "off" /\ thread \notin {"init", "connect"}
    /\ \A i, j \in 1 .. Len(queue) :
          i < j => queue[i] # AWS_EVENT_DISCONNECTED \/ queue[j] # AWS_EVENT_DISCONNECTED

\* A put keeps it, unless it is a second one.
LEMMA PutKeepsDrop ==
    ASSUME IInv, OneDrop, NEW e \in Events,
           queue' = Append(queue, e), UNCHANGED thread,
           client = "off" => client' = "off",
           e = AWS_EVENT_DISCONNECTED =>
               client # "off" /\ client' = "off" /\ thread \notin {"init", "connect"}
    PROVE  OneDrop'
<1>1. /\ Len(queue') = Len(queue) + 1
      /\ Len(queue) \in Nat
      /\ \A i \in 1 .. Len(queue) : queue'[i] = queue[i]
      /\ queue'[Len(queue) + 1] = e
  BY AppendFacts DEF IInv, TypeOK
<1>2. \A i \in 1 .. Len(queue') : i \in 1 .. Len(queue) \/ i = Len(queue) + 1
  BY <1>1
<1>3. e = AWS_EVENT_DISCONNECTED
          => \A i \in 1 .. Len(queue) : queue[i] # AWS_EVENT_DISCONNECTED
  BY DEF OneDrop
<1>4. ASSUME NEW i \in 1 .. Len(queue'), queue'[i] = AWS_EVENT_DISCONNECTED
      PROVE  client' = "off" /\ thread' \notin {"init", "connect"}
  BY <1>1, <1>2, <1>4 DEF OneDrop
<1>5. ASSUME NEW i \in 1 .. Len(queue'), NEW j \in 1 .. Len(queue'), i < j
      PROVE  queue'[i] # AWS_EVENT_DISCONNECTED \/ queue'[j] # AWS_EVENT_DISCONNECTED
  <2>1. i \in 1 .. Len(queue)
    BY <1>1, <1>5
  <2> QED BY <1>1, <1>2, <1>3, <1>5, <2>1 DEF OneDrop
<1> QED BY <1>4, <1>5 DEF OneDrop

\* Every step keeps it.
LEMMA DropStep ==
    ASSUME IInv, OneDrop, [Next]_vars
    PROVE  OneDrop'
<1> DEFINE Still == /\ queue' = queue
                    /\ client' = client
                    /\ thread \notin {"init", "connect"} =>
                           thread' \notin {"init", "connect"}
<1>1. Still => OneDrop'
  BY DEF OneDrop
<1>2. (TaskInit /\ ~erabort) \/ SendReturns \/ erabort \/ UNCHANGED vars => Still
  BY DEF TaskInit, SendReturns, erabort, vars
<1>3. ASSUME ProcessEvent \/ RequestShadow PROVE OneDrop'
  <2>1. /\ queue # <<>> /\ queue' = Tail(queue) /\ client' = client
        /\ thread' \notin {"init", "connect"}
    BY <1>3 DEF ProcessEvent, RequestShadow
  <2>2. /\ Len(queue') = Len(queue) - 1 /\ Len(queue) \in Nat
        /\ \A i \in 1 .. Len(queue) - 1 : queue'[i] = queue[i + 1]
    BY <2>1, TailFacts DEF IInv, TypeOK
  <2>3. ASSUME NEW i \in 1 .. Len(queue')
        PROVE  i + 1 \in 1 .. Len(queue) /\ queue'[i] = queue[i + 1]
    BY <2>2
  <2> QED BY <2>1, <2>2, <2>3 DEF OneDrop
<1>4. ASSUME TaskConnect PROVE OneDrop'
  BY <1>4 DEF TaskConnect, OneDrop
<1>5. ASSUME Client PROVE OneDrop'
  <2>1. CASE OnConnecting \/ OnConnected \/ OnReady
    BY <2>1, PutKeepsDrop, Codes
    DEF OnConnecting, OnConnected, OnReady, aws_iot_event_handler, k_msgq_put, erabort,
        OneDrop
  <2>2. CASE OnDisconnected
    <3>1. client # "off" /\ thread \notin {"init", "connect"}
      BY <2>2 DEF OnDisconnected, IInv, Session
    <3>2. CASE erabort
      BY <3>2, <1>1, <1>2
    <3>3. CASE ~erabort
      <4>1. /\ queue' = Append(queue, AWS_EVENT_DISCONNECTED)
            /\ client' = "off" /\ thread' = thread
        BY <2>2, <3>3 DEF OnDisconnected, aws_iot_event_handler, k_msgq_put
      <4> QED BY <3>1, <4>1, PutKeepsDrop, Codes
    <3> QED BY <3>2, <3>3
  <2>3. CASE OnDataReceived
    BY <2>3 DEF OnDataReceived, OneDrop
  <2>4. CASE DataDecoded
    <3>1. CASE erabort
      BY <3>1, <1>1, <1>2
    <3>2. CASE ~erabort
      <4>1. /\ queue' = Append(queue, AWS_IOT_SHADOW_RECEIVED)
            /\ UNCHANGED <<client, thread>>
        BY <2>4, <3>2 DEF DataDecoded, k_msgq_put
      <4> QED BY <4>1, PutKeepsDrop, Codes
    <3> QED BY <3>1, <3>2
  <2> QED BY <1>5, <2>1, <2>2, <2>3, <2>4 DEF Client
<1>6. ASSUME aws_connector_init PROVE OneDrop'
  BY <1>6 DEF aws_connector_init, OneDrop
<1> HIDE DEF Still
<1> QED
  BY <1>1, <1>2, <1>3, <1>4, <1>5, <1>6 DEF Next, Thread, Reset

\* Of two events in a queue at most one ends the session, and the others are in
\* order.
Apart(a, b) == /\ a # 3 \/ b # 3
               /\ a # 3 /\ b # 3 => a < b

\* No five events are like that.
LEMMA NoFive ==
    ASSUME NEW a \in 0 .. 3, NEW b \in 0 .. 3, NEW c \in 0 .. 3, NEW d \in 0 .. 3,
           NEW e \in 0 .. 3,
           Apart(a, b), Apart(a, c), Apart(a, d), Apart(a, e), Apart(b, c),
           Apart(b, d), Apart(b, e), Apart(c, d), Apart(c, e), Apart(d, e)
    PROVE  FALSE
<1>1. /\ a \in Nat /\ b \in Nat /\ c \in Nat /\ d \in Nat /\ e \in Nat
      /\ a <= 3 /\ b <= 3 /\ c <= 3 /\ d <= 3 /\ e <= 3
  OBVIOUS
<1>2. CASE b = 3
  BY <1>1, <1>2 DEF Apart
<1>3. CASE c = 3
  BY <1>1, <1>3 DEF Apart
<1>4. CASE b # 3 /\ c # 3
  BY <1>1, <1>4 DEF Apart
<1> QED BY <1>2, <1>3, <1>4

\* A queue of five, the size the code chose, is filled by the session only with
\* shadow messages in it: the four events of a session leave one place.  (In a
\* smaller one they do not.)
THEOREM FiveAreEnough ==
    ASSUME MSG_QUEUE_SZ >= 5
    PROVE  Spec => []OverflowNeedsShadow
<1>1. Init => IInv /\ OneDrop
  BY BootInv DEF Init, OneDrop
<1>2. IInv /\ OneDrop /\ [Next]_vars => IInv' /\ OneDrop'
  BY StepInv, DropStep
<1>3. IInv /\ OneDrop => OverflowNeedsShadow
  <2> SUFFICES ASSUME IInv, OneDrop, QueueFull,
                      \A i \in 1 .. Len(queue) : queue[i] # AWS_IOT_SHADOW_RECEIVED
               PROVE  FALSE
    BY DEF OverflowNeedsShadow
  <2>1. Len(queue) \in Nat /\ Len(queue) >= 5
    BY QueueSizeAssumption DEF QueueFull, IInv, TypeOK
  <2>2. \A i \in 1 .. 5 : i \in 1 .. Len(queue) /\ queue[i] \in 0 .. 3
    BY <2>1, Codes DEF IInv, TypeOK
  <2>3. ASSUME NEW i \in 1 .. 5, NEW j \in 1 .. 5, i < j
        PROVE  Apart(queue[i], queue[j])
    <3>1. i \in 1 .. Len(queue) /\ j \in 1 .. Len(queue)
      BY <2>2
    <3>2. queue[i] # 3 \/ queue[j] # 3
      BY <2>3, <3>1, Codes DEF OneDrop
    <3>3. ASSUME queue[i] # 3, queue[j] # 3
          PROVE  queue[i] < queue[j]
      <4>1. queue[i] \in LinkEvents /\ queue[j] \in LinkEvents
        BY <2>2, <3>3, Codes
      <4> QED BY <2>3, <3>1, <4>1 DEF IInv, Increasing
    <3> QED BY <3>2, <3>3 DEF Apart
  <2>4. /\ queue[1] \in 0 .. 3 /\ queue[2] \in 0 .. 3 /\ queue[3] \in 0 .. 3
        /\ queue[4] \in 0 .. 3 /\ queue[5] \in 0 .. 3
    BY <2>2
  <2> QED BY <2>3, <2>4, NoFive
<1> QED BY <1>1, <1>2, <1>3, PTL DEF Spec

\* A step of the connector is a step of the tracker, or leaves it alone.
LEMMA StepTracks == IInv /\ [Next]_vars => [Tracker!Next]_(Tracker!vars)
<1> SUFFICES ASSUME IInv, [Next]_vars PROVE [Tracker!Next]_(Tracker!vars)
  OBVIOUS
<1> USE Codes
<1>1. CASE erabort /\ up
  BY <1>1 DEF erabort, Tracker!Next, Tracker!Fail
<1>2. CASE ~erabort /\ (TaskInit \/ TaskConnect \/ RequestShadow \/ OnDataReceived
                          \/ DataDecoded)
  BY <1>2 DEF TaskInit, TaskConnect, RequestShadow, OnDataReceived, DataDecoded,
              Tracker!vars
<1>3. CASE ProcessEvent
  <2>1. state' = IF Head(queue) \in LinkEvents THEN state + 1 ELSE state
    BY <1>3, HandlerState DEF ProcessEvent
  <2>2. Head(queue) \in LinkEvents => state < announced
    BY <1>3, HeadIsBase, TailFacts DEF ProcessEvent, IInv, TypeOK, InRange, Base
  <2> QED
    BY <1>3, <2>1, <2>2
    DEF ProcessEvent, Tracker!Next, Tracker!Observe, Tracker!vars
<1>4. CASE SendReturns
  BY <1>4
  DEF SendReturns, IInv, Progress, Base, TypeOK, Tracker!Next, Tracker!Observe
<1>5. CASE ~erabort /\ (OnConnecting \/ OnConnected \/ OnReady)
  BY <1>5
  DEF OnConnecting, OnConnected, OnReady, aws_iot_event_handler, IInv, Session,
      Tracker!Next, Tracker!Announce
<1>6. CASE ~erabort /\ OnDisconnected
  BY <1>6 DEF OnDisconnected, aws_iot_event_handler, Tracker!vars
<1>7. CASE aws_connector_init
  BY <1>7 DEF aws_connector_init, Tracker!Next, Tracker!Restart
<1>8. CASE UNCHANGED vars
  BY <1>8 DEF vars, Tracker!vars
<1>9. (Thread \/ Client \/ Reset) => up
  BY DEF Thread, TaskInit, TaskConnect, ProcessEvent, RequestShadow, SendReturns,
         Client, OnConnecting, OnConnected, OnReady, OnDisconnected,
         aws_iot_event_handler, OnDataReceived, DataDecoded, Reset
<1> QED
  BY <1>1, <1>2, <1>3, <1>4, <1>5, <1>6, <1>7, <1>8, <1>9
  DEF Next, Thread, Client, Reset

\* The connector implements the tracker's steps (its fairness is left to TLC):
\* the state follows the session's phases one at a time and in order.
THEOREM StepsTrackPhases == Spec => Tracker!Init /\ [][Tracker!Next]_(Tracker!vars)
<1>1. Init => Tracker!Init
  BY Codes DEF Init, Tracker!Init
<1>2. IInv /\ [Next]_vars => [Tracker!Next]_(Tracker!vars)
  BY StepTracks
<1> QED BY <1>1, <1>2, Invariance, PTL DEF Spec
=============================================================================
