---------------------------- MODULE AwsConnector ----------------------------
(***************************************************************************)
(* The AWS connector: the supervisor thread of connectors/aws_connector.c, *)
(* the callback of connectors/aws_callbacks.c that feeds its message       *)
(* queue, and the nRF AWS IoT client both of them use (external: its       *)
(* events are modelled from the way the callback handles them).            *)
(*                                                                         *)
(* Three parties interleave: the client's own thread, which runs the       *)
(* callback; the supervisor thread, which takes one event at a time and    *)
(* stops in aws_iot_send; and the rest of the firmware, which may reset    *)
(* the chip at any point (erabort).                                        *)
(***************************************************************************)
EXTENDS Naturals, Sequences

CONSTANT MSG_QUEUE_SZ   \* capacity of connector_event_queue

ASSUME QueueSizeAssumption == MSG_QUEUE_SZ \in Nat \ {0}

VARIABLES up,           \* FALSE between erabort and the next boot
          thread,       \* program counter of aws_connector_task_entry
          state,        \* aws_cblk.state
          queue,        \* aws_cblk.connector_event_queue
          callback,     \* aws_iot_event_handler: idle, or parsing a shadow
          client,       \* the session of the nRF client (external)
          announced,    \* history: the last phase the client announced
          sends         \* history: shadow GETs sent since the boot

vars == <<up, thread, state, queue, callback, client, announced, sends>>

\* enum aws_state_code and enum event_code.  Both are integers in C, and two
\* handlers assign an event code to the state: the numbers matter.
AWS_STATE_OFFLINE       == 0
AWS_STATE_CONNECTING    == 1
AWS_STATE_CONNECTED     == 2
AWS_STATE_READY         == 3
AWS_STATE_DISCONNECTING == 4

AWS_EVENT_CONNECTING    == 0
AWS_EVENT_CONNECTED     == 1
AWS_EVENT_READY         == 2
AWS_EVENT_DISCONNECTED  == 3
AWS_IOT_SHADOW_RECEIVED == 4

States == AWS_STATE_OFFLINE .. AWS_STATE_DISCONNECTING
Events == AWS_EVENT_CONNECTING .. AWS_IOT_SHADOW_RECEIVED

\* The events that announce a phase of the session.
LinkEvents == {AWS_EVENT_CONNECTING, AWS_EVENT_CONNECTED, AWS_EVENT_READY}

Threads   == {"init", "connect", "wait", "send"}
Callbacks == {"idle", "decoding"}
Clients   == {"off", "asked", "connecting", "connected", "ready"}

TypeOK ==
    /\ up \in BOOLEAN
    /\ thread \in Threads
    /\ state \in States
    /\ queue \in Seq(Events)
    /\ Len(queue) <= MSG_QUEUE_SZ
    /\ callback \in Callbacks
    /\ client \in Clients
    /\ announced \in 0 .. AWS_STATE_READY
    /\ sends \in Nat

Init ==
    /\ up = TRUE
    /\ thread = "init"
    /\ state = AWS_STATE_OFFLINE
    /\ queue = <<>>
    /\ callback = "idle"
    /\ client = "off"
    /\ announced = 0
    /\ sends = 0

-----------------------------------------------------------------------------
\* erabort: the chip resets where it is, and everything in RAM is lost.
erabort ==
    /\ up' = FALSE
    /\ UNCHANGED <<thread, state, queue, callback, client, announced, sends>>

QueueFull == Len(queue) >= MSG_QUEUE_SZ

\* Mutants of the next operator: a put that does not look for room, one that
\* drops the event when there is none, one that puts at the wrong end, and one
\* that a handler reaches twice (a case that falls through into the next).
k_msgq_put_unchecked(e) == queue' = Append(queue, e)
k_msgq_put_lossy(e)     == queue' = IF QueueFull THEN queue ELSE Append(queue, e)
k_msgq_put_front(e)     == ~QueueFull /\ queue' = <<e>> \o queue
k_msgq_put_twice(e)     == ~QueueFull /\ queue' = Append(Append(queue, e), e)

\* The k_msgq_put of aws_queue_event: never waits, refuses when full.
k_msgq_put(e) ==
    /\ Len(queue) < MSG_QUEUE_SZ
    /\ queue' = Append(queue, e)

-----------------------------------------------------------------------------
(* The supervisor thread.                                                  *)

\* aws_iot_init, whose failure aborts.
TaskInit ==
    /\ up /\ thread = "init"
    /\ \/ /\ thread' = "connect"
          /\ UNCHANGED <<up, state, queue, callback, client, announced, sends>>
       \/ erabort

\* aws_iot_connect, called once per boot.  Its failure is only logged: the
\* thread goes on to wait for events that will not come.
TaskConnect ==
    /\ up /\ thread = "connect"
    /\ thread' = "wait"
    /\ client' \in {"asked", "off"}
    /\ UNCHANGED <<up, state, queue, callback, announced, sends>>

\* Mutants of the next two operators: a handler with the neighbouring state's
\* assignment, and one that ignores CONNECTED.
aws_offline_state_swapped(e) ==
    IF e = AWS_EVENT_CONNECTING THEN AWS_STATE_CONNECTED ELSE AWS_STATE_OFFLINE

aws_connecting_state_deaf(e) ==
    IF e = AWS_EVENT_READY THEN AWS_EVENT_READY ELSE AWS_STATE_CONNECTING

\* The state each handler leaves for an event e.  READY assigns the event
\* code AWS_EVENT_READY to the state in the first two.
aws_offline_state(e) ==
    CASE e = AWS_EVENT_CONNECTING -> AWS_STATE_CONNECTING
      [] e = AWS_EVENT_CONNECTED  -> AWS_STATE_CONNECTED
      [] e = AWS_EVENT_READY      -> AWS_EVENT_READY
      [] OTHER                    -> AWS_STATE_OFFLINE

aws_connecting_state(e) ==
    CASE e = AWS_EVENT_CONNECTING -> AWS_STATE_CONNECTING
      [] e = AWS_EVENT_CONNECTED  -> AWS_STATE_CONNECTED
      [] e = AWS_EVENT_READY      -> AWS_EVENT_READY
      [] OTHER                    -> AWS_STATE_CONNECTING

\* READY in this state is RequestShadow, not an assignment alone.
aws_connected_state(e) ==
    CASE e = AWS_EVENT_CONNECTING -> AWS_STATE_CONNECTING
      [] e = AWS_EVENT_CONNECTED  -> AWS_STATE_CONNECTING
      [] OTHER                    -> AWS_STATE_CONNECTED

\* The dispatch of aws_process_event; READY and unknown states ignore all.
NextState(e) ==
    CASE state = AWS_STATE_OFFLINE    -> aws_offline_state(e)
      [] state = AWS_STATE_CONNECTING -> aws_connecting_state(e)
      [] state = AWS_STATE_CONNECTED  -> aws_connected_state(e)
      [] OTHER                        -> state

\* The one event whose handler calls out of the module before it assigns.
Requests(e) == state = AWS_STATE_CONNECTED /\ e = AWS_EVENT_READY

\* k_msgq_get and aws_process_event, for an event handled without blocking.
ProcessEvent ==
    /\ up /\ thread = "wait" /\ queue # <<>>
    /\ ~Requests(Head(queue))
    /\ queue' = Tail(queue)
    /\ state' = NextState(Head(queue))
    /\ UNCHANGED <<up, thread, callback, client, announced, sends>>

\* READY while connected: the handler enters aws_shadow_request, and the
\* queue is not served until aws_iot_send returns.
RequestShadow ==
    /\ up /\ thread = "wait" /\ queue # <<>>
    /\ Requests(Head(queue))
    /\ queue' = Tail(queue)
    /\ thread' = "send"
    /\ sends' = sends + 1
    /\ UNCHANGED <<up, state, callback, client, announced>>

\* Mutant of SendReturns: an error leaves the state as it is.
SendReturnsUnlessError ==
    /\ up /\ thread = "send"
    /\ state' \in {AWS_STATE_CONNECTED, AWS_STATE_READY}
    /\ thread' = "wait"
    /\ UNCHANGED <<up, queue, callback, client, announced, sends>>

\* aws_iot_send returns; an error is logged and the state is READY anyway.
SendReturns ==
    /\ up /\ thread = "send"
    /\ state' = AWS_STATE_READY
    /\ thread' = "wait"
    /\ UNCHANGED <<up, queue, callback, client, announced, sends>>

Thread == TaskInit \/ TaskConnect \/ ProcessEvent \/ RequestShadow \/ SendReturns

-----------------------------------------------------------------------------
(* The client and its callback.  The client goes through the phases in     *)
(* order, may drop the session in any of them, and never dials again by    *)
(* itself.  It delivers one event at a time.                               *)

\* The callback queues e; `next` is where the session stands afterwards, and
\* n the phase that e announces.  A full queue aborts the device.
aws_iot_event_handler(e, next, n) ==
    /\ up /\ callback = "idle"
    /\ \/ /\ k_msgq_put(e)
          /\ client' = next
          /\ announced' = n
          /\ UNCHANGED <<up, thread, state, callback, sends>>
       \/ QueueFull /\ erabort

OnConnecting == /\ client = "asked"
                /\ aws_iot_event_handler(AWS_EVENT_CONNECTING, "connecting", 1)

OnConnected == /\ client = "connecting"
               /\ aws_iot_event_handler(AWS_EVENT_CONNECTED, "connected", 2)

OnReady == /\ client = "connected"
           /\ aws_iot_event_handler(AWS_EVENT_READY, "ready", 3)

OnDisconnected ==
    /\ client \in {"connecting", "connected", "ready"}
    /\ aws_iot_event_handler(AWS_EVENT_DISCONNECTED, "off", announced)

\* A message arrives; the callback parses and stores it before anything else
\* of the client runs.  A persistent session delivers before it is ready.
OnDataReceived ==
    /\ up /\ callback = "idle"
    /\ client \in {"connected", "ready"}
    /\ callback' = "decoding"
    /\ UNCHANGED <<up, thread, state, queue, client, announced, sends>>

\* aws_decode_shadow_msg is done (or aborts on a flash error) and the callback
\* queues SHADOW_RECEIVED.
DataDecoded ==
    /\ up /\ callback = "decoding"
    /\ \/ /\ k_msgq_put(AWS_IOT_SHADOW_RECEIVED)
          /\ callback' = "idle"
          /\ UNCHANGED <<up, thread, state, client, announced, sends>>
       \/ erabort

Client == \/ OnConnecting \/ OnConnected \/ OnReady \/ OnDisconnected
          \/ OnDataReceived \/ DataDecoded

-----------------------------------------------------------------------------
(* The rest of the firmware.                                               *)

\* Another module calls erabort.
Reset == up /\ erabort

\* The next boot reaches aws_connector_init.
aws_connector_init ==
    /\ ~up
    /\ up' = TRUE
    /\ thread' = "init"
    /\ state' = AWS_STATE_OFFLINE
    /\ queue' = <<>>
    /\ callback' = "idle"
    /\ client' = "off"
    /\ announced' = 0
    /\ sends' = 0

Next == Thread \/ Client \/ Reset \/ aws_connector_init

\* The scheduler runs a ready thread, aws_iot_send and the parser return, and
\* a reset chip boots.  The client and the network owe nothing.
Fairness == /\ WF_vars(Thread)
            /\ WF_vars(DataDecoded)
            /\ WF_vars(aws_connector_init)

Spec == Init /\ [][Next]_vars /\ Fairness

-----------------------------------------------------------------------------
(* Properties.                                                             *)

\* Every phase the client announced and the thread has not taken notice of is
\* still in the queue: no event is lost between the callback and the thread,
\* whatever else was queued meanwhile and however late the thread runs.
NothingLost ==
    \A e \in LinkEvents :
        (e < announced /\ e >= state /\ ~(thread = "send" /\ e = AWS_EVENT_READY))
            => \E i \in 1 .. Len(queue) : queue[i] = e

\* A phase event reaches the handler of the one state that expects it: the
\* assignments of aws_offline_state, aws_connecting_state and
\* aws_connected_state for every other event (among them READY taken for
\* CONNECTED, and CONNECTED sending a connected session back to CONNECTING)
\* are never executed.
EventsInOrder ==
    (thread = "wait" /\ queue # <<>> /\ Head(queue) \in LinkEvents)
        => Head(queue) = state

\* The shadow is asked for exactly once per boot, and before the module
\* reports READY: neither a repeated event nor the wrong state code skips or
\* repeats the request that starts the exchange with the cloud.
ReadyMeansRequested ==
    /\ sends <= 1
    /\ sends = 1 <=> (thread = "send" \/ state = AWS_STATE_READY)

\* "Thread never blocks so can be small" (line 40): it does block, in
\* aws_iot_send, but the events of the session itself never fill the queue of 5.
\* When it is full, and the next event resets the device, shadow messages came
\* faster than the thread was served.
OverflowNeedsShadow ==
    QueueFull => \E i \in 1 .. Len(queue) : queue[i] = AWS_IOT_SHADOW_RECEIVED

\* Once the client announced READY the thread gets there, or the device
\* resets, even if the session is dropped or messages pile up meanwhile.
ReachesReady ==
    announced = AWS_STATE_READY ~> (state = AWS_STATE_READY \/ ~up)

Tracker == INSTANCE PhaseTracker WITH LastPhase <- AWS_STATE_READY, seen <- state

\* The connector implements the tracker: the state number follows the phases
\* one by one and every announced phase is observed in the end.
TracksPhases == Tracker!Spec

\* "The nRF aws iot client also needs to be restarted if it fails to start or
\* drops it's connection to the cloud" (aws_connector.c:8-9): an idle client is
\* asked to connect again.  Nothing in the code does.
RestartsClient ==
    (up /\ thread = "wait" /\ client = "off") ~> (client = "asked" \/ ~up)
=============================================================================
