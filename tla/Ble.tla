--------------------------------- MODULE Ble ---------------------------------
(***************************************************************************)
(* The BLE side (ble.rs): the connections the program believes it has, the *)
(* queue of events from the NimBLE host task, and the queue of responses a *)
(* Meshtastic app reads.                                                   *)
(*                                                                         *)
(* The callbacks run in the host task, the calls in the program's threads; *)
(* each takes its critical section once, which makes it one step.  The     *)
(* stack itself is external: it advertises until somebody connects, ends   *)
(* every connection, with its event, before it reports a reset, and then   *)
(* synchronises anew.                                                      *)
(*                                                                         *)
(* Sending is left out: the handles of the characteristics (nus_tx_handle  *)
(* and the two others) are 0 and never assigned, no subscription matches   *)
(* them, and send, broadcast, notify_from_num and process_tx find nobody   *)
(* subscribed.  Events and responses are numbered in the order they come.  *)
(***************************************************************************)
EXTENDS Integers, Sequences, FiniteSets

CONSTANTS
    Handles,            \* connection handles of the stack
    MaxConnections,     \* MAX_CONNECTIONS, the number of slots
    MaxLinks,           \* CONFIG_BT_NIMBLE_MAX_CONNECTIONS
    NoHandle,           \* an empty slot
    EventCapacity,      \* the capacity of EVENT_QUEUE
    ResponseCapacity,   \* the capacity of from_radio_queue
    Calls,              \* the public calls in use
    MaxEvents,          \* bound: events in a behaviour, but for the last
                        \* disconnects
    MaxResponses        \* bound: responses in a behaviour

ASSUME LinksAssumption ==
    /\ MaxConnections \in Nat /\ MaxLinks \in Nat
    /\ MaxLinks <= MaxConnections /\ MaxConnections < 65536
    /\ NoHandle \notin Handles

ASSUME CallsAssumption ==
    Calls \subseteq {"start_advertising", "stop_advertising", "poll_event",
                     "read", "queue_from_radio", "dequeue_from_radio"}

VARIABLES
    initialized,        \* BleManager.initialized
    connections,        \* BleState.connections: the handle in each slot
    connection_count,   \* CONNECTION_COUNT
    events,             \* EVENT_QUEUE
    from_radio,         \* BleState.from_radio_queue
    host,               \* the stack: off, starting, synced or resetting
    on_air,             \* it advertises
    links,              \* the connections it has
    ghost               \* history: events - came so far; read - the last one
                        \* read as data; polled - the last one polled;
                        \* responses - queued so far; taken - the last taken

vars == <<initialized, connections, connection_count, events, from_radio, host,
          on_air, links, ghost>>

Slots     == 1 .. MaxConnections
MaxNumber == MaxEvents + MaxLinks

TypeOK ==
    /\ initialized \in BOOLEAN
    /\ connections \in [Slots -> Handles \cup {NoHandle}]
    /\ connection_count \in 0 .. MaxConnections
    /\ Len(events) <= EventCapacity
    /\ \A i \in DOMAIN events : events[i] \in [data : BOOLEAN, n : 1 .. MaxNumber]
    /\ Len(from_radio) <= ResponseCapacity
    /\ \A i \in DOMAIN from_radio : from_radio[i] \in 1 .. MaxResponses
    /\ host \in {"off", "starting", "synced", "resetting"}
    /\ on_air \in BOOLEAN
    /\ links \subseteq Handles
    /\ ghost \in [events : 0 .. MaxNumber, read : 0 .. MaxNumber,
                 polled : 0 .. MaxNumber, responses : 0 .. MaxResponses,
                 taken : 0 .. MaxResponses]

Init ==
    /\ initialized = FALSE
    /\ connections = [s \in Slots |-> NoHandle]
    /\ connection_count = 0
    /\ events = << >>
    /\ from_radio = << >>
    /\ host = "off"
    /\ on_air = FALSE
    /\ links = {}
    /\ ghost = [events |-> 0, read |-> 0, polled |-> 0, responses |-> 0, taken |-> 0]
-----------------------------------------------------------------------------
\* BleManager::init: the stack may fail to start, or the registration of the
\* services may fail with the host task already running.
InitBle(started, ok) ==
    /\ host = "off" /\ ~ initialized
    /\ ok => started
    /\ initialized' = ok
    /\ host' = IF started THEN "starting" ELSE "off"
    /\ UNCHANGED <<connections, connection_count, events, from_radio, on_air,
                   links, ghost>>

App(call) == initialized /\ call \in Calls

\* The stack refuses to advertise before it is synchronised, twice, or when
\* it has no connection left to give.
StartAdvertising ==
    /\ App("start_advertising")
    /\ host = "synced" /\ ~ on_air /\ Cardinality(links) < MaxLinks
    /\ on_air' = TRUE
    /\ UNCHANGED <<initialized, connections, connection_count, events,
                   from_radio, host, links, ghost>>

StopAdvertising ==
    /\ App("stop_advertising")
    /\ on_air
    /\ on_air' = FALSE
    /\ UNCHANGED <<initialized, connections, connection_count, events,
                   from_radio, host, links, ghost>>

PollEvent ==
    /\ App("poll_event")
    /\ events # << >>
    /\ events' = Tail(events)
    /\ ghost' = [ghost EXCEPT !.polled = Head(events).n]
    /\ UNCHANGED <<initialized, connections, connection_count, from_radio,
                   host, on_air, links>>

\* The bug of a copy back that begins with what came after the data.
WithoutRotates(queue, i) ==
    SubSeq(queue, i + 1, Len(queue)) \o SubSeq(queue, 1, i - 1)

\* The queue without its i-th event: taken apart and put together again.
Without(queue, i) == SubSeq(queue, 1, i - 1) \o SubSeq(queue, i + 1, Len(queue))

\* read_with_service: the first event with data, past others that wait.
Read ==
    /\ App("read")
    /\ \E i \in DOMAIN events :
          /\ events[i].data
          /\ \A j \in 1 .. i - 1 : ~ events[j].data
          /\ events' = Without(events, i)
          /\ ghost' = [ghost EXCEPT !.read = events[i].n]
    /\ UNCHANGED <<initialized, connections, connection_count, from_radio,
                   host, on_air, links>>

\* A response that finds the queue full is dropped.
QueueFromRadio ==
    /\ App("queue_from_radio")
    /\ ghost.responses < MaxResponses
    /\ ghost' = [ghost EXCEPT !.responses = @ + 1]
    /\ from_radio' = IF Len(from_radio) < ResponseCapacity
                     THEN Append(from_radio, ghost.responses + 1) ELSE from_radio
    /\ UNCHANGED <<initialized, connections, connection_count, events, host,
                   on_air, links>>

TakeResponse ==
    /\ from_radio # << >>
    /\ from_radio' = Tail(from_radio)
    /\ ghost' = [ghost EXCEPT !.taken = Head(from_radio)]

DequeueFromRadio ==
    /\ App("dequeue_from_radio")
    /\ TakeResponse
    /\ UNCHANGED <<initialized, connections, connection_count, events, host,
                   on_air, links>>
-----------------------------------------------------------------------------
(***************************************************************************)
(* The callbacks.  An event that finds the queue full is dropped.          *)
(***************************************************************************)
Push(data) ==
    /\ ghost' = [ghost EXCEPT !.events = @ + 1]
    /\ events' = IF Len(events) < EventCapacity
                 THEN Append(events, [data |-> data, n |-> ghost.events + 1])
                 ELSE events

Sync ==
    /\ host = "starting"
    /\ host' = "synced"
    /\ UNCHANGED <<initialized, connections, connection_count, events,
                   from_radio, on_air, links, ghost>>

\* add_connection: the first free slot, if there is one.
AddConnection(h) ==
    \/ \E s \in Slots :
          /\ connections[s] = NoHandle
          /\ \A t \in 1 .. s - 1 : connections[t] # NoHandle
          /\ connections' = [connections EXCEPT ![s] = h]
          /\ connection_count' = (connection_count + 1) % 65536
    \/ /\ \A s \in Slots : connections[s] # NoHandle
       /\ UNCHANGED <<connections, connection_count>>

\* remove_connection: the first slot that holds the handle, if one does.
RemoveConnection(h) ==
    \/ \E s \in Slots :
          /\ connections[s] = h
          /\ \A t \in 1 .. s - 1 : connections[t] # h
          /\ connections' = [connections EXCEPT ![s] = NoHandle]
          /\ connection_count' = (connection_count - 1) % 65536
    \/ /\ \A s \in Slots : connections[s] # h
       /\ UNCHANGED <<connections, connection_count>>

\* The bug of a connect event whose status is not looked at.
ConnectFailsCounted(h) ==
    /\ host = "synced" /\ on_air
    /\ on_air' = FALSE
    /\ AddConnection(h)
    /\ UNCHANGED <<initialized, events, from_radio, host, links, ghost>>

\* BLE_GAP_EVENT_CONNECT with a status: the handler does nothing, and the
\* stack has left off advertising.
ConnectFails(h) ==
    /\ host = "synced" /\ on_air
    /\ on_air' = FALSE
    /\ UNCHANGED <<initialized, connections, connection_count, events,
                   from_radio, host, links, ghost>>

Connect(h) ==
    /\ host = "synced" /\ on_air
    /\ h \notin links
    /\ ghost.events < MaxEvents
    /\ on_air' = FALSE
    /\ links' = links \cup {h}
    /\ AddConnection(h)
    /\ Push(FALSE)
    /\ UNCHANGED <<initialized, from_radio, host>>

\* BLE_GAP_EVENT_DISCONNECT, also of the connections a reset ends.  The
\* handler does not advertise again.
Disconnect(h) ==
    /\ host \in {"synced", "resetting"}
    /\ h \in links
    /\ links' = links \ {h}
    /\ RemoveConnection(h)
    /\ Push(FALSE)
    /\ UNCHANGED <<initialized, from_radio, host, on_air>>

\* The events of a connection that change nothing but the queue: its MTU, a
\* subscription, its encryption.
LinkEvent(h) ==
    /\ host = "synced" /\ h \in links
    /\ ghost.events < MaxEvents
    /\ Push(FALSE)
    /\ UNCHANGED <<initialized, connections, connection_count, from_radio,
                   host, on_air, links>>

\* nus_rx_callback and mesh_to_radio_callback
Write(h) ==
    /\ host = "synced" /\ h \in links
    /\ ghost.events < MaxEvents
    /\ Push(TRUE)
    /\ UNCHANGED <<initialized, connections, connection_count, from_radio,
                   host, on_air, links>>

\* mesh_from_radio_callback
ReadResponse(h) ==
    /\ host = "synced" /\ h \in links
    /\ TakeResponse
    /\ UNCHANGED <<initialized, connections, connection_count, events, host,
                   on_air, links>>

\* The host and the controller have lost each other.
BeginReset ==
    /\ host = "synced"
    /\ host' = "resetting"
    /\ on_air' = FALSE
    /\ UNCHANGED <<initialized, connections, connection_count, events,
                   from_radio, links, ghost>>

\* on_reset: the count is put to 0, and the slots are left.
OnReset ==
    /\ host = "resetting" /\ links = {}
    /\ host' = "starting"
    /\ connection_count' = 0
    /\ UNCHANGED <<initialized, connections, events, from_radio, on_air, links,
                   ghost>>
-----------------------------------------------------------------------------
AppStep ==
    \/ \E started, ok \in BOOLEAN : InitBle(started, ok)
    \/ StartAdvertising
    \/ StopAdvertising
    \/ PollEvent
    \/ Read
    \/ QueueFromRadio
    \/ DequeueFromRadio

HostTaskStep ==
    \/ Sync
    \/ BeginReset
    \/ OnReset
    \/ \E h \in Handles :
          \/ ConnectFails(h)
          \/ Connect(h)
          \/ Disconnect(h)
          \/ LinkEvent(h)
          \/ Write(h)
          \/ ReadResponse(h)

Next == AppStep \/ HostTaskStep

Spec == Init /\ [][Next]_vars
-----------------------------------------------------------------------------
(***************************************************************************)
(* The count the main loop steers by (app_connected, the repeater, the end *)
(* of a session) is that of the connections the stack has, each in a slot  *)
(* of its own, through failed connections, reuse of slots and handles, and *)
(* resets of the stack.  Rests on the stack ending the connections before  *)
(* on_reset, which clears the count and not the slots.                     *)
(***************************************************************************)
CountIsLinks ==
    /\ connection_count = Cardinality(links)
    /\ {connections[s] : s \in Slots} \ {NoHandle} = links
    /\ \A s, t \in Slots :
          s # t /\ connections[s] = connections[t] => connections[s] = NoHandle

(***************************************************************************)
(* Events are polled, and data are read, in the order they came and each   *)
(* once, though read takes data from behind other events and puts the      *)
(* queue together again.                                                   *)
(***************************************************************************)
EventsInOrder ==
    /\ \A i, j \in DOMAIN events : i < j => events[i].n < events[j].n
    /\ \A i \in DOMAIN events :
          /\ ghost.polled < events[i].n
          /\ events[i].data => ghost.read < events[i].n

(***************************************************************************)
(* A response goes to one reader, whichever of the app's reads and the     *)
(* program's dequeue comes first, and none overtakes an earlier one.       *)
(***************************************************************************)
ResponsesInOrder ==
    /\ \A i, j \in DOMAIN from_radio : i < j => from_radio[i] < from_radio[j]
    /\ \A i \in DOMAIN from_radio : ghost.taken < from_radio[i]
=============================================================================
