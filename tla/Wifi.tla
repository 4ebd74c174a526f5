-------------------------------- MODULE Wifi --------------------------------
(***************************************************************************)
(* WifiManager (wifi.rs): the network interface and the TCP server, with   *)
(* its slots for clients.  External: the WiFi driver, which runs in the    *)
(* mode it is given, and the sockets of lwIP, numbered with the lowest     *)
(* number that is free.  A peer connects, writes, and closes or vanishes   *)
(* (`reset`: every later call on its socket fails) whenever it likes.      *)
(***************************************************************************)
EXTENDS Integers, Sequences, FiniteSets, FiniteSetsExt

CONSTANTS
    Connections,    \* connections the peers open, each once
    MaxClients,     \* MAX_TCP_CLIENTS
    MaxSockets,     \* sockets lwIP has
    WifiModes,      \* modes the configuration asks for
    CountWidth,     \* values of tcp_client_count: 256
    MaxWrites       \* bound: writes of a peer

ASSUME WifiAssumption ==
    /\ MaxClients \in Nat /\ MaxSockets \in Nat /\ CountWidth \in Nat \ {0}
    /\ WifiModes \subseteq {"Off", "Ap", "Sta", "ApSta"}
    /\ {"free", "server"} \cap Connections = {}

VARIABLES
    wifi,       \* initialized, config (the mode of config), server_fd; shown -
                \* mode, ap_active and tcp_client_count of status
    clients,    \* per slot the descriptor, NoFd when the slot is free
    sockets,    \* per descriptor "free", "server", or a connection
    driver,     \* the mode the driver runs in, "Off" when it is stopped
    peers,      \* per connection its state, the server it waits at, unread -
                \* writes not read yet, and read - how many were read
    stranded    \* history: clients a stop of the server has cut off

wifiVars == <<wifi, clients, sockets, driver, peers, stranded>>

NoFd  == -1
Fds   == 0 .. MaxSockets - 1
ClientSlots == 1 .. MaxClients

WifiInit ==
    /\ wifi = [initialized |-> FALSE, config |-> "Off", server_fd |-> NoFd,
               shown |-> [mode |-> "Off", ap |-> FALSE, count |-> 0]]
    /\ clients = [i \in ClientSlots |-> NoFd]
    /\ sockets = [f \in Fds |-> "free"]
    /\ driver = "Off"
    /\ peers = [c \in Connections |-> [state |-> "new", at |-> NoFd, unread |-> 0,
                                   read |-> 0]]
    /\ stranded = 0

WifiTypeOK ==
    /\ wifi.config \in WifiModes \cup {"Off"} /\ wifi.server_fd \in Fds \cup {NoFd}
    /\ clients \in [ClientSlots -> Fds \cup {NoFd}]
    /\ sockets \in [Fds -> {"free", "server"} \cup Connections]
    /\ driver \in {"Off", "Ap", "Sta", "ApSta"}
    /\ wifi.shown.count \in 0 .. CountWidth - 1
    /\ \A c \in Connections :
          peers[c].state \in {"new", "waiting", "open", "closed", "reset", "gone"}

Free      == {f \in Fds : sockets[f] = "free"}
Taken     == {i \in ClientSlots : clients[i] # NoFd}
PeerAt(i) == sockets[clients[i]]
-----------------------------------------------------------------------------
\* init; a second call is refused.
InitWifi(mode) ==
    /\ ~wifi.initialized
    /\ wifi' = [wifi EXCEPT !.initialized = TRUE, !.config = mode]
    /\ UNCHANGED <<clients, sockets, driver, peers, stranded>>

\* The configuration is public: the application may set another mode.
SetConfig(mode) ==
    /\ wifi.initialized
    /\ wifi' = [wifi EXCEPT !.config = mode]
    /\ UNCHANGED <<clients, sockets, driver, peers, stranded>>

\* start: configure_ap and configure_sta may be refused, and nothing is done
\* then.  ap_active is set here and cleared by stop only.
Start(ok) ==
    /\ wifi.initialized
    /\ IF ok \/ wifi.config = "Off"
       THEN /\ driver' = wifi.config
            /\ wifi' = [wifi EXCEPT !.shown.mode = wifi.config,
                                    !.shown.ap = @ \/ wifi.config \in {"Ap", "ApSta"}]
       ELSE UNCHANGED <<driver, wifi>>
    /\ UNCHANGED <<clients, sockets, peers, stranded>>

\* start_tcp_server: the socket it makes is closed when bind or listen fails.
\* A server that runs already is not looked at: its socket stays open.
StartTcpServer(bound) ==
    /\ wifi.initialized /\ Free # {}
    /\ IF bound
       THEN LET fd == Min(Free)
            IN  /\ wifi' = [wifi EXCEPT !.server_fd = fd]
                /\ sockets' = [sockets EXCEPT ![fd] = "server"]
       ELSE UNCHANGED <<wifi, sockets>>
    /\ UNCHANGED <<clients, driver, peers, stranded>>
-----------------------------------------------------------------------------
\* stop_tcp_server closes the socket of the server, and what waits at it, and
\* those of the clients.
Stopped ==
    [sockets |-> [f \in Fds |->
         IF f = wifi.server_fd \/ \E i \in Taken : clients[i] = f THEN "free"
         ELSE sockets[f]],
     clients |-> [i \in ClientSlots |-> NoFd],
     cut     |-> {PeerAt(i) : i \in Taken}]

Gone(ps, cut) ==
    [c \in Connections |->
        IF c \in cut THEN [ps[c] EXCEPT !.state = "gone", !.at = NoFd] ELSE ps[c]]

Waiting == {c \in Connections : peers[c].state = "waiting" /\ peers[c].at = wifi.server_fd}

StopServer ==
    /\ sockets' = Stopped.sockets
    /\ clients' = Stopped.clients
    /\ peers' = Gone(peers, Stopped.cut \cup Waiting)
    /\ stranded' = stranded + Cardinality(Stopped.cut)

StopTcpServer ==
    /\ wifi.server_fd # NoFd \/ Taken # {}
    /\ StopServer
    /\ wifi' = [wifi EXCEPT !.server_fd = NoFd]
    /\ UNCHANGED driver

\* stop
StopWifi ==
    /\ wifi.initialized
    /\ StopServer
    /\ wifi' = [wifi EXCEPT !.server_fd = NoFd, !.shown.mode = "Off", !.shown.ap = FALSE]
    /\ driver' = "Off"
-----------------------------------------------------------------------------
\* A state of the server during a call: slots, sockets, count and the peers.
Now == [clients |-> clients, sockets |-> sockets, count |-> wifi.shown.count,
        peers |-> peers]

\* The bug of a disconnect that counts a client whose slot is free already.
DisconnectedTwice(s, slots) ==
    LET held == {s.clients[i] : i \in slots} \ {NoFd}
        left == Cardinality(slots)
    IN  [s EXCEPT !.clients = [i \in ClientSlots |-> IF i \in slots THEN NoFd ELSE @[i]],
                  !.sockets = [f \in Fds |-> IF f \in held THEN "free" ELSE @[f]],
                  !.count = IF @ > left THEN @ - left ELSE 0,
                  !.peers = Gone(@, {s.sockets[f] : f \in held})]

\* disconnect_client for each of the slots; the count does not go below 0.
Disconnected(s, slots) ==
    LET held == {s.clients[i] : i \in slots} \ {NoFd}
        left == Cardinality({i \in slots : s.clients[i] # NoFd})
    IN  [s EXCEPT !.clients = [i \in ClientSlots |-> IF i \in slots THEN NoFd ELSE @[i]],
                  !.sockets = [f \in Fds |-> IF f \in held THEN "free" ELSE @[f]],
                  !.count = IF @ > left THEN @ - left ELSE 0,
                  !.peers = Gone(@, {s.sockets[f] : f \in held})]

\* The bug of a connection for which there is no slot, and that stays open.
AcceptedOrKept(s, c) ==
    LET fd   == Min({f \in Fds : s.sockets[f] = "free"})
        free == {i \in ClientSlots : s.clients[i] = NoFd}
        open == [s EXCEPT !.sockets[fd] = c, !.peers[c].state = "open"]
    IN  IF free = {} THEN open
        ELSE [open EXCEPT !.clients[Min(free)] = fd, !.count = (@ + 1) % CountWidth]

\* accept_connections: the first free slot, or the connection is closed.  The
\* count of clients is a u8, which wraps in a release build.
Accepted(s, c) ==
    LET fd   == Min({f \in Fds : s.sockets[f] = "free"})
        free == {i \in ClientSlots : s.clients[i] = NoFd}
    IN  IF free = {} THEN [s EXCEPT !.peers = Gone(@, {c})]
        ELSE [s EXCEPT !.sockets[fd] = c,
                       !.peers[c] = [@ EXCEPT !.state = "open", !.at = NoFd],
                       !.clients[Min(free)] = fd, !.count = (@ + 1) % CountWidth]

PeerOf(s, i)   == s.sockets[s.clients[i]]
StateAt(s, i)  == s.peers[PeerOf(s, i)]
Readable(s, i) == s.clients[i] # NoFd /\ StateAt(s, i).unread > 0
                     /\ StateAt(s, i).state # "reset"
AtEnd(s, i)    == s.clients[i] # NoFd /\ StateAt(s, i).unread = 0
                     /\ StateAt(s, i).state = "closed"

\* The scan of poll: the first slot with data is read, those before it that
\* have come to their end are disconnected, the others are not looked at.
Scanned(s) ==
    LET ready == {i \in ClientSlots : Readable(s, i)}
        last  == IF ready = {} THEN MaxClients ELSE Min(ready)
        after == Disconnected(s, {i \in 1 .. last : AtEnd(s, i)})
    IN  IF ready = {} THEN after
        ELSE [after EXCEPT !.peers[PeerOf(s, last)].read = @ + StateAt(s, last).unread,
                           !.peers[PeerOf(s, last)].unread = 0]

Becomes(s) ==
    /\ clients' = s.clients
    /\ sockets' = s.sockets
    /\ peers' = s.peers
    /\ wifi' = [wifi EXCEPT !.shown.count = s.count]
    /\ UNCHANGED <<driver, stranded>>

\* poll
PollTcp ==
    /\ wifi.server_fd # NoFd
    /\ \E s \in IF Waiting = {} \/ Free = {} THEN {Now}
                ELSE {Accepted(Now, c) : c \in Waiting} : Becomes(Scanned(s))

\* send_to_client: a client that cannot be written to is disconnected, also
\* when only its buffer is full.
SendToClient(i, ok) ==
    /\ i \in Taken
    /\ ok => peers[PeerAt(i)].state # "reset"
    /\ Becomes(IF ok THEN Now ELSE Disconnected(Now, {i}))

\* broadcast, of which some sends fail
Broadcast(failing) ==
    /\ failing \subseteq Taken
    /\ \A i \in Taken \ failing : peers[PeerAt(i)].state # "reset"
    /\ Becomes(Disconnected(Now, failing))

\* disconnect_client, which anyone may call for any slot
DisconnectClient(i) == Becomes(Disconnected(Now, {i}))
-----------------------------------------------------------------------------
PeerStep(c) ==
    /\ \/ /\ peers[c].state = "new"
          /\ \E f \in Fds :
                /\ sockets[f] = "server"
                /\ peers' = [peers EXCEPT ![c] = [@ EXCEPT !.state = "waiting", !.at = f]]
       \/ /\ peers[c].state \in {"waiting", "open"}
          /\ peers[c].unread + peers[c].read < MaxWrites
          /\ peers' = [peers EXCEPT ![c].unread = @ + 1]
       \/ /\ peers[c].state \in {"waiting", "open"}
          /\ peers' = IF peers[c].state = "waiting" THEN Gone(peers, {c})
                      ELSE [peers EXCEPT ![c].state = "closed"]
       \/ /\ peers[c].state = "open"
          /\ peers' = [peers EXCEPT ![c].state = "reset"]
    /\ UNCHANGED <<wifi, clients, sockets, driver, stranded>>

WifiNext ==
    \/ \E mode \in WifiModes : InitWifi(mode) \/ SetConfig(mode)
    \/ \E ok \in BOOLEAN : Start(ok) \/ StartTcpServer(ok)
    \/ StopTcpServer \/ StopWifi \/ PollTcp
    \/ \E i \in ClientSlots : DisconnectClient(i) \/ \E ok \in BOOLEAN : SendToClient(i, ok)
    \/ \E failing \in SUBSET ClientSlots : Broadcast(failing)
    \/ \E c \in Connections : PeerStep(c)

WifiSpec == WifiInit /\ [][WifiNext]_wifiVars
-----------------------------------------------------------------------------
\* Sockets and slots agree: every socket of a client is in one slot and every
\* slot has the socket of a client, so that a call for a slot never reaches
\* the server or another peer, and no accepted connection is left open with
\* nobody to read it - through servers that stop and start, full slots,
\* clients that close, vanish or cannot be written to (accept_connections,
\* read_client, send_to_client, disconnect_client, stop_tcp_server).
SocketsInSlots ==
    /\ WifiTypeOK
    /\ \A f \in Fds : sockets[f] \in Connections
          => Cardinality({i \in ClientSlots : clients[i] = f}) = 1
    /\ \A i \in Taken : PeerAt(i) \in Connections
    /\ wifi.server_fd # NoFd => sockets[wifi.server_fd] = "server"

\* tcp_client_count is the number of clients and of those that a stop of the
\* server cut off without telling the counter, until those alone may fill it;
\* and ap_active is set whenever the access point runs.
NetworkAsReported ==
    /\ stranded + MaxClients < CountWidth
          => wifi.shown.count = Cardinality(Taken) + stranded
    /\ driver \in {"Ap", "ApSta"} => wifi.shown.ap
=============================================================================
