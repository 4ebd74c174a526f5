--------------------------- MODULE TransportProofs ---------------------------
(***************************************************************************)
(* What an app may rely on, whatever bytes, frames and connections come:   *)
(* the radio stays with the transport that holds it (Router); the host of  *)
(* an RNode knows the settings the radio is given, which are settings it   *)
(* takes (RNode); every TCP client has a slot and a socket of its own      *)
(* (Wifi); and the count of BLE connections is right, and their queues     *)
(* keep their order (Ble).                                                 *)
(***************************************************************************)
EXTENDS Router, RNode, Wifi, Ble, FiniteSetTheorems, SequenceTheorems,
        WellFoundedInduction, TLAPS

\* The shape of a detector, which is all RadioIsKept needs to know of one.
HasLock(d) == DOMAIN d = {"state", "detected", "lock_count", "state_bytes"}

RouterInv ==
    /\ DOMAIN detectors = Transports
    /\ \A t \in Transports : HasLock(detectors[t])

\* The lock of a detector is what frames make of it, and never what bytes do.
LEMMA FeedKeepsLock ==
    ASSUME NEW d, NEW b, HasLock(d)
    PROVE  /\ HasLock(Guess!feed(d, b))
           /\ Guess!is_locked(Guess!feed(d, b)) <=> Guess!is_locked(d)
<1>1. /\ HasLock(Guess!Counted(d))
      /\ Guess!Counted(d).lock_count = d.lock_count
  BY DEF Guess!Counted, HasLock
<1>2. /\ HasLock(Guess!feed(d, b))
      /\ Guess!feed(d, b).lock_count = d.lock_count
  BY <1>1 DEF Guess!feed, HasLock
<1> QED BY <1>2 DEF Guess!is_locked

LEMMA InitRouterInv == RouterInit => RouterInv
BY DEF RouterInit, RouterInv, HasLock, Guess!Fresh

\* A detector that is replaced by one of its shape.
LEMMA DetectorStep ==
    ASSUME RouterInv, NEW t \in Transports, NEW d, HasLock(d), Detector(t, d)
    PROVE  RouterInv'
BY DEF RouterInv, Detector

LEMMA NextRouterInv == RouterInv /\ [RouterNext]_routerVars => RouterInv'
<1> SUFFICES ASSUME RouterInv, [RouterNext]_routerVars PROVE RouterInv'
  OBVIOUS
<1>1. ASSUME NEW t \in Transports, NEW b, RouteIncoming(t, b) PROVE RouterInv'
  <2>1. HasLock(Guess!feed(detectors[t], b))
    BY FeedKeepsLock DEF RouterInv
  <2> QED BY <1>1, <2>1 DEF RouteIncoming, RouterInv
<1>2. ASSUME NEW t \in Transports, ReleaseLoraControl(t) PROVE RouterInv'
  <2>1. HasLock(Guess!Fresh)
    BY DEF HasLock, Guess!Fresh
  <2> QED BY <1>2, <2>1 DEF ReleaseLoraControl, RouterInv
<1>3. ASSUME NEW p, SetLoraProtocol(p) PROVE RouterInv'
  BY <1>3 DEF SetLoraProtocol, RouterInv
<1>4. ASSUME NEW t \in Transports, ConfirmFrame(t) PROVE RouterInv'
  <2>1. HasLock(Guess!confirm_frame(detectors[t]))
    BY DEF RouterInv, HasLock, Guess!confirm_frame
  <2> QED BY <1>4, <2>1, DetectorStep DEF ConfirmFrame
<1>5. ASSUME NEW t \in Transports, ErrorFrame(t) PROVE RouterInv'
  <2>1. HasLock(WithErrorFrame(detectors[t]))
    BY DEF RouterInv, HasLock, WithErrorFrame
  <2> QED BY <1>5, <2>1, DetectorStep DEF ErrorFrame
<1>6. ASSUME NEW t \in Transports, SoftReset(t) PROVE RouterInv'
  <2>1. HasLock([detectors[t] EXCEPT !.state = "Idle", !.state_bytes = 0])
    BY DEF RouterInv, HasLock
  <2> QED BY <1>6, <2>1, DetectorStep DEF SoftReset
<1>7. ASSUME NEW t \in Transports, NEW p, ForceProtocol(t, p) PROVE RouterInv'
  <2>1. HasLock([detectors[t] EXCEPT !.state = "Idle", !.detected = p])
    BY DEF RouterInv, HasLock
  <2> QED BY <1>7, <2>1, DetectorStep DEF ForceProtocol
<1>8. ASSUME NEW t \in Transports, ResetDetector(t) PROVE RouterInv'
  <2>1. HasLock(Guess!Fresh)
    BY DEF HasLock, Guess!Fresh
  <2> QED BY <1>8, <2>1, DetectorStep DEF ResetDetector
<1>9. CASE UNCHANGED routerVars
  BY <1>9 DEF RouterInv, routerVars
<1> QED BY <1>1, <1>2, <1>3, <1>4, <1>5, <1>6, <1>7, <1>8, <1>9 DEF RouterNext

\* What a step may do to the radio: RadioIsKept for one step.
Kept ==
    /\ priority_transport # NoTransport
          => priority_transport' \in {priority_transport, NoTransport}
    /\ priority_transport' \notin {priority_transport, NoTransport}
          => Guess!is_locked(detectors[priority_transport'])
    /\ lora_protocol \notin {"Unknown", lora_protocol'}
          => SetLoraProtocol(lora_protocol')

LEMMA StepKeepsRadio == RouterInv /\ [RouterNext]_routerVars => [Kept]_routerVars
<1> SUFFICES ASSUME RouterInv, RouterNext PROVE Kept
  OBVIOUS
<1>1. ASSUME NEW t \in Transports, NEW b, RouteIncoming(t, b) PROVE Kept
  <2>1. Guess!is_locked(Guess!feed(detectors[t], b)) <=> Guess!is_locked(detectors[t])
    BY FeedKeepsLock DEF RouterInv
  <2> QED BY <1>1, <2>1 DEF RouteIncoming, Kept
<1>2. ASSUME NEW t \in Transports, ReleaseLoraControl(t) PROVE Kept
  BY <1>2 DEF ReleaseLoraControl, Kept
<1>3. ASSUME NEW p, SetLoraProtocol(p) PROVE Kept
  BY <1>3 DEF SetLoraProtocol, Kept
<1>4. ASSUME NEW t \in Transports, NEW d, Detector(t, d) PROVE Kept
  BY <1>4 DEF Detector, Kept
<1> QED BY <1>1, <1>2, <1>3, <1>4
      DEF RouterNext, ConfirmFrame, ErrorFrame, SoftReset, ForceProtocol, ResetDetector

\* For any transports and whatever they send, the radio is never taken from
\* the transport that holds it, it goes only to one whose frames have locked
\* its detector, and bytes never turn it from one protocol to another
\* (route_incoming, can_claim_lora, release_lora_control).
THEOREM RadioStaysWithItsHolder == RouterSpec => RadioIsKept
<1>1. [][Kept]_routerVars => RadioIsKept
  BY DEF Kept, RadioIsKept
<1> QED BY <1>1, InitRouterInv, NextRouterInv, StepKeepsRadio, PTL DEF RouterSpec
-----------------------------------------------------------------------------
\* The settings in range, which the host never puts out of it, and what the
\* host has been told.
SettingsInv ==
    /\ DOMAIN config = Settings /\ DOMAIN known = Settings
    /\ config["SpreadingFactor"] \in 7 .. 12 /\ config["CodingRate"] \in 5 .. 8
    /\ config["TxPower"] \in -9 .. 22
    /\ HostKnowsSettings

LEMMA InitSettingsInv == RNodeAssumption /\ RNodeInit => SettingsInv
BY DEF RNodeAssumption, RNodeInit, SettingsInv, HostKnowsSettings

\* A value a host sends is brought into the range of its setting.
LEMMA StoredInRange ==
    ASSUME NEW s, NEW n \in Nat
    PROVE  /\ s = "SpreadingFactor" => Stored(s, n) \in 7 .. 12
           /\ s = "CodingRate" => Stored(s, n) \in 5 .. 8
           /\ s = "TxPower" => Stored(s, n) \in -9 .. 22
BY DEF Stored, Within, Signed

LEMMA NextSettingsInv ==
    RNodeAssumption /\ SettingsInv /\ [RNodeNext]_rnodeVars => SettingsInv'
<1> SUFFICES ASSUME RNodeAssumption, SettingsInv, [RNodeNext]_rnodeVars
             PROVE  SettingsInv'
  OBVIOUS
<1> USE DEF SettingsInv, HostKnowsSettings
<1>1. ASSUME NEW s \in Asked, NEW n \in ValuesOf(s), Set(s, n) PROVE SettingsInv'
  <2>1. s \in Settings /\ n \in Nat
    BY DEF RNodeAssumption
  <2>2. CASE handler.locked
    BY <1>1, <2>1, <2>2 DEF Set, Answered
  <2>3. CASE ~ handler.locked
    <3>1. config' = WithSetting(s, n)
      BY <1>1, <2>3 DEF Set
    <3>2. /\ DOMAIN config' = Settings
          /\ config'[s] = Stored(s, n) \/ s = "Ldro"
          /\ \A t \in Settings \ {s, "Ldro"} : config'[t] = config[t]
          /\ s # "SpreadingFactor" => \A t \in Settings \ {s} : config'[t] = config[t]
      BY <2>1, <3>1 DEF WithSetting
    <3>3. /\ config'["SpreadingFactor"] \in 7 .. 12
          /\ config'["CodingRate"] \in 5 .. 8
          /\ config'["TxPower"] \in -9 .. 22
      BY <2>1, <3>2, StoredInRange DEF Settings
    <3>4. DOMAIN known' = Settings /\ HostKnowsSettings'
      BY <1>1, <2>1, <3>2 DEF Set, Answered, Settings
    <3> QED BY <3>2, <3>3, <3>4
  <2> QED BY <2>2, <2>3
<1>2. ASSUME NEW s \in Asked, Get(s) PROVE SettingsInv'
  <2>1. s \in Settings
    BY DEF RNodeAssumption
  <2> QED BY <1>2, <2>1 DEF Get, Answered, Settings
<1>3. ASSUME NEW switch, NEW on, SetSwitch(switch, on) PROVE SettingsInv'
  BY <1>3 DEF SetSwitch
<1>4. CASE ResetConfig
  BY <1>4 DEF ResetConfig, RNodeAssumption
<1>5. CASE UNCHANGED rnodeVars
  BY <1>5 DEF rnodeVars
<1> QED BY <1>1, <1>2, <1>3, <1>4, <1>5 DEF RNodeNext, Leave

LEMMA SettingsAreTaken == SettingsInv => SettingsAgree
BY DEF SettingsInv, SettingsAgree, RadioTakesSettings, RadioConfig

\* For any values a host sends, in any order with locks and resets, it knows
\* the settings the handler has, and those are settings the radio takes
\* (process_frame, configure_radio_for_protocol).
THEOREM HostAndRadioAgree == RNodeSpec => []SettingsAgree
<1>1. RNodeAssumption
  BY RNodeAssumption
<1> QED BY <1>1, InitSettingsInv, NextSettingsInv, SettingsAreTaken, PTL DEF RNodeSpec
-----------------------------------------------------------------------------
(***************************************************************************)
(* The TCP server.  A state of it is sound when its slots and its sockets  *)
(* are each others, no connection has two sockets, one that has a socket   *)
(* has been accepted and not been closed by the node, and the count is     *)
(* right as long as it cannot have wrapped.                                *)
(***************************************************************************)
PeerStates == {"new", "waiting", "open", "closed", "reset", "gone"}
Peer == [state : PeerStates, at : Fds \cup {NoFd}, unread : Nat, read : Nat]
Server == [clients : [ClientSlots -> Fds \cup {NoFd}],
           sockets : [Fds -> {"free", "server"} \cup Connections],
           count   : 0 .. CountWidth - 1, peers : [Connections -> Peer]]

Held(s) == {i \in ClientSlots : s.clients[i] # NoFd}

Sound(s) ==
    /\ s \in Server
    /\ \A i, j \in ClientSlots : s.clients[i] # NoFd /\ s.clients[i] = s.clients[j] => i = j
    /\ \A i \in Held(s) : s.sockets[s.clients[i]] \in Connections
    /\ \A f \in Fds : s.sockets[f] \in Connections =>
          /\ \E i \in ClientSlots : s.clients[i] = f
          /\ s.peers[s.sockets[f]].state \in {"open", "closed", "reset"}
    /\ \A f, g \in Fds : s.sockets[f] \in Connections /\ s.sockets[f] = s.sockets[g] => f = g
    /\ wifi.server_fd # NoFd => s.sockets[wifi.server_fd] = "server"
    /\ stranded + MaxClients < CountWidth => s.count = Cardinality(Held(s)) + stranded

Interface ==
    [initialized : BOOLEAN, config : WifiModes \cup {"Off"}, server_fd : Fds \cup {NoFd},
     shown : [mode : WifiModes \cup {"Off"}, ap : BOOLEAN, count : 0 .. CountWidth - 1]]

WifiInv ==
    /\ wifi \in Interface /\ stranded \in Nat
    /\ driver \in {"Off", "Ap", "Sta", "ApSta"}
    /\ driver \in {"Ap", "ApSta"} => wifi.shown.ap
    /\ Sound(Now)

\* What is held is in finitely many slots.
LEMMA SlotsCounted ==
    ASSUME WifiAssumption, NEW S, S \subseteq ClientSlots
    PROVE  IsFiniteSet(S) /\ Cardinality(S) \in 0 .. MaxClients
<1>1. IsFiniteSet(ClientSlots) /\ Cardinality(ClientSlots) = MaxClients
  <2>1. MaxClients \in Nat /\ 1 \in Int /\ MaxClients \in Int
    BY DEF WifiAssumption
  <2>2. IsFiniteSet(1 .. MaxClients)
        /\ Cardinality(1 .. MaxClients) = IF 1 > MaxClients THEN 0 ELSE MaxClients - 1 + 1
    BY <2>1, FS_Interval
  <2> QED BY <2>1, <2>2 DEF ClientSlots
<1>2. IsFiniteSet(S) /\ Cardinality(S) <= Cardinality(ClientSlots)
  BY <1>1, FS_Subset
<1>3. Cardinality(S) \in Nat
  BY <1>2, FS_CardinalityType
<1> QED BY <1>1, <1>2, <1>3 DEF WifiAssumption

LEMMA MinIsIn ==
    ASSUME NEW S, S \subseteq Nat, S # {}
    PROVE  Min(S) \in S
<1>1. PICK x \in S : \A y \in S : ~ (<<y, x>> \in OpToRel(<, Nat))
  BY NatLessThanWellFounded, WFMin
<1>2. \A y \in S : x <= y
  <2> TAKE y \in S
  <2>1. ~ (y < x)
    BY <1>1 DEF OpToRel
  <2> QED BY <2>1
<1> QED BY <1>2 DEF Min

LEMMA NoFdIsNone == WifiAssumption => NoFd \notin Fds /\ Fds \subseteq Nat
BY DEF WifiAssumption, NoFd, Fds

LEMMA DisconnectedSound ==
    ASSUME WifiAssumption, wifi \in Interface, stranded \in Nat,
           NEW s, Sound(s), NEW slots, slots \subseteq ClientSlots
    PROVE  Sound(Disconnected(s, slots))
<1> DEFINE held == {s.clients[i] : i \in slots} \ {NoFd}
           cut  == {s.sockets[f] : f \in held}
           out  == {i \in slots : s.clients[i] # NoFd}
           left == Cardinality(out)
           n    == IF s.count > left THEN s.count - left ELSE 0
           t    == Disconnected(s, slots)
<1>1. /\ s \in Server /\ NoFd \notin Fds /\ CountWidth \in Nat /\ MaxClients \in Nat
      /\ "free" \notin Connections /\ "server" \notin Connections
      /\ wifi.server_fd \in Fds \cup {NoFd}
  BY NoFdIsNone DEF Sound, WifiAssumption, Interface
<1>2. held \subseteq Fds
  BY <1>1 DEF Server
<1>3. /\ IsFiniteSet(Held(s)) /\ Cardinality(Held(s)) \in 0 .. MaxClients
      /\ left \in 0 .. MaxClients /\ out \subseteq Held(s)
  BY SlotsCounted DEF Held
<1>4. t = [s EXCEPT !.clients = [i \in ClientSlots |-> IF i \in slots THEN NoFd
                                                      ELSE s.clients[i]],
                    !.sockets = [f \in Fds |-> IF f \in held THEN "free" ELSE s.sockets[f]],
                    !.count = n, !.peers = Gone(s.peers, cut)]
  BY DEF Disconnected
<1> HIDE DEF held, out, left, t, n, cut
<1>5. Gone(s.peers, cut) \in [Connections -> Peer]
  <2>1. ASSUME NEW c \in Connections
        PROVE  [s.peers[c] EXCEPT !.state = "gone", !.at = NoFd] \in Peer
    <3>1. s.peers[c] \in Peer
      BY <1>1 DEF Server
    <3> QED BY <3>1 DEF Peer, PeerStates
  <2> QED BY <1>1, <2>1 DEF Gone, Server
<1>6. n \in 0 .. CountWidth - 1
  BY <1>1, <1>3 DEF Server, n
<1>7. /\ t \in Server /\ t.count = n
      /\ \A i \in ClientSlots : t.clients[i] = IF i \in slots THEN NoFd ELSE s.clients[i]
      /\ \A f \in Fds : t.sockets[f] = IF f \in held THEN "free" ELSE s.sockets[f]
      /\ \A c \in Connections : c \notin cut => t.peers[c] = s.peers[c]
  <2>1. /\ t.clients = [i \in ClientSlots |-> IF i \in slots THEN NoFd ELSE s.clients[i]]
        /\ t.sockets = [f \in Fds |-> IF f \in held THEN "free" ELSE s.sockets[f]]
        /\ t.count = n /\ t.peers = Gone(s.peers, cut)
        /\ DOMAIN t = {"clients", "sockets", "count", "peers"}
    BY <1>1, <1>4 DEF Server
  <2>2. /\ t.clients \in [ClientSlots -> Fds \cup {NoFd}]
        /\ t.sockets \in [Fds -> {"free", "server"} \cup Connections]
    BY <1>1, <2>1 DEF Server
  <2>3. t \in Server
    BY <1>1, <1>4, <1>5, <1>6, <2>1, <2>2 DEF Server
  <2> QED BY <2>1, <2>3 DEF Gone
<1>8. /\ \A i \in slots : s.clients[i] # NoFd => s.clients[i] \in held
      /\ \A f \in held : \E i \in slots : s.clients[i] = f
      /\ \A c \in cut : \E f \in held : c = s.sockets[f]
  BY DEF held, cut
<1>9. \A f \in held : s.sockets[f] \in Connections
  BY <1>2, <1>8, NoFdIsNone DEF Sound, Held
<1>10. \A i, j \in ClientSlots : t.clients[i] # NoFd /\ t.clients[i] = t.clients[j] => i = j
  BY <1>7 DEF Sound
<1>11. ASSUME NEW i \in Held(t) PROVE t.sockets[t.clients[i]] \in Connections
  <2>1. i \in ClientSlots /\ i \notin slots /\ t.clients[i] = s.clients[i] /\ i \in Held(s)
    BY <1>7 DEF Held
  <2>2. s.clients[i] \in Fds /\ s.clients[i] \notin held
    BY <1>1, <1>8, <2>1 DEF Sound, Held, Server
  <2> QED BY <1>7, <2>1, <2>2 DEF Sound
<1>12. ASSUME NEW f \in Fds, t.sockets[f] \in Connections
       PROVE  /\ \E i \in ClientSlots : t.clients[i] = f
              /\ t.peers[t.sockets[f]].state \in {"open", "closed", "reset"}
  <2>1. f \notin held /\ t.sockets[f] = s.sockets[f]
    BY <1>1, <1>7, <1>12
  <2>2. PICK i \in ClientSlots : s.clients[i] = f
    BY <1>12, <2>1 DEF Sound
  <2>3. t.clients[i] = f
    BY <1>1, <1>7, <1>8, <2>1, <2>2
  <2>4. s.sockets[f] \notin cut
    BY <1>2, <1>8, <1>9, <2>1 DEF Sound
  <2> QED BY <1>7, <1>12, <2>1, <2>3, <2>4 DEF Sound
<1>13. \A f, g \in Fds : t.sockets[f] \in Connections /\ t.sockets[f] = t.sockets[g] => f = g
  BY <1>1, <1>7 DEF Sound
<1>14. wifi.server_fd # NoFd => t.sockets[wifi.server_fd] = "server"
  BY <1>1, <1>7, <1>9 DEF Sound
<1>15. stranded + MaxClients < CountWidth => t.count = Cardinality(Held(t)) + stranded
  <2>1. Held(t) = Held(s) \ out
    BY <1>7 DEF Held, out
  <2>2. Cardinality(Held(t)) = Cardinality(Held(s)) - Cardinality(Held(s) \cap out)
    BY <1>3, <2>1, FS_Difference
  <2>3. Held(s) \cap out = out
    BY <1>3
  <2>4. left <= Cardinality(Held(s))
    BY <1>3, FS_Subset DEF left
  <2>5. Cardinality(Held(t)) = Cardinality(Held(s)) - left
    BY <2>2, <2>3 DEF left
  <2>6. stranded + MaxClients < CountWidth => s.count = Cardinality(Held(s)) + stranded
    BY DEF Sound
  <2>7. stranded + MaxClients < CountWidth => n = s.count - left
    BY <1>1, <1>3, <2>4, <2>6 DEF n
  <2> QED BY <1>1, <1>3, <1>7, <2>4, <2>5, <2>6, <2>7
<1>16. Sound(t)
  BY <1>7, <1>10, <1>11, <1>12, <1>13, <1>14, <1>15, Zenon DEF Sound
<1> QED BY <1>16 DEF t

\* What happens to the peers alone, as long as those with a socket keep theirs.
LEMMA PeersSound ==
    ASSUME NEW s, Sound(s), NEW p, p \in [Connections -> Peer],
           \A f \in Fds : s.sockets[f] \in Connections =>
               p[s.sockets[f]].state \in {"open", "closed", "reset"}
    PROVE  Sound([s EXCEPT !.peers = p])
<1> DEFINE t == [s EXCEPT !.peers = p]
<1>1. /\ t \in Server /\ t.clients = s.clients /\ t.sockets = s.sockets
      /\ t.count = s.count /\ t.peers = p
  BY DEF Sound, Server
<1> HIDE DEF t
<1>2. Held(t) = Held(s)
  BY <1>1 DEF Held
<1>3. Sound(t)
  BY <1>1, <1>2 DEF Sound
<1> QED BY <1>3 DEF t

LEMMA GonePeers ==
    ASSUME NEW ps, ps \in [Connections -> Peer], NEW cut
    PROVE  /\ Gone(ps, cut) \in [Connections -> Peer]
           /\ \A c \in Connections : c \notin cut => Gone(ps, cut)[c] = ps[c]
<1>1. ASSUME NEW c \in Connections
      PROVE  [ps[c] EXCEPT !.state = "gone", !.at = NoFd] \in Peer
  BY DEF Peer, PeerStates
<1> QED BY <1>1 DEF Gone

LEMMA AcceptedSound ==
    ASSUME WifiAssumption, wifi \in Interface, stranded \in Nat,
           NEW s, Sound(s), NEW c \in Connections, s.peers[c].state = "waiting",
           {f \in Fds : s.sockets[f] = "free"} # {}
    PROVE  Sound(Accepted(s, c))
<1> DEFINE open == {f \in Fds : s.sockets[f] = "free"}
           fd   == Min(open)
           free == {i \in ClientSlots : s.clients[i] = NoFd}
           slot == Min(free)
           n    == (s.count + 1) % CountWidth
           t    == Accepted(s, c)
<1>1. /\ s \in Server /\ NoFd \notin Fds /\ CountWidth \in Nat \ {0} /\ MaxClients \in Nat
      /\ "free" \notin Connections /\ "server" \notin Connections
      /\ wifi.server_fd \in Fds \cup {NoFd}
  BY NoFdIsNone DEF Sound, WifiAssumption, Interface
<1>2. fd \in Fds /\ s.sockets[fd] = "free"
  <2>1. open \subseteq Nat /\ open # {}
    BY NoFdIsNone
  <2>2. fd \in open
    <3> HIDE DEF open
    <3> QED BY <2>1, MinIsIn
  <2> QED BY <2>2
<1>3. \A f \in Fds : s.sockets[f] # c
  BY DEF Sound
<1>4. s.peers[c] \in Peer
  BY <1>1 DEF Server
<1>5. CASE free = {}
  <2>1. t = [s EXCEPT !.peers = Gone(s.peers, {c})]
    BY <1>5 DEF Accepted
  <2>2. /\ Gone(s.peers, {c}) \in [Connections -> Peer]
        /\ \A d \in Connections : d # c => Gone(s.peers, {c})[d] = s.peers[d]
    BY <1>1, GonePeers DEF Server
  <2>3. \A f \in Fds : s.sockets[f] \in Connections =>
            Gone(s.peers, {c})[s.sockets[f]].state \in {"open", "closed", "reset"}
    BY <1>3, <2>2 DEF Sound
  <2> HIDE DEF t
  <2>4. Sound(t)
    BY <2>1, <2>2, <2>3, PeersSound
  <2> QED BY <2>4 DEF t
<1>6. CASE free # {}
  <2>1. slot \in ClientSlots /\ s.clients[slot] = NoFd
    <3>1. free \subseteq Nat
      BY DEF ClientSlots
    <3>2. slot \in free
      <4> HIDE DEF free
      <4> QED BY <1>6, <3>1, MinIsIn
    <3> QED BY <3>2
  <2> DEFINE peer == [s.peers[c] EXCEPT !.state = "open", !.at = NoFd]
  <2>2. t = [s EXCEPT !.sockets[fd] = c, !.peers[c] = peer, !.clients[slot] = fd,
                      !.count = n]
    BY <1>6 DEF Accepted
  <2>3. peer \in Peer /\ peer.state = "open"
    BY <1>4 DEF Peer, PeerStates
  <2>4. n \in 0 .. CountWidth - 1 /\ (s.count + 1 < CountWidth => n = s.count + 1)
    <3>1. s.count \in 0 .. CountWidth - 1
      BY <1>1 DEF Server
    <3> QED BY <1>1, <3>1
  <2> HIDE DEF t, fd, slot, n, peer, open, free
  <2>5. /\ t.sockets = [s.sockets EXCEPT ![fd] = c] /\ t.peers = [s.peers EXCEPT ![c] = peer]
        /\ t.clients = [s.clients EXCEPT ![slot] = fd] /\ t.count = n
        /\ t \in Server
    BY <1>1, <1>2, <2>1, <2>2, <2>3, <2>4 DEF Server
  <2>6. /\ t.sockets[fd] = c /\ t.peers[c].state = "open" /\ t.clients[slot] = fd
        /\ \A f \in Fds : f # fd => t.sockets[f] = s.sockets[f]
        /\ \A d \in Connections : d # c => t.peers[d] = s.peers[d]
        /\ \A i \in ClientSlots : i # slot => t.clients[i] = s.clients[i]
    BY <1>1, <1>2, <2>1, <2>3, <2>5 DEF Server
  <2>7. \A i \in ClientSlots : s.clients[i] # fd
    BY <1>1, <1>2 DEF Sound, Held
  <2>8. Held(t) = Held(s) \cup {slot} /\ slot \notin Held(s)
    BY <1>1, <1>2, <2>1, <2>6 DEF Held
  <2>9. \A i, j \in ClientSlots : t.clients[i] # NoFd /\ t.clients[i] = t.clients[j] => i = j
    BY <2>6, <2>7 DEF Sound
  <2>10. \A i \in Held(t) : t.sockets[t.clients[i]] \in Connections
    <3> TAKE i \in Held(t)
    <3>1. CASE i = slot
      BY <2>6, <3>1
    <3>2. CASE i # slot
      <4>1. i \in Held(s) /\ t.clients[i] = s.clients[i] /\ s.clients[i] \in Fds
        BY <1>1, <2>6, <2>8, <3>2 DEF Held, Server
      <4> QED BY <2>6, <4>1 DEF Sound
    <3> QED BY <3>1, <3>2
  <2>11. ASSUME NEW f \in Fds, t.sockets[f] \in Connections
         PROVE  /\ \E i \in ClientSlots : t.clients[i] = f
                /\ t.peers[t.sockets[f]].state \in {"open", "closed", "reset"}
    <3>1. CASE f = fd
      BY <2>1, <2>6, <3>1
    <3>2. CASE f # fd
      <4>1. t.sockets[f] = s.sockets[f] /\ s.sockets[f] # c
        BY <1>3, <2>6, <3>2
      <4>2. PICK i \in ClientSlots : s.clients[i] = f
        BY <2>11, <4>1 DEF Sound
      <4>3. t.clients[i] = f
        BY <1>1, <2>1, <2>6, <4>2
      <4> QED BY <2>6, <2>11, <4>1, <4>3 DEF Sound
    <3> QED BY <3>1, <3>2
  <2>12. \A f, g \in Fds : t.sockets[f] \in Connections /\ t.sockets[f] = t.sockets[g] => f = g
    BY <1>3, <2>6 DEF Sound
  <2>13. wifi.server_fd # NoFd => t.sockets[wifi.server_fd] = "server"
    BY <1>1, <1>2, <2>6 DEF Sound
  <2>14. stranded + MaxClients < CountWidth => t.count = Cardinality(Held(t)) + stranded
    <3>1. /\ IsFiniteSet(Held(s)) /\ Cardinality(Held(s)) \in Nat
          /\ Cardinality(Held(t)) \in 0 .. MaxClients
      BY SlotsCounted DEF Held
    <3>2. Cardinality(Held(t)) = Cardinality(Held(s)) + 1
      BY <2>8, <3>1, FS_AddElement
    <3>3. stranded + MaxClients < CountWidth => s.count = Cardinality(Held(s)) + stranded
      BY DEF Sound
    <3> QED BY <1>1, <2>4, <2>5, <3>1, <3>2, <3>3
  <2>15. Sound(t)
    BY <2>5, <2>9, <2>10, <2>11, <2>12, <2>13, <2>14, Zenon DEF Sound
  <2> QED BY <2>15 DEF t
<1> QED BY <1>5, <1>6

LEMMA ScannedSound ==
    ASSUME WifiAssumption, wifi \in Interface, stranded \in Nat, NEW s, Sound(s)
    PROVE  Sound(Scanned(s))
<1> DEFINE ready == {i \in ClientSlots : Readable(s, i)}
           last  == IF ready = {} THEN MaxClients ELSE Min(ready)
           ended == {i \in 1 .. last : AtEnd(s, i)}
           after == Disconnected(s, ended)
           at    == PeerOf(s, last)
           p     == [after.peers EXCEPT ![at].read = @ + s.peers[at].unread, ![at].unread = 0]
<1>1. MaxClients \in Nat /\ s \in Server
  BY DEF WifiAssumption, Sound
<1>2. ready # {} => last \in ready
  <2>1. ready \subseteq Nat
    BY DEF ClientSlots
  <2> HIDE DEF ready
  <2> QED BY <2>1, MinIsIn
<1>3. ended \subseteq ClientSlots
  <2>1. last \in 0 .. MaxClients
    BY <1>1, <1>2 DEF ClientSlots
  <2> HIDE DEF last
  <2> QED BY <1>1, <2>1 DEF ClientSlots
<1>4. Sound(after)
  <2> HIDE DEF ended
  <2> QED BY <1>3, DisconnectedSound
<1>5. Scanned(s) = IF ready = {} THEN after ELSE [after EXCEPT !.peers = p]
  <2>1. Scanned(s) = IF ready = {} THEN after
                     ELSE [after EXCEPT !.peers[at].read = @ + s.peers[at].unread,
                                        !.peers[at].unread = 0]
    BY DEF Scanned, StateAt
  <2>2. after \in Server
    BY <1>4 DEF Sound
  <2> HIDE DEF after, at, ready
  <2> QED BY <2>1, <2>2 DEF Server
<1>6. ASSUME ready # {} PROVE Sound([after EXCEPT !.peers = p])
  <2>1. last \in ClientSlots /\ s.clients[last] # NoFd
    BY <1>2, <1>6 DEF Readable
  <2> HIDE DEF ready, last, ended
  <2>2. at \in Connections
    BY <2>1 DEF Sound, Held, PeerOf
  <2>3. s.peers[at] \in Peer
    BY <1>1, <2>2 DEF Server
  <2> HIDE DEF after, at
  <2>4. after \in Server /\ after.peers[at] \in Peer
    BY <1>4, <2>2 DEF Sound, Server
  <2> DEFINE new == [after.peers[at] EXCEPT
                        !.read = after.peers[at].read + s.peers[at].unread, !.unread = 0]
  <2>5. new \in Peer /\ new.state = after.peers[at].state
    <3>1. after.peers[at].read + s.peers[at].unread \in Nat
      BY <2>3, <2>4 DEF Peer
    <3> QED BY <2>4, <3>1 DEF Peer
  <2>6. p = [after.peers EXCEPT ![at] = new]
    BY <2>2, <2>4 DEF Server, Peer
  <2> HIDE DEF p, new
  <2>7. /\ p \in [Connections -> Peer]
        /\ \A c \in Connections : p[c].state = after.peers[c].state
    BY <2>2, <2>4, <2>5, <2>6 DEF Server
  <2>8. \A f \in Fds : after.sockets[f] \in Connections =>
            p[after.sockets[f]].state \in {"open", "closed", "reset"}
    BY <1>4, <2>7 DEF Sound
  <2> QED BY <1>4, <2>7, <2>8, PeersSound
<1> HIDE DEF after, p, ready
<1> QED BY <1>4, <1>5, <1>6

-----------------------------------------------------------------------------
LEMMA BecomesKeeps ==
    ASSUME WifiInv, NEW s, Sound(s), Becomes(s)
    PROVE  WifiInv'
<1>1. /\ s \in Server /\ clients' = s.clients /\ sockets' = s.sockets /\ peers' = s.peers
      /\ wifi' = [wifi EXCEPT !.shown.count = s.count]
      /\ UNCHANGED <<driver, stranded>>
  BY DEF Becomes, Sound
<1>2. /\ wifi' \in Interface /\ wifi'.shown.count = s.count
      /\ wifi'.server_fd = wifi.server_fd /\ wifi'.shown.ap = wifi.shown.ap
  BY <1>1 DEF WifiInv, Interface, Server
<1>3. Now' = s
  <2>1. s = [clients |-> s.clients, sockets |-> s.sockets, count |-> s.count,
             peers |-> s.peers]
    BY <1>1 DEF Server
  <2> QED BY <1>1, <1>2, <2>1 DEF Now
<1>4. Sound(Now)'
  BY <1>1, <1>2, <1>3 DEF Sound, Held, Server, Peer
<1> QED BY <1>1, <1>2, <1>4 DEF WifiInv

LEMMA ServerKeeps ==
    ASSUME WifiAssumption, WifiInv,
           \/ PollTcp
           \/ \E i \in ClientSlots : \/ DisconnectClient(i)
                                     \/ \E ok \in BOOLEAN : SendToClient(i, ok)
           \/ \E failing \in SUBSET ClientSlots : Broadcast(failing)
    PROVE  WifiInv'
<1>1. wifi \in Interface /\ stranded \in Nat /\ Sound(Now)
  BY DEF WifiInv
<1>2. \A slots \in SUBSET ClientSlots : Sound(Disconnected(Now, slots))
  BY <1>1, DisconnectedSound
<1>3. CASE PollTcp
  <2>1. PICK s : /\ \/ s = Now
                    \/ Free # {} /\ \E c \in Waiting : s = Accepted(Now, c)
                 /\ Becomes(Scanned(s))
    BY <1>3 DEF PollTcp
  <2>2. CASE s = Now
    BY <1>1, <2>1, <2>2, ScannedSound, BecomesKeeps
  <2>3. ASSUME NEW c \in Waiting, Free # {}, s = Accepted(Now, c) PROVE WifiInv'
    <3>1. c \in Connections /\ Now.peers[c].state = "waiting"
      BY DEF Waiting, Now
    <3>2. {f \in Fds : Now.sockets[f] = "free"} # {}
      BY <2>3 DEF Free, Now
    <3>3. Sound(s)
      BY <1>1, <2>3, <3>1, <3>2, AcceptedSound
    <3> QED BY <1>1, <2>1, <3>3, ScannedSound, BecomesKeeps
  <2> QED BY <2>1, <2>2, <2>3
<1>4. CASE \E i \in ClientSlots : DisconnectClient(i)
  BY <1>2, <1>4, BecomesKeeps DEF DisconnectClient
<1>5. CASE \E i \in ClientSlots, ok \in BOOLEAN : SendToClient(i, ok)
  <2>1. PICK i \in ClientSlots, ok \in BOOLEAN :
            Becomes(IF ok THEN Now ELSE Disconnected(Now, {i}))
    BY <1>5 DEF SendToClient
  <2>2. Sound(IF ok THEN Now ELSE Disconnected(Now, {i}))
    BY <1>1, <1>2
  <2> QED BY <2>1, <2>2, BecomesKeeps
<1>6. CASE \E failing \in SUBSET ClientSlots : Broadcast(failing)
  BY <1>2, <1>6, BecomesKeeps DEF Broadcast
<1> QED BY <1>3, <1>4, <1>5, <1>6

\* A step that leaves the server alone.
LEMMA InterfaceKeeps ==
    ASSUME WifiInv, UNCHANGED <<clients, sockets, peers, stranded>>, wifi' \in Interface,
           wifi'.server_fd = wifi.server_fd, wifi'.shown.count = wifi.shown.count,
           driver' \in {"Off", "Ap", "Sta", "ApSta"},
           driver' \in {"Ap", "ApSta"} => wifi'.shown.ap
    PROVE  WifiInv'
<1>1. Now' = Now
  BY DEF Now
<1>2. Sound(Now)'
  BY <1>1 DEF WifiInv, Sound, Held, Server, Peer
<1> QED BY <1>2 DEF WifiInv

LEMMA SettingsKeep ==
    ASSUME WifiAssumption, WifiInv,
           \/ \E mode \in WifiModes : InitWifi(mode) \/ SetConfig(mode)
           \/ \E ok \in BOOLEAN : Start(ok)
    PROVE  WifiInv'
<1>1. CASE \E mode \in WifiModes : InitWifi(mode) \/ SetConfig(mode)
  <2>1. PICK mode \in WifiModes :
            /\ \/ wifi' = [wifi EXCEPT !.initialized = TRUE, !.config = mode]
               \/ wifi' = [wifi EXCEPT !.config = mode]
            /\ UNCHANGED <<clients, sockets, driver, peers, stranded>>
    BY <1>1 DEF InitWifi, SetConfig
  <2>2. /\ wifi' \in Interface /\ wifi'.server_fd = wifi.server_fd
        /\ wifi'.shown = wifi.shown
    BY <2>1 DEF WifiInv, Interface
  <2> QED BY <2>1, <2>2, InterfaceKeeps, SMTT(30) DEF WifiInv
<1>2. CASE \E ok \in BOOLEAN : Start(ok)
  <2>1. /\ UNCHANGED <<clients, sockets, peers, stranded>>
        /\ \/ /\ driver' = wifi.config
              /\ wifi' = [wifi EXCEPT !.shown.mode = wifi.config,
                             !.shown.ap = wifi.shown.ap \/ wifi.config \in {"Ap", "ApSta"}]
           \/ UNCHANGED <<driver, wifi>>
    BY <1>2 DEF Start
  <2>2. CASE UNCHANGED <<driver, wifi>>
    BY <2>1, <2>2, InterfaceKeeps DEF WifiInv
  <2>3. CASE ~ UNCHANGED <<driver, wifi>>
    <3> DEFINE ap == wifi.shown.ap \/ wifi.config \in {"Ap", "ApSta"}
    <3>1. /\ driver' = wifi.config /\ UNCHANGED <<clients, sockets, peers, stranded>>
          /\ wifi' = [wifi EXCEPT !.shown.mode = wifi.config, !.shown.ap = ap]
      BY <2>1, <2>3
    <3>2. wifi \in Interface /\ wifi.config \in {"Off", "Ap", "Sta", "ApSta"}
      BY DEF WifiInv, Interface, WifiAssumption
    <3>3. ap \in BOOLEAN /\ (wifi.config \in {"Ap", "ApSta"} => ap)
      OBVIOUS
    <3> HIDE DEF ap
    <3>4. /\ wifi' \in Interface /\ wifi'.server_fd = wifi.server_fd
          /\ wifi'.shown.count = wifi.shown.count /\ wifi'.shown.ap = ap
      BY <3>1, <3>2, <3>3 DEF Interface
    <3> QED BY <3>1, <3>2, <3>3, <3>4, InterfaceKeeps
  <2> QED BY <2>2, <2>3
<1> QED BY <1>1, <1>2

LEMMA StartServerKeeps ==
    ASSUME WifiAssumption, WifiInv, NEW ok \in BOOLEAN, StartTcpServer(ok)
    PROVE  WifiInv'
<1>1. CASE ~ ok
  <2>1. UNCHANGED <<wifi, clients, sockets, driver, peers, stranded>>
    BY <1>1 DEF StartTcpServer
  <2> QED BY <2>1, InterfaceKeeps DEF WifiInv
<1>2. CASE ok
  <2> DEFINE fd == Min(Free)
  <2>1. /\ Free # {} /\ wifi' = [wifi EXCEPT !.server_fd = fd]
        /\ sockets' = [sockets EXCEPT ![fd] = "server"]
        /\ UNCHANGED <<clients, driver, peers, stranded>>
    BY <1>2 DEF StartTcpServer
  <2>2. fd \in Fds /\ sockets[fd] = "free"
    <3>1. Free \subseteq Nat
      BY NoFdIsNone DEF Free
    <3>2. fd \in Free
      BY <2>1, <3>1, MinIsIn
    <3> QED BY <3>2 DEF Free
  <2> HIDE DEF fd
  <2>3. /\ wifi' \in Interface /\ wifi'.server_fd = fd /\ wifi'.shown = wifi.shown
    BY <2>1, <2>2 DEF WifiInv, Interface
  <2>4. /\ sockets' \in [Fds -> {"free", "server"} \cup Connections]
        /\ sockets'[fd] = "server"
        /\ \A f \in Fds : f # fd => sockets'[f] = sockets[f]
    BY <2>1, <2>2 DEF WifiInv, Sound, Server, Now
  <2>5. /\ "free" \notin Connections /\ "server" \notin Connections
    BY DEF WifiAssumption
  <2>6. Now' \in Server
    BY <2>1, <2>3, <2>4 DEF WifiInv, Sound, Server, Now
  <2>7. Now'.clients = Now.clients /\ Now'.peers = Now.peers /\ Now'.count = Now.count
        /\ Now.sockets = sockets /\ Now'.sockets = sockets'
    BY <2>1, <2>3 DEF Now
  <2>8. Held(Now)' = Held(Now)
    BY <2>7 DEF Held
  <2>9. \A i \in Held(Now) : Now.clients[i] \in Fds /\ Now.clients[i] # fd
    BY <2>2, <2>5 DEF WifiInv, Sound, Held, Now, Server
  <2>10. \A f \in Fds : Now'.sockets[f] \in Connections =>
             f # fd /\ Now'.sockets[f] = Now.sockets[f]
    BY <2>4, <2>5, <2>7
  <2>11. Sound(Now)
    BY DEF WifiInv
  <2>12. \A i \in Held(Now) : Now'.sockets[Now.clients[i]] \in Connections
    BY <2>4, <2>7, <2>9, <2>11 DEF Sound
  <2>13. \A f, g \in Fds : Now'.sockets[f] \in Connections /\ Now'.sockets[f] = Now'.sockets[g]
             => f = g
    BY <2>4, <2>5, <2>7, <2>10, <2>11 DEF Sound
  <2> HIDE DEF Now
  <2>14. Sound(Now)'
    BY <2>1, <2>3, <2>4, <2>6, <2>7, <2>8, <2>10, <2>11, <2>12, <2>13 DEF Sound
  <2> QED BY <2>1, <2>3, <2>14 DEF WifiInv
<1> QED BY <1>1, <1>2

LEMMA StopKeeps ==
    ASSUME WifiAssumption, WifiInv, StopTcpServer \/ StopWifi
    PROVE  WifiInv'
<1> DEFINE cut == {PeerAt(i) : i \in Taken}
<1>1. /\ sockets' = [f \in Fds |->
           IF f = wifi.server_fd \/ \E i \in Taken : clients[i] = f THEN "free" ELSE sockets[f]]
      /\ clients' = [i \in ClientSlots |-> NoFd]
      /\ peers' = Gone(peers, cut \cup Waiting)
      /\ stranded' = stranded + Cardinality(cut)
  BY DEF StopTcpServer, StopWifi, StopServer, Stopped
<1>2. /\ Sound(Now) /\ Now \in Server /\ wifi \in Interface /\ stranded \in Nat
      /\ "free" \notin Connections /\ NoFd \notin Fds /\ MaxClients \in Nat
      /\ CountWidth \in Nat
  BY NoFdIsNone DEF WifiInv, Sound, WifiAssumption
<1>3. /\ wifi' \in Interface /\ wifi'.server_fd = NoFd
      /\ wifi'.shown.count = wifi.shown.count
      /\ \/ wifi'.shown.ap = wifi.shown.ap /\ driver' = driver
         \/ driver' = "Off"
  <2>1. \/ wifi' = [wifi EXCEPT !.server_fd = NoFd] /\ driver' = driver
        \/ /\ wifi' = [wifi EXCEPT !.server_fd = NoFd, !.shown.mode = "Off",
                                   !.shown.ap = FALSE]
           /\ driver' = "Off"
    BY DEF StopTcpServer, StopWifi
  <2>2. /\ wifi.shown \in [mode : WifiModes \cup {"Off"}, ap : BOOLEAN,
                          count : 0 .. CountWidth - 1]
        /\ wifi \in Interface
    BY <1>2 DEF Interface
  <2>3. CASE wifi' = [wifi EXCEPT !.server_fd = NoFd] /\ driver' = driver
    BY <2>2, <2>3 DEF Interface
  <2>4. CASE /\ wifi' = [wifi EXCEPT !.server_fd = NoFd, !.shown.mode = "Off",
                                    !.shown.ap = FALSE]
             /\ driver' = "Off"
    <3> DEFINE off == [wifi.shown EXCEPT !.mode = "Off", !.ap = FALSE]
    <3>1. /\ off \in [mode : WifiModes \cup {"Off"}, ap : BOOLEAN,
                       count : 0 .. CountWidth - 1]
          /\ off.count = wifi.shown.count
      BY <2>2
    <3>2. wifi' = [wifi EXCEPT !.server_fd = NoFd, !.shown = off]
      BY <2>2, <2>4 DEF Interface
    <3> HIDE DEF off
    <3> QED BY <2>2, <2>4, <3>1, <3>2 DEF Interface
  <2> QED BY <2>1, <2>3, <2>4
<1>4. IsFiniteSet(Taken) /\ Cardinality(Taken) \in Nat /\ Cardinality(cut) = Cardinality(Taken)
  <2>1. IsFiniteSet(Taken) /\ Cardinality(Taken) \in Nat
    BY SlotsCounted DEF Taken
  <2> DEFINE f == [i \in Taken |-> PeerAt(i)]
  <2>2. f \in Surjection(Taken, cut)
    BY DEF Surjection
  <2>3. ASSUME NEW i \in Taken, NEW j \in Taken, PeerAt(i) = PeerAt(j) PROVE i = j
    <3>1. /\ clients[i] \in Fds /\ clients[j] \in Fds /\ i \in ClientSlots /\ j \in ClientSlots
          /\ sockets[clients[i]] \in Connections
      BY <1>2 DEF Taken, Sound, Held, Server, Now
    <3>2. clients[i] = clients[j]
      BY <1>2, <2>3, <3>1 DEF PeerAt, Sound, Now
    <3> QED BY <1>2, <3>1, <3>2 DEF Sound, Now
  <2>4. f \in Injection(Taken, cut)
    BY <2>3 DEF Injection, IsInjective
  <2> HIDE DEF f, cut
  <2> QED BY <2>1, <2>2, <2>4, FS_Surjection
<1> HIDE DEF cut
<1>5. peers' \in [Connections -> Peer]
  BY <1>1, <1>2, GonePeers DEF Now, Server
<1>6. \A f \in Fds : sockets'[f] \notin Connections
  <2> TAKE f \in Fds
  <2>1. CASE sockets[f] \in Connections
    <3>1. PICK i \in ClientSlots : clients[i] = f
      BY <1>2, <2>1 DEF Sound, Now
    <3>2. i \in Taken
      BY <1>2, <3>1 DEF Taken
    <3> QED BY <1>1, <1>2, <3>1, <3>2
  <2>2. CASE sockets[f] \notin Connections
    BY <1>1, <1>2, <2>2
  <2> QED BY <2>1, <2>2
<1>7. clients' \in [ClientSlots -> Fds \cup {NoFd}]
      /\ sockets' \in [Fds -> {"free", "server"} \cup Connections]
  BY <1>1, <1>2 DEF Server, Now
<1>8. Held(Now)' = {}
  BY <1>1 DEF Held, Now
<1>9. stranded + MaxClients < CountWidth => wifi.shown.count = Cardinality(Taken) + stranded
  <2>1. Held(Now) = Taken /\ Now.count = wifi.shown.count
    BY DEF Held, Taken, Now
  <2> QED BY <1>2, <2>1 DEF Sound
<1>10. stranded' \in Nat /\ (stranded' + MaxClients < CountWidth =>
           Now'.count = Cardinality(Held(Now)') + stranded')
  <2>1. Now'.count = wifi'.shown.count
    BY DEF Now
  <2> QED BY <1>1, <1>2, <1>3, <1>4, <1>8, <1>9, <2>1, FS_EmptySet
<1>11. Now' \in Server
  BY <1>3, <1>5, <1>7 DEF Now, Server, Interface
<1>12. Now'.sockets = sockets' /\ Now'.clients = clients'
  BY DEF Now
<1> HIDE DEF Now
<1>13. Sound(Now)'
  BY <1>1, <1>3, <1>6, <1>8, <1>10, <1>11, <1>12 DEF Sound
<1>14. driver' \in {"Ap", "ApSta"} => wifi'.shown.ap
  BY <1>3 DEF WifiInv
<1>15. driver' \in {"Off", "Ap", "Sta", "ApSta"}
  BY <1>3 DEF WifiInv
<1> QED BY <1>3, <1>10, <1>13, <1>14, <1>15 DEF WifiInv

LEMMA PeerKeeps ==
    ASSUME WifiAssumption, WifiInv, NEW c \in Connections, PeerStep(c)
    PROVE  WifiInv'
<1>1. /\ Sound(Now) /\ Now \in Server /\ peers \in [Connections -> Peer]
      /\ UNCHANGED <<wifi, clients, sockets, driver, stranded>>
  BY DEF WifiInv, Sound, Server, Now, PeerStep
<1>2. peers[c] \in Peer
  BY <1>1
<1>3. /\ peers' \in [Connections -> Peer]
      /\ \A d \in Connections : d # c => peers'[d].state = peers[d].state
      /\ peers[c].state \in {"open", "closed", "reset"} =>
            peers'[c].state \in {"open", "closed", "reset"}
  <2>1. CASE \E f \in Fds : peers[c].state = "new"
                /\ peers' = [peers EXCEPT ![c] = [peers[c] EXCEPT !.state = "waiting", !.at = f]]
    <3>1. PICK f \in Fds : peers[c].state = "new"
              /\ peers' = [peers EXCEPT ![c] = [peers[c] EXCEPT !.state = "waiting", !.at = f]]
      BY <2>1
    <3>2. [peers[c] EXCEPT !.state = "waiting", !.at = f] \in Peer
      BY <1>2 DEF Peer, PeerStates
    <3> QED BY <1>1, <3>1, <3>2
  <2>2. CASE peers' = [peers EXCEPT ![c].unread = peers[c].unread + 1]
    <3>1. peers[c].unread + 1 \in Nat
      BY <1>2 DEF Peer
    <3>2. /\ [peers[c] EXCEPT !.unread = peers[c].unread + 1] \in Peer
          /\ [peers[c] EXCEPT !.unread = peers[c].unread + 1].state = peers[c].state
      BY <1>2, <3>1 DEF Peer
    <3> QED BY <1>1, <2>2, <3>2
  <2>3. CASE peers[c].state = "waiting" /\ peers' = Gone(peers, {c})
    BY <1>1, <2>3, GonePeers
  <2>4. CASE \E state \in {"closed", "reset"} : peers' = [peers EXCEPT ![c].state = state]
    <3>1. PICK state \in {"closed", "reset"} : peers' = [peers EXCEPT ![c].state = state]
      BY <2>4
    <3>2. /\ [peers[c] EXCEPT !.state = state] \in Peer
          /\ [peers[c] EXCEPT !.state = state].state = state
      BY <1>2 DEF Peer, PeerStates
    <3> QED BY <1>1, <3>1, <3>2
  <2>5. \/ \E f \in Fds : peers[c].state = "new"
              /\ peers' = [peers EXCEPT ![c] = [peers[c] EXCEPT !.state = "waiting", !.at = f]]
        \/ peers' = [peers EXCEPT ![c].unread = peers[c].unread + 1]
        \/ peers[c].state = "waiting" /\ peers' = Gone(peers, {c})
        \/ \E state \in {"closed", "reset"} : peers' = [peers EXCEPT ![c].state = state]
    BY DEF PeerStep
  <2> QED BY <2>1, <2>2, <2>3, <2>4, <2>5
<1>4. Now' = [Now EXCEPT !.peers = peers'] /\ Now.sockets = sockets /\ Now.peers = peers
  BY <1>1 DEF Now
<1>5. Sound([Now EXCEPT !.peers = peers'])
  <2>1. \A f \in Fds : Now.sockets[f] \in Connections =>
            peers'[Now.sockets[f]].state \in {"open", "closed", "reset"}
    BY <1>1, <1>3, <1>4 DEF Sound
  <2> HIDE DEF Now
  <2> QED BY <1>1, <1>3, <2>1, PeersSound
<1>6. Sound(Now)'
  <2>1. Sound(Now')
    BY <1>4, <1>5
  <2> QED BY <1>1, <2>1 DEF Sound, Held, Server, Peer
<1> QED BY <1>1, <1>6 DEF WifiInv

LEMMA InitWifiInv == WifiAssumption /\ WifiInit => WifiInv
<1> SUFFICES ASSUME WifiAssumption, WifiInit PROVE WifiInv
  OBVIOUS
<1>1. /\ "free" \notin Connections /\ CountWidth \in Nat \ {0} /\ 0 \in 0 .. CountWidth - 1
      /\ NoFd \notin Fds /\ "Off" \notin {"Ap", "ApSta"}
  BY NoFdIsNone DEF WifiAssumption
<1>2. wifi \in Interface /\ wifi.shown.count = 0 /\ wifi.server_fd = NoFd
  BY <1>1 DEF WifiInit, Interface
<1>3. peers \in [Connections -> Peer]
  <2>1. [state |-> "new", at |-> NoFd, unread |-> 0, read |-> 0] \in Peer
    BY DEF Peer, PeerStates
  <2> QED BY <2>1 DEF WifiInit
<1>4. /\ Now \in Server /\ Now.sockets = sockets /\ Now.clients = clients /\ Now.count = 0
  BY <1>1, <1>2, <1>3 DEF WifiInit, Now, Server
<1>5. Held(Now) = {} /\ Cardinality({}) = 0
  BY <1>4, FS_EmptySet DEF Held, WifiInit
<1> HIDE DEF Now
<1>6. Sound(Now)
  BY <1>1, <1>2, <1>4, <1>5 DEF Sound, WifiInit
<1> QED BY <1>2, <1>6 DEF WifiInv, WifiInit

LEMMA NextWifiInv == WifiAssumption /\ WifiInv /\ [WifiNext]_wifiVars => WifiInv'
<1> SUFFICES ASSUME WifiAssumption, WifiInv, [WifiNext]_wifiVars PROVE WifiInv'
  OBVIOUS
<1>1. CASE UNCHANGED wifiVars
  BY <1>1, InterfaceKeeps DEF wifiVars, WifiInv
<1>2. CASE \E mode \in WifiModes : InitWifi(mode) \/ SetConfig(mode)
  BY <1>2, SettingsKeep
<1>3. CASE \E ok \in BOOLEAN : Start(ok) \/ StartTcpServer(ok)
  BY <1>3, SettingsKeep, StartServerKeeps
<1>4. CASE StopTcpServer \/ StopWifi
  BY <1>4, StopKeeps
<1>5. CASE \/ PollTcp
           \/ \E i \in ClientSlots : \/ DisconnectClient(i)
                                     \/ \E ok \in BOOLEAN : SendToClient(i, ok)
           \/ \E failing \in SUBSET ClientSlots : Broadcast(failing)
  BY <1>5, ServerKeeps
<1>6. CASE \E c \in Connections : PeerStep(c)
  BY <1>6, PeerKeeps
<1> QED BY <1>1, <1>2, <1>3, <1>4, <1>5, <1>6 DEF WifiNext

LEMMA SlotsFollow == WifiAssumption /\ WifiInv => SocketsInSlots
<1> SUFFICES ASSUME WifiAssumption, WifiInv PROVE SocketsInSlots
  OBVIOUS
<1>1. Sound(Now) /\ Now \in Server /\ wifi \in Interface /\ NoFd \notin Fds
  BY NoFdIsNone DEF WifiInv, Sound
<1>2. WifiTypeOK
  <2>1. /\ clients \in [ClientSlots -> Fds \cup {NoFd}]
        /\ sockets \in [Fds -> {"free", "server"} \cup Connections]
        /\ peers \in [Connections -> Peer]
    BY <1>1 DEF Now, Server
  <2>2. \A c \in Connections : peers[c].state \in PeerStates
    BY <2>1 DEF Peer
  <2> QED BY <1>1, <2>1, <2>2 DEF WifiTypeOK, WifiInv, Interface, PeerStates
<1>3. ASSUME NEW f \in Fds, sockets[f] \in Connections
      PROVE  Cardinality({i \in ClientSlots : clients[i] = f}) = 1
  <2>1. PICK i \in ClientSlots : clients[i] = f
    BY <1>1, <1>3 DEF Sound, Now
  <2>2. {j \in ClientSlots : clients[j] = f} = {i}
    BY <1>1, <2>1 DEF Sound, Now
  <2> QED BY <2>2, FS_Singleton
<1>4. \A i \in Taken : PeerAt(i) \in Connections
  BY <1>1 DEF Sound, Taken, Held, PeerAt, Now
<1>5. wifi.server_fd # NoFd => sockets[wifi.server_fd] = "server"
  BY <1>1 DEF Sound, Now
<1> QED BY <1>2, <1>3, <1>4, <1>5 DEF SocketsInSlots

LEMMA ReportFollows == WifiInv => NetworkAsReported
<1> SUFFICES ASSUME WifiInv PROVE NetworkAsReported
  OBVIOUS
<1>1. Held(Now) = Taken /\ Now.count = wifi.shown.count
  BY DEF Held, Taken, Now
<1> QED BY <1>1 DEF WifiInv, Sound, NetworkAsReported

\* The slots for clients and the sockets of the stack belong together, for any
\* number of slots, sockets and connections, whatever the peers do and however
\* often the server is stopped and started (accept_connections, read_client,
\* send_to_client, disconnect_client, start_tcp_server, stop_tcp_server).
THEOREM SlotsAndSocketsAgree == WifiSpec => []SocketsInSlots
<1>1. WifiAssumption
  BY WifiAssumption
<1> QED BY <1>1, InitWifiInv, NextWifiInv, SlotsFollow, PTL DEF WifiSpec

\* The status counts the clients and those a stop has cut off, as long as the
\* count cannot have wrapped, and shows the access point whenever it runs.
THEOREM NetworkIsAsReported == WifiSpec => []NetworkAsReported
<1>1. WifiAssumption
  BY WifiAssumption
<1> QED BY <1>1, InitWifiInv, NextWifiInv, ReportFollows, PTL DEF WifiSpec
-----------------------------------------------------------------------------
\* The count of connections is right for any number of slots and handles: the
\* invariant adds what makes a slot available whenever the stack gives a
\* connection, that it advertises only while it has one left and has no more of
\* them than there are slots.  For the queues it adds that no number is ahead of
\* the counter it was drawn from.

\* CountIsLinks, its parts by themselves.
Linked == {connections[s] : s \in Slots} \ {NoHandle}

Apart ==
    \A s, t \in Slots :
        s # t /\ connections[s] = connections[t] => connections[s] = NoHandle

LinkInv ==
    /\ connections \in [Slots -> Handles \cup {NoHandle}]
    /\ links \subseteq Handles /\ IsFiniteSet(links)
    /\ Cardinality(links) <= MaxLinks
    /\ on_air => Cardinality(links) < MaxLinks
    /\ connection_count = Cardinality(links)
    /\ Linked = links
    /\ Apart

\* When every slot is taken there are as many connections as slots.
LEMMA FullSlots ==
    ASSUME LinksAssumption, LinkInv, \A s \in Slots : connections[s] # NoHandle
    PROVE  Cardinality(links) >= MaxConnections
<1>1. MaxConnections \in Nat /\ Slots = 1 .. MaxConnections
  BY DEF LinksAssumption, Slots
<1>2. connections \in [Slots -> links]
  <2>1. \A s \in Slots : connections[s] \in links
    BY DEF LinkInv, Linked
  <2> QED BY <2>1 DEF LinkInv
<1>3. connections \in Injection(Slots, links)
  BY <1>2 DEF LinkInv, Apart, Injection, IsInjective
<1>4. IsFiniteSet(links)
  BY DEF LinkInv
<1>5. Cardinality(Slots) <= Cardinality(links)
  BY <1>3, <1>4, FS_Injection
<1>6. Cardinality(Slots) = MaxConnections
  BY <1>1, FS_Interval
<1>7. Cardinality(links) \in Nat
  BY <1>4, FS_CardinalityType
<1> QED BY <1>1, <1>5, <1>6, <1>7

LEMMA InitLinkInv == LinksAssumption /\ Init => LinkInv
<1> SUFFICES ASSUME LinksAssumption, Init PROVE LinkInv
  OBVIOUS
<1>1. IsFiniteSet({}) /\ Cardinality({}) = 0
  BY FS_EmptySet
<1>2. Linked = {} /\ Apart
  BY DEF Init, Linked, Apart
<1> QED BY <1>1, <1>2 DEF LinksAssumption, Init, LinkInv

LEMMA ConnectLinkInv ==
    ASSUME LinksAssumption, LinkInv, NEW h \in Handles, Connect(h)
    PROVE  LinkInv'
<1>0. /\ Cardinality(links) \in Nat /\ IsFiniteSet(links)
      /\ Cardinality(links) < MaxLinks /\ h \notin links /\ h # NoHandle
      /\ links' = links \cup {h} /\ on_air' = FALSE
      /\ MaxLinks \in Nat /\ MaxLinks <= MaxConnections /\ MaxConnections < 65536
  BY FS_CardinalityType DEF LinkInv, Connect, LinksAssumption
<1>1. Cardinality(links') = Cardinality(links) + 1 /\ IsFiniteSet(links')
  BY <1>0, FS_AddElement
<1>2. PICK s \in Slots : /\ connections[s] = NoHandle
                         /\ connections' = [connections EXCEPT ![s] = h]
                         /\ connection_count' = (connection_count + 1) % 65536
  <2>1. CASE \A s \in Slots : connections[s] # NoHandle
    BY <1>0, <2>1, FullSlots DEF LinksAssumption
  <2>2. CASE ~ \A s \in Slots : connections[s] # NoHandle
    BY <2>2 DEF Connect, AddConnection
  <2> QED BY <2>1, <2>2
<1>3. connections' \in [Slots -> Handles \cup {NoHandle}]
  BY <1>2 DEF LinkInv
<1>4. connection_count' = Cardinality(links')
  BY <1>0, <1>1, <1>2 DEF LinkInv
<1>5. Linked' = links'
  BY <1>0, <1>2 DEF LinkInv, Linked
<1>6. Apart'
  <2>1. \A t \in Slots : connections[t] # h
    BY <1>0 DEF LinkInv, Linked
  <2> QED BY <1>2, <2>1 DEF LinkInv, Apart
<1> QED BY <1>0, <1>1, <1>3, <1>4, <1>5, <1>6 DEF LinkInv

LEMMA DisconnectLinkInv ==
    ASSUME LinksAssumption, LinkInv, NEW h \in Handles, Disconnect(h)
    PROVE  LinkInv'
<1>0. /\ Cardinality(links) \in Nat /\ IsFiniteSet(links) /\ h \in links
      /\ links' = links \ {h} /\ on_air' = on_air
      /\ MaxLinks \in Nat /\ MaxLinks <= MaxConnections /\ MaxConnections < 65536
  BY FS_CardinalityType DEF LinkInv, Disconnect, LinksAssumption
<1>1. /\ Cardinality(links') = Cardinality(links) - 1 /\ IsFiniteSet(links')
      /\ Cardinality(links') \in Nat
  BY <1>0, FS_RemoveElement, FS_CardinalityType
<1>2. PICK s \in Slots : /\ connections[s] = h
                         /\ connections' = [connections EXCEPT ![s] = NoHandle]
                         /\ connection_count' = (connection_count - 1) % 65536
  BY <1>0 DEF LinkInv, Linked, Disconnect, RemoveConnection
<1>3. connections' \in [Slots -> Handles \cup {NoHandle}]
  BY <1>2 DEF LinkInv
<1>4. connection_count' = Cardinality(links')
  <2>1. connection_count - 1 \in Nat /\ connection_count - 1 < 65536
    BY <1>0, <1>1 DEF LinkInv
  <2> QED BY <1>0, <1>1, <1>2, <2>1 DEF LinkInv
<1>5. \A t \in Slots : t # s => connections[t] # h
  BY <1>0, <1>2 DEF LinkInv, Apart, LinksAssumption
<1>6. Linked' = links'
  BY <1>0, <1>2, <1>5 DEF LinkInv, Linked
<1>7. Apart'
  BY <1>2 DEF LinkInv, Apart
<1> QED BY <1>0, <1>1, <1>3, <1>4, <1>6, <1>7 DEF LinkInv

\* Steps that leave the connections alone.
LEMMA OtherLinkInv ==
    ASSUME LinkInv, on_air' => on_air,
           UNCHANGED <<connections, connection_count, links>>
    PROVE  LinkInv'
BY DEF LinkInv, Linked, Apart

LEMMA Inductive ==
    ASSUME LinksAssumption, LinkInv, [Next]_vars
    PROVE  LinkInv'
<1>1. ASSUME NEW started \in BOOLEAN, NEW ok \in BOOLEAN, InitBle(started, ok)
      PROVE  LinkInv'
  BY <1>1, OtherLinkInv DEF InitBle
<1>2. CASE StartAdvertising
  BY <1>2 DEF StartAdvertising, LinkInv, Linked, Apart
<1>3. CASE StopAdvertising
  BY <1>3, OtherLinkInv DEF StopAdvertising
<1>4. CASE PollEvent \/ Read \/ QueueFromRadio \/ DequeueFromRadio
  BY <1>4, OtherLinkInv DEF PollEvent, Read, QueueFromRadio, DequeueFromRadio
<1>5. CASE Sync \/ BeginReset
  BY <1>5, OtherLinkInv DEF Sync, BeginReset
<1>6. CASE OnReset
  <2>1. connection_count' = connection_count
    BY <1>6, FS_EmptySet DEF OnReset, LinkInv
  <2> QED BY <1>6, <2>1, OtherLinkInv DEF OnReset
<1>7. ASSUME NEW h \in Handles,
             ConnectFails(h) \/ LinkEvent(h) \/ Write(h) \/ ReadResponse(h)
      PROVE  LinkInv'
  <2>1. CASE ConnectFails(h)
    BY <2>1, OtherLinkInv DEF ConnectFails
  <2>2. CASE LinkEvent(h)
    BY <2>2, OtherLinkInv DEF LinkEvent
  <2>3. CASE Write(h)
    BY <2>3, OtherLinkInv DEF Write
  <2>4. CASE ReadResponse(h)
    BY <2>4, OtherLinkInv DEF ReadResponse
  <2> QED BY <1>7, <2>1, <2>2, <2>3, <2>4
<1>8. ASSUME NEW h \in Handles, Connect(h) PROVE LinkInv'
  BY <1>8, ConnectLinkInv
<1>9. ASSUME NEW h \in Handles, Disconnect(h) PROVE LinkInv'
  BY <1>9, DisconnectLinkInv
<1>10. CASE UNCHANGED vars
  BY <1>10, OtherLinkInv DEF vars
<1> QED BY <1>1, <1>2, <1>3, <1>4, <1>5, <1>6, <1>7, <1>8, <1>9, <1>10
        DEF Next, AppStep, HostTaskStep

(***************************************************************************)
(* The count app_connected and the supervision read is the number of       *)
(* connections the stack has, each in a slot of its own, for any number of *)
(* slots and handles and any order of connections, failures and resets.    *)
(***************************************************************************)
THEOREM ConnectionsAreCounted == LinksAssumption /\ Spec => []CountIsLinks
<1>1. LinksAssumption /\ Init => LinkInv
  BY InitLinkInv
<1>2. LinksAssumption /\ LinkInv /\ [Next]_vars => LinkInv'
  BY Inductive
<1>3. LinkInv => CountIsLinks
  BY DEF LinkInv, CountIsLinks, Linked, Apart
<1> QED BY <1>1, <1>2, <1>3, LinksAssumption, PTL DEF Spec
-----------------------------------------------------------------------------
Event == [data : BOOLEAN, n : Nat]

GhostTyped ==
    ghost \in [events : Nat, read : Nat, polled : Nat, responses : Nat, taken : Nat]

EventInv ==
    /\ events \in Seq(Event)
    /\ ghost.polled <= ghost.events /\ ghost.read <= ghost.events
    /\ \A i \in 1 .. Len(events) :
          /\ ghost.polled < events[i].n /\ events[i].n <= ghost.events
          /\ events[i].data => ghost.read < events[i].n
    /\ \A i, j \in 1 .. Len(events) : i < j => events[i].n < events[j].n

ResponseInv ==
    /\ from_radio \in Seq(Nat)
    /\ ghost.taken <= ghost.responses
    /\ \A i \in 1 .. Len(from_radio) :
          ghost.taken < from_radio[i] /\ from_radio[i] <= ghost.responses
    /\ \A i, j \in 1 .. Len(from_radio) : i < j => from_radio[i] < from_radio[j]

QueueInv == GhostTyped /\ EventInv /\ ResponseInv

\* What the queue is when one element is taken out of it.
LEMMA WithoutProperties ==
    ASSUME NEW S, NEW queue \in Seq(S), NEW i \in DOMAIN queue
    PROVE  /\ Without(queue, i) \in Seq(S)
           /\ Len(Without(queue, i)) = Len(queue) - 1
           /\ \A k \in 1 .. Len(queue) - 1 :
                 Without(queue, i)[k] = queue[IF k < i THEN k ELSE k + 1]
<1> DEFINE before == SubSeq(queue, 1, i - 1)
           after  == SubSeq(queue, i + 1, Len(queue))
<1>1. Len(queue) \in Nat /\ i \in 1 .. Len(queue) /\ \A k \in 1 .. Len(queue) : queue[k] \in S
  OBVIOUS
<1>2. /\ before \in Seq(S) /\ Len(before) = i - 1
      /\ \A k \in 1 .. i - 1 : before[k] = queue[k]
  BY <1>1, SubSeqProperties
<1>3. /\ after \in Seq(S) /\ Len(after) = Len(queue) - i
      /\ \A k \in 1 .. Len(queue) - i : after[k] = queue[i + k]
  BY <1>1, SubSeqProperties
<1> HIDE DEF before, after
<1>4. /\ before \o after \in Seq(S)
      /\ Len(before \o after) = Len(before) + Len(after)
      /\ \A k \in 1 .. Len(before) + Len(after) : (before \o after)[k] =
            IF k <= Len(before) THEN before[k] ELSE after[k - Len(before)]
  BY <1>2, <1>3, ConcatProperties
<1>5. Without(queue, i) = before \o after
  BY DEF Without, before, after
<1>6. Len(before) + Len(after) = Len(queue) - 1
  BY <1>1, <1>2, <1>3
<1>7. ASSUME NEW k \in 1 .. Len(queue) - 1
      PROVE  (before \o after)[k] = queue[IF k < i THEN k ELSE k + 1]
  <2>1. CASE k < i
    BY <1>1, <1>2, <1>4, <1>6, <2>1
  <2>2. CASE k >= i
    <3>1. k - (i - 1) \in 1 .. Len(queue) - i /\ i + (k - (i - 1)) = k + 1
      BY <1>1, <2>2
    <3>2. (before \o after)[k] = after[k - (i - 1)]
      BY <1>1, <1>2, <1>4, <1>6, <2>2, SMTT(30)
    <3> QED BY <1>1, <1>3, <2>2, <3>1, <3>2, SMTT(30)
  <2>3. k < i \/ k >= i
    BY <1>1
  <2> QED BY <2>1, <2>2, <2>3
<1> QED BY <1>4, <1>5, <1>6, <1>7

\* The types of what is in the queue.
LEMMA EventTypes ==
    ASSUME NEW q \in Seq(Event)
    PROVE  /\ Len(q) \in Nat
           /\ \A i \in 1 .. Len(q) : q[i] \in Event /\ q[i].n \in Nat
<1>1. \A r \in Event : r.n \in Nat
  BY DEF Event
<1>2. Len(q) \in Nat /\ \A i \in 1 .. Len(q) : q[i] \in Event
  OBVIOUS
<1> QED BY <1>1, <1>2

LEMMA InitQueueInv == Init => QueueInv
BY DEF Init, QueueInv, GhostTyped, EventInv, ResponseInv

LEMMA PushQueueInv ==
    ASSUME QueueInv, NEW data \in BOOLEAN, Push(data), from_radio' = from_radio
    PROVE  QueueInv'
<1> DEFINE e == [data |-> data, n |-> ghost.events + 1]
<1>1. e \in Event /\ e.n = ghost.events + 1
  BY DEF QueueInv, GhostTyped, Event
<1>2. /\ GhostTyped' /\ ghost'.events = ghost.events + 1
      /\ ghost'.read = ghost.read /\ ghost'.polled = ghost.polled
      /\ ghost'.responses = ghost.responses /\ ghost'.taken = ghost.taken
  BY DEF QueueInv, GhostTyped, Push
<1>3. ResponseInv'
  BY <1>2 DEF QueueInv, ResponseInv
<1>4. /\ events \in Seq(Event) /\ Len(events) \in Nat
      /\ \A i \in 1 .. Len(events) : events[i].n \in Nat
  BY EventTypes DEF QueueInv, EventInv
<1>5. ASSUME events' = events PROVE EventInv'
  BY <1>2, <1>4, <1>5 DEF QueueInv, GhostTyped, EventInv
<1>6. ASSUME events' = Append(events, e) PROVE EventInv'
  <2> HIDE DEF e
  <2>1. /\ events' \in Seq(Event) /\ Len(events') = Len(events) + 1
        /\ \A i \in 1 .. Len(events) : events'[i] = events[i]
        /\ events'[Len(events) + 1] = e
    BY <1>1, <1>4, <1>6, AppendProperties
  <2>2. ASSUME NEW i \in 1 .. Len(events')
        PROVE  /\ ghost'.polled < events'[i].n /\ events'[i].n <= ghost'.events
               /\ events'[i].data => ghost'.read < events'[i].n
    BY <1>1, <1>2, <1>4, <2>1, <2>2, SMTT(40) DEF QueueInv, GhostTyped, EventInv
  <2>3. ASSUME NEW i \in 1 .. Len(events'), NEW j \in 1 .. Len(events'), i < j
        PROVE  events'[i].n < events'[j].n
    <3>1. i \in 1 .. Len(events) /\ (j \in 1 .. Len(events) \/ j = Len(events) + 1)
      BY <1>4, <2>1, <2>3
    <3>2. CASE j \in 1 .. Len(events)
      BY <2>1, <2>3, <3>1, <3>2 DEF QueueInv, EventInv
    <3>3. CASE j = Len(events) + 1
      <4>1. events[i].n <= ghost.events /\ events[i].n \in Nat /\ ghost.events \in Nat
        BY <1>4, <3>1 DEF QueueInv, GhostTyped, EventInv
      <4>2. events'[i] = events[i] /\ events'[j].n = ghost.events + 1
        BY <1>1, <2>1, <3>1, <3>3
      <4> QED BY <4>1, <4>2
    <3> QED BY <3>1, <3>2, <3>3
  <2>4. ghost'.polled <= ghost'.events /\ ghost'.read <= ghost'.events
    BY <1>2 DEF QueueInv, GhostTyped, EventInv
  <2> QED BY <2>1, <2>2, <2>3, <2>4 DEF EventInv
<1>7. EventInv'
  BY <1>5, <1>6 DEF Push
<1> QED BY <1>2, <1>3, <1>7 DEF QueueInv

LEMMA PollQueueInv == ASSUME QueueInv, PollEvent PROVE QueueInv'
<1>1. /\ events # << >> /\ events' = Tail(events) /\ from_radio' = from_radio
      /\ ghost' = [ghost EXCEPT !.polled = Head(events).n]
  BY DEF PollEvent
<1>2. /\ events \in Seq(Event) /\ Len(events) \in Nat
      /\ \A i \in 1 .. Len(events) : events[i].n \in Nat
  BY EventTypes DEF QueueInv, EventInv
<1>3. /\ Len(events) > 0 /\ Head(events) = events[1]
      /\ events' \in Seq(Event) /\ Len(events') = Len(events) - 1
      /\ \A i \in 1 .. Len(events) - 1 : events'[i] = events[i + 1]
  BY <1>1, <1>2, HeadTailProperties
<1>4. /\ GhostTyped' /\ ghost'.polled = events[1].n /\ ghost'.read = ghost.read
      /\ ghost'.events = ghost.events
      /\ ghost'.responses = ghost.responses /\ ghost'.taken = ghost.taken
  BY <1>1, <1>2, <1>3 DEF QueueInv, GhostTyped
<1>5. ResponseInv'
  BY <1>1, <1>4 DEF QueueInv, ResponseInv
<1>6. ASSUME NEW i \in 1 .. Len(events')
      PROVE  /\ ghost'.polled < events'[i].n /\ events'[i].n <= ghost'.events
             /\ events'[i].data => ghost'.read < events'[i].n
  <2>1. i + 1 \in 1 .. Len(events) /\ 1 \in 1 .. Len(events) /\ 1 < i + 1
        /\ events'[i] = events[i + 1]
    BY <1>2, <1>3
  <2> QED BY <1>4, <2>1 DEF QueueInv, EventInv
<1>7. ASSUME NEW i \in 1 .. Len(events'), NEW j \in 1 .. Len(events'), i < j
      PROVE  events'[i].n < events'[j].n
  <2>1. i + 1 \in 1 .. Len(events) /\ j + 1 \in 1 .. Len(events) /\ i + 1 < j + 1
        /\ events'[i] = events[i + 1] /\ events'[j] = events[j + 1]
    BY <1>2, <1>3, <1>7
  <2> QED BY <2>1 DEF QueueInv, EventInv
<1>8. ghost'.polled <= ghost'.events /\ ghost'.read <= ghost'.events
  BY <1>2, <1>3, <1>4 DEF QueueInv, EventInv
<1> QED BY <1>3, <1>4, <1>5, <1>6, <1>7, <1>8 DEF QueueInv, EventInv

LEMMA ReadQueueInv == ASSUME QueueInv, Read PROVE QueueInv'
<1>1. PICK p \in DOMAIN events : /\ events[p].data
                                 /\ \A j \in 1 .. p - 1 : ~ events[j].data
                                 /\ events' = Without(events, p)
                                 /\ ghost' = [ghost EXCEPT !.read = events[p].n]
  BY DEF Read
<1>2. /\ events \in Seq(Event) /\ Len(events) \in Nat /\ p \in 1 .. Len(events)
      /\ \A i \in 1 .. Len(events) : events[i].n \in Nat
  BY EventTypes DEF QueueInv, EventInv
<1>3. /\ events' \in Seq(Event) /\ Len(events') = Len(events) - 1
      /\ \A k \in 1 .. Len(events) - 1 :
            events'[k] = events[IF k < p THEN k ELSE k + 1]
  BY <1>1, <1>2, WithoutProperties
<1>4. /\ GhostTyped' /\ ghost'.read = events[p].n /\ ghost'.polled = ghost.polled
      /\ ghost'.events = ghost.events
      /\ ghost'.responses = ghost.responses /\ ghost'.taken = ghost.taken
  BY <1>1, <1>2 DEF QueueInv, GhostTyped
<1>5. ResponseInv'
  BY <1>4 DEF QueueInv, ResponseInv, Read
<1> DEFINE from(k) == IF k < p THEN k ELSE k + 1
<1>6. \A k \in 1 .. Len(events') :
         from(k) \in 1 .. Len(events) /\ events'[k] = events[from(k)]
  BY <1>2, <1>3
<1>7. ASSUME NEW i \in 1 .. Len(events'), NEW j \in 1 .. Len(events'), i < j
      PROVE  events'[i].n < events'[j].n
  <2>1. from(i) < from(j)
    BY <1>2, <1>3, <1>7
  <2> HIDE DEF from
  <2> QED BY <1>6, <2>1 DEF QueueInv, EventInv
<1>8. ASSUME NEW i \in 1 .. Len(events')
      PROVE  /\ ghost'.polled < events'[i].n /\ events'[i].n <= ghost'.events
             /\ events'[i].data => ghost'.read < events'[i].n
  <2>1. ghost'.polled < events'[i].n /\ events'[i].n <= ghost'.events
    <3> HIDE DEF from
    <3> QED BY <1>4, <1>6 DEF QueueInv, EventInv
  <2>2. CASE i < p
    <3>1. events'[i] = events[i] /\ i \in 1 .. p - 1
      <4>1. i \in 1 .. Len(events) - 1
        BY <1>3
      <4>2. events'[i] = events[IF i < p THEN i ELSE i + 1]
        BY <1>3, <4>1
      <4> QED BY <1>2, <2>2, <4>1, <4>2
    <3> QED BY <1>1, <2>1, <3>1
  <2>3. CASE i >= p
    <3>1. i + 1 \in 1 .. Len(events) /\ p < i + 1 /\ events'[i] = events[i + 1]
      BY <1>2, <1>3, <2>3
    <3> QED BY <1>2, <1>4, <2>1, <3>1 DEF QueueInv, EventInv
  <2>4. i < p \/ i >= p
    BY <1>2, <1>3
  <2> QED BY <2>2, <2>3, <2>4
<1>9. ghost'.polled <= ghost'.events /\ ghost'.read <= ghost'.events
  BY <1>2, <1>4 DEF QueueInv, EventInv
<1> QED BY <1>3, <1>4, <1>5, <1>7, <1>8, <1>9 DEF QueueInv, EventInv

LEMMA RespondQueueInv == ASSUME QueueInv, QueueFromRadio PROVE QueueInv'
<1>1. events' = events /\ ghost' = [ghost EXCEPT !.responses = @ + 1]
  BY DEF QueueFromRadio
<1>2. /\ GhostTyped' /\ ghost'.responses = ghost.responses + 1
      /\ ghost'.taken = ghost.taken /\ ghost'.events = ghost.events
      /\ ghost'.read = ghost.read /\ ghost'.polled = ghost.polled
  BY <1>1 DEF QueueInv, GhostTyped
<1>3. EventInv'
  BY <1>1, <1>2 DEF QueueInv, EventInv
<1>4. /\ from_radio \in Seq(Nat) /\ Len(from_radio) \in Nat
      /\ \A i \in 1 .. Len(from_radio) : from_radio[i] \in Nat
      /\ ghost.responses + 1 \in Nat
  BY DEF QueueInv, GhostTyped, ResponseInv
<1>5. ASSUME from_radio' = from_radio PROVE ResponseInv'
  BY <1>2, <1>4, <1>5 DEF QueueInv, GhostTyped, ResponseInv
<1>6. ASSUME from_radio' = Append(from_radio, ghost.responses + 1)
      PROVE  ResponseInv'
  <2>1. /\ from_radio' \in Seq(Nat) /\ Len(from_radio') = Len(from_radio) + 1
        /\ \A i \in 1 .. Len(from_radio) : from_radio'[i] = from_radio[i]
        /\ from_radio'[Len(from_radio) + 1] = ghost.responses + 1
    BY <1>4, <1>6, AppendProperties
  <2>2. ASSUME NEW i \in 1 .. Len(from_radio')
        PROVE  ghost'.taken < from_radio'[i] /\ from_radio'[i] <= ghost'.responses
    <3>1. i \in 1 .. Len(from_radio) \/ i = Len(from_radio) + 1
      BY <1>4, <2>1
    <3>2. CASE i \in 1 .. Len(from_radio)
      <4>1. ghost.taken < from_radio[i] /\ from_radio[i] <= ghost.responses
        BY <3>2 DEF QueueInv, ResponseInv
      <4>2. from_radio[i] \in Nat /\ ghost.responses \in Nat /\ from_radio'[i] = from_radio[i]
        BY <1>4, <2>1, <3>2 DEF QueueInv, GhostTyped
      <4> QED BY <1>2, <4>1, <4>2
    <3>3. CASE i = Len(from_radio) + 1
      BY <1>2, <2>1, <3>3 DEF QueueInv, GhostTyped, ResponseInv
    <3> QED BY <3>1, <3>2, <3>3
  <2>3. ASSUME NEW i \in 1 .. Len(from_radio'), NEW j \in 1 .. Len(from_radio'), i < j
        PROVE  from_radio'[i] < from_radio'[j]
    <3> DEFINE n == Len(from_radio)
    <3>0. n \in Nat /\ Len(from_radio') = n + 1
      BY <1>4, <2>1
    <3>1. i \in 1 .. n /\ (j \in 1 .. n \/ j = n + 1)
      <4> HIDE DEF n
      <4>1. i \in 1 .. n + 1 /\ j \in 1 .. n + 1 /\ i < j
        BY <2>3, <3>0
      <4> QED BY <3>0, <4>1
    <3>2. CASE j \in 1 .. Len(from_radio)
      <4>1. from_radio[i] < from_radio[j]
        BY <2>3, <3>1, <3>2 DEF QueueInv, ResponseInv
      <4> QED BY <2>1, <3>1, <3>2, <4>1
    <3>3. CASE j = Len(from_radio) + 1
      <4>1. /\ from_radio[i] <= ghost.responses /\ from_radio[i] \in Nat
            /\ ghost.responses \in Nat
        BY <1>4, <3>1 DEF QueueInv, GhostTyped, ResponseInv
      <4>2. from_radio'[i] = from_radio[i] /\ from_radio'[j] = ghost.responses + 1
        BY <2>1, <3>1, <3>3
      <4> QED BY <4>1, <4>2
    <3> QED BY <3>1, <3>2, <3>3
  <2>4. ghost'.taken <= ghost'.responses
    BY <1>2 DEF QueueInv, GhostTyped, ResponseInv
  <2> QED BY <2>1, <2>2, <2>3, <2>4 DEF ResponseInv
<1>7. ResponseInv'
  BY <1>5, <1>6 DEF QueueFromRadio
<1> QED BY <1>2, <1>3, <1>7 DEF QueueInv

LEMMA TakeQueueInv == ASSUME QueueInv, TakeResponse, events' = events PROVE QueueInv'
<1>1. /\ from_radio # << >> /\ from_radio' = Tail(from_radio)
      /\ ghost' = [ghost EXCEPT !.taken = Head(from_radio)]
  BY DEF TakeResponse
<1>2. /\ from_radio \in Seq(Nat) /\ Len(from_radio) \in Nat
      /\ \A i \in 1 .. Len(from_radio) : from_radio[i] \in Nat
  BY DEF QueueInv, ResponseInv
<1>3. /\ Len(from_radio) > 0 /\ Head(from_radio) = from_radio[1]
      /\ from_radio' \in Seq(Nat) /\ Len(from_radio') = Len(from_radio) - 1
      /\ \A i \in 1 .. Len(from_radio) - 1 : from_radio'[i] = from_radio[i + 1]
  BY <1>1, <1>2, HeadTailProperties
<1>4. /\ GhostTyped' /\ ghost'.taken = from_radio[1]
      /\ ghost'.responses = ghost.responses /\ ghost'.events = ghost.events
      /\ ghost'.read = ghost.read /\ ghost'.polled = ghost.polled
  BY <1>1, <1>2, <1>3 DEF QueueInv, GhostTyped
<1>5. EventInv'
  BY <1>4 DEF QueueInv, EventInv
<1>6. ASSUME NEW i \in 1 .. Len(from_radio')
      PROVE  ghost'.taken < from_radio'[i] /\ from_radio'[i] <= ghost'.responses
  <2>1. i + 1 \in 1 .. Len(from_radio) /\ 1 \in 1 .. Len(from_radio) /\ 1 < i + 1
        /\ from_radio'[i] = from_radio[i + 1]
    BY <1>2, <1>3
  <2> QED BY <1>4, <2>1 DEF QueueInv, ResponseInv
<1>7. ASSUME NEW i \in 1 .. Len(from_radio'), NEW j \in 1 .. Len(from_radio'), i < j
      PROVE  from_radio'[i] < from_radio'[j]
  <2>1. i + 1 \in 1 .. Len(from_radio) /\ j + 1 \in 1 .. Len(from_radio) /\ i + 1 < j + 1
        /\ from_radio'[i] = from_radio[i + 1] /\ from_radio'[j] = from_radio[j + 1]
    BY <1>2, <1>3, <1>7
  <2> QED BY <2>1 DEF QueueInv, ResponseInv
<1>8. ghost'.taken <= ghost'.responses
  BY <1>2, <1>3, <1>4 DEF QueueInv, ResponseInv
<1> QED BY <1>3, <1>4, <1>5, <1>6, <1>7, <1>8 DEF QueueInv, ResponseInv

LEMMA OtherQueueInv ==
    ASSUME QueueInv, UNCHANGED <<events, from_radio, ghost>>
    PROVE  QueueInv'
BY DEF QueueInv, GhostTyped, EventInv, ResponseInv

LEMMA QueueInductive == ASSUME QueueInv, [Next]_vars PROVE QueueInv'
<1>1. ASSUME NEW started \in BOOLEAN, NEW ok \in BOOLEAN, InitBle(started, ok)
      PROVE  QueueInv'
  BY <1>1, OtherQueueInv DEF InitBle
<1>2. CASE StartAdvertising \/ StopAdvertising \/ Sync \/ BeginReset \/ OnReset
  BY <1>2, OtherQueueInv DEF StartAdvertising, StopAdvertising, Sync, BeginReset, OnReset
<1>3. CASE PollEvent
  BY <1>3, PollQueueInv
<1>4. CASE Read
  BY <1>4, ReadQueueInv
<1>5. CASE QueueFromRadio
  BY <1>5, RespondQueueInv
<1>6. CASE DequeueFromRadio
  BY <1>6, TakeQueueInv DEF DequeueFromRadio
<1>7. ASSUME NEW h \in Handles, ConnectFails(h) PROVE QueueInv'
  BY <1>7, OtherQueueInv DEF ConnectFails
<1>8. ASSUME NEW h \in Handles, Connect(h) \/ Disconnect(h) \/ LinkEvent(h)
      PROVE  QueueInv'
  <2>1. Push(FALSE) /\ from_radio' = from_radio
    BY <1>8 DEF Connect, Disconnect, LinkEvent
  <2> QED BY <2>1, PushQueueInv
<1>9. ASSUME NEW h \in Handles, Write(h) PROVE QueueInv'
  <2>1. Push(TRUE) /\ from_radio' = from_radio
    BY <1>9 DEF Write
  <2> QED BY <2>1, PushQueueInv
<1>10. ASSUME NEW h \in Handles, ReadResponse(h) PROVE QueueInv'
  BY <1>10, TakeQueueInv DEF ReadResponse
<1>11. CASE UNCHANGED vars
  BY <1>11, OtherQueueInv DEF vars
<1> QED BY <1>1, <1>2, <1>3, <1>4, <1>5, <1>6, <1>7, <1>8, <1>9, <1>10, <1>11
        DEF Next, AppStep, HostTaskStep

(***************************************************************************)
(* Whatever the capacities of the two queues, events come out of theirs    *)
(* in the order they came, data by themselves as well, and so do the       *)
(* responses, each to one reader.                                          *)
(***************************************************************************)
THEOREM QueuesKeepOrder == Spec => [](EventsInOrder /\ ResponsesInOrder)
<1>1. QueueInv => EventsInOrder /\ ResponsesInOrder
  <2> SUFFICES ASSUME QueueInv PROVE EventsInOrder /\ ResponsesInOrder
    OBVIOUS
  <2>1. DOMAIN events = 1 .. Len(events) /\ DOMAIN from_radio = 1 .. Len(from_radio)
    BY DEF QueueInv, EventInv, ResponseInv
  <2> QED BY <2>1 DEF QueueInv, EventInv, ResponseInv, EventsInOrder, ResponsesInOrder
<1> QED BY <1>1, InitQueueInv, QueueInductive, PTL DEF Spec
=============================================================================
