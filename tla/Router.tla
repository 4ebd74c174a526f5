------------------------------- MODULE Router -------------------------------
(***************************************************************************)
(* ProtocolRouter (protocol_router.rs): three transports, each with its    *)
(* detector, and the radio they share: the protocol it is set up for and   *)
(* the transport that holds it.  Whoever drives the router feeds it bytes, *)
(* confirms or refuses the frames they make, resets a detector, releases   *)
(* the radio, and notes the protocol the radio is set up for.              *)
(***************************************************************************)
EXTENDS Integers

CONSTANTS
    Transports,         \* TransportType
    RouterBytes,        \* bytes a transport is fed
    RouterSyncTimeout,  \* SYNC_TIMEOUT_BYTES
    RouterMaxLockCount, \* where lock_count saturates
    ProtocolsSet,       \* protocols the callers set or force
    NoTransport

VARIABLES
    detectors,          \* per transport its detector
    active,             \* the transports that are active
    lora_protocol,      \* the protocol the radio is set up for
    priority_transport  \* the transport that holds the radio, or NoTransport

routerVars == <<detectors, active, lora_protocol, priority_transport>>

Guess == INSTANCE ProtocolDetector WITH SyncTimeout <- RouterSyncTimeout,
                                        MaxLockCount <- RouterMaxLockCount

Protocols == {"Unknown", "MeshCore", "Meshtastic", "RNode", "AtCommand"}

RouterInit ==
    /\ detectors = [t \in Transports |-> Guess!Fresh]
    /\ active = {}
    /\ lora_protocol = "Unknown"
    /\ priority_transport = NoTransport

RouterTypeOK ==
    /\ \A t \in Transports : Guess!IsDetector(detectors[t])
    /\ active \subseteq Transports
    /\ lora_protocol \in Protocols
    /\ priority_transport \in Transports \cup {NoTransport}
-----------------------------------------------------------------------------
\* can_claim_lora
CanClaim(t, protocol) ==
    priority_transport \in {NoTransport, t} \/ lora_protocol = protocol

\* The bug of a transport that claims the radio from the one that holds it.
RouteIncomingGrabs(t, b) ==
    LET after    == Guess!feed(detectors[t], b)
        protocol == Guess!Answer(detectors[t], b)
        claims   == protocol # "Unknown" /\ CanClaim(t, protocol)
    IN  /\ detectors' = [detectors EXCEPT ![t] = after]
        /\ active' = active \cup {t}
        /\ lora_protocol' = IF claims /\ lora_protocol = "Unknown"
                            THEN protocol ELSE lora_protocol
        /\ priority_transport' = IF claims /\ Guess!is_locked(after)
                                 THEN t ELSE priority_transport

\* route_incoming
RouteIncoming(t, b) ==
    LET after    == Guess!feed(detectors[t], b)
        protocol == Guess!Answer(detectors[t], b)
        claims   == protocol # "Unknown" /\ CanClaim(t, protocol)
    IN  /\ detectors' = [detectors EXCEPT ![t] = after]
        /\ active' = active \cup {t}
        /\ lora_protocol' = IF claims /\ lora_protocol = "Unknown"
                            THEN protocol ELSE lora_protocol
        /\ priority_transport' =
              IF claims /\ priority_transport = NoTransport /\ Guess!is_locked(after)
              THEN t ELSE priority_transport

\* release_lora_control
ReleaseLoraControl(t) ==
    /\ priority_transport' = IF priority_transport = t THEN NoTransport
                             ELSE priority_transport
    /\ detectors' = [detectors EXCEPT ![t] = Guess!Fresh]
    /\ active' = active \ {t}
    /\ UNCHANGED lora_protocol

\* set_lora_protocol, which asks nobody
SetLoraProtocol(protocol) ==
    /\ lora_protocol' = protocol
    /\ UNCHANGED <<detectors, active, priority_transport>>

Detector(t, d) ==
    /\ detectors' = [detectors EXCEPT ![t] = d]
    /\ UNCHANGED <<active, lora_protocol, priority_transport>>

ConfirmFrame(t) == Detector(t, Guess!confirm_frame(detectors[t]))

\* error_frame: two confirmed frames less, and nothing detected without any.
WithErrorFrame(d) ==
    LET less == IF d.lock_count > 2 THEN d.lock_count - 2 ELSE 0
    IN  [d EXCEPT !.lock_count = less, !.detected = IF less = 0 THEN "Unknown" ELSE @]

ErrorFrame(t) == Detector(t, WithErrorFrame(detectors[t]))

\* soft_reset keeps the lock, force_protocol what the lock is worth.
SoftReset(t) == Detector(t, [detectors[t] EXCEPT !.state = "Idle", !.state_bytes = 0])

ForceProtocol(t, protocol) ==
    Detector(t, [detectors[t] EXCEPT !.state = "Idle", !.detected = protocol])

\* The detector alone is reset, as reset_protocol of main.rs does: the radio
\* stays with the transport.
ResetDetector(t) == Detector(t, Guess!Fresh)

RouterNext == \E t \in Transports :
    \/ \E b \in RouterBytes : RouteIncoming(t, b)
    \/ ReleaseLoraControl(t)
    \/ \E p \in ProtocolsSet : SetLoraProtocol(p) \/ ForceProtocol(t, p)
    \/ ConfirmFrame(t) \/ ErrorFrame(t) \/ SoftReset(t) \/ ResetDetector(t)

RouterSpec == RouterInit /\ [][RouterNext]_routerVars
-----------------------------------------------------------------------------
\* The radio is never taken from the transport that holds it, whatever the
\* others send: it is free in between, and goes to a transport whose frames
\* have locked its detector.  And bytes never turn the radio from one protocol
\* to another: that takes a call (route_incoming, can_claim_lora).
RadioIsKept == [][
    /\ priority_transport # NoTransport
          => priority_transport' \in {priority_transport, NoTransport}
    /\ priority_transport' \notin {priority_transport, NoTransport}
          => Guess!is_locked(detectors[priority_transport'])
    /\ lora_protocol \notin {"Unknown", lora_protocol'}
          => SetLoraProtocol(lora_protocol')]_routerVars
=============================================================================
