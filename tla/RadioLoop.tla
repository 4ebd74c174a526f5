------------------------------ MODULE RadioLoop ------------------------------
(***************************************************************************)
(* LunarCore: the main loop of main.rs, the radio it owns, and what goes   *)
(* on around it while it runs.                                             *)
(*                                                                         *)
(* One iteration of the loop goes through the program points               *)
(*   beacon  the TEST beacon, when it is due and no app is attached        *)
(*   serial  the drain of the UART: detection, frames, AT commands         *)
(*   poll    the read of the chip's interrupt flags                        *)
(*   read    read_packet, routing and the decision to relay                *)
(*   relay   the retransmission, after the jitter delay                    *)
(*   clear   clear_irq of the flags that were read                         *)
(*   rearm   start_rx after a TX_DONE or an RX_DONE                        *)
(*   idle    the reset of an idle session, the BLE disconnect edge         *)
(* The chip (receptions, a late end of transmission) and the BLE stack     *)
(* (connections) act between any two of them.  A handler that makes        *)
(* several driver calls is one action that ends in every way they can.     *)
(*                                                                         *)
(* The serial input is taken at the level of detected protocols and whole  *)
(* frames (SerialInput models the bytes), and a timer as the loop taking   *)
(* or not taking the branch it guards.                                     *)
(***************************************************************************)
EXTENDS Sx1262, DedupRing

CONSTANTS
    Relayable,   \* packets of at least 4 bytes that do not begin with TEST
    Beacon,      \* the node's own TEST packet
    TooLong,     \* a KISS payload of more than 255 bytes
    Protocols,   \* protocols the host may speak
    AtCommands,  \* AT commands that touch the radio or the repeater
    MaxBle,      \* bound: BLE connections at one time
    MaxFaults    \* bound: failed driver calls in a behaviour

ASSUME PacketsAssumption ==
    /\ Relayable \subseteq Packets
    /\ Hashes = Relayable
    /\ EmptySlot \notin Hashes
    /\ Beacon \in Packets \ Relayable
    /\ TooLong \notin Packets
    /\ NoPacket \notin Packets

ASSUME ProtocolsAssumption ==
    Protocols \subseteq AppConfigs \cup {"AtCommand"}

ASSUME BoundsAssumption == MaxBle \in Nat /\ MaxFaults \in Nat

VARIABLES
    pc,                 \* the program point of the main loop
    radio,              \* self.radio and the chip behind it
    rx_active,          \* self.rx_active
    irq,                \* the flags this iteration read
    data,               \* the packet this iteration read
    serial_protocol,    \* self.serial_protocol
    ble_connections,    \* self.ble.connection_count()
    repeater_enabled,   \* self.repeater_enabled
    dedup,              \* self.dedup
    online,             \* self.rnode.is_online()
    faults,             \* failed driver calls so far
    ghost               \* history: holds - what the chip's buffer holds: a
                        \* reception, unread or read, or a transmission;
                        \* broken - the last reception had a bad CRC;
                        \* raced - one ended since the flags were read

vars == <<pc, radio, rx_active, irq, data, serial_protocol, ble_connections,
          repeater_enabled, dedup, online, faults, ghost>>

ProgramPoints == {"boot", "beacon", "serial", "poll", "read", "relay",
                  "clear", "rearm", "idle"}

TypeOK ==
    /\ pc \in ProgramPoints
    /\ radio \in Radio
    /\ rx_active \in BOOLEAN
    /\ irq \subseteq Flags
    /\ data \in Packets \cup {NoPacket}
    /\ serial_protocol \in AppConfigs \cup {"AtCommand", "Unknown"}
    /\ ble_connections \in 0 .. MaxBle
    /\ repeater_enabled \in BOOLEAN
    /\ dedup \in Ring
    /\ online \in BOOLEAN
    /\ faults \in 0 .. MaxFaults
    /\ ghost \in [holds : {"nothing", "unread", "read", "sent"},
                 broken : BOOLEAN, raced : BOOLEAN]

\* LunarCore::new; load_repeater_setting may return either setting.
Init ==
    /\ pc = "boot"
    /\ radio = NewRadio
    /\ rx_active = FALSE
    /\ irq = {}
    /\ data = NoPacket
    /\ serial_protocol = "Unknown"
    /\ ble_connections = 0
    /\ repeater_enabled \in BOOLEAN
    /\ dedup = EmptyRing
    /\ online = FALSE
    /\ faults = 0
    /\ ghost = [holds |-> "nothing", broken |-> FALSE, raced |-> FALSE]

AppConnected   == serial_protocol # "Unknown" \/ ble_connections > 0
RepeaterActive == repeater_enabled /\ ~ AppConnected
-----------------------------------------------------------------------------
(***************************************************************************)
(* What a handler leaves behind: the radio, rx_active, the faults it met.  *)
(* The driver calls of a handler follow one another, each on the radio the *)
(* one before left.                                                        *)
(***************************************************************************)
Result(call, active) ==
    [radio |-> call.radio, rx_active |-> active, faults |-> call.faults]

\* What the beacon leaves: a failure is not followed by anything.
BeaconResults(r) == {Result(t, t.ok) : t \in Transmit(r, Beacon)}

\* The relay: after a failure it listens again, and claims so in any case.
RelayResults(r, p) ==
    {Result(t, TRUE) : t \in {o \in Transmit(r, p) : o.ok}}
    \cup UNION {{[Result(s, TRUE) EXCEPT !.faults = @ + t.faults] :
                    s \in StartRx(t.radio)} :
                t \in {o \in Transmit(r, p) : ~ o.ok}}

\* A transmission for the host: it listens again after both, and doubts it
\* only after a failed one.
HostSendResults(r, p) ==
    UNION {{[Result(s, t.ok \/ s.ok) EXCEPT !.faults = @ + t.faults] :
               s \in StartRx(t.radio)} :
           t \in IF p = TooLong THEN Refused(r) ELSE Transmit(r, p)}

\* The bug of taking a driver that is in standby for one that is busy.
StoppedAsleep(results) ==
    {h \in results : ~ h.rx_active /\ h.radio.state = "Sleep"}

Stopped(results)          == {h \in results : ~ h.rx_active}
StoppedInStandby(results) == {h \in Stopped(results) : h.radio.state = "Standby"}

Restart(h) ==
    {[Result(s, s.ok) EXCEPT !.faults = @ + h.faults] : s \in StartRx(h.radio)}

\* The end of a host handler: whatever it finds stopped, it starts.
Relisten(results, stopped) ==
    (results \ stopped) \cup UNION {Restart(h) : h \in stopped}

\* The radio part of a handler's effect; a behaviour has MaxFaults in all.
Leave(results) ==
    \E h \in results :
        /\ faults + h.faults <= MaxFaults
        /\ radio' = h.radio
        /\ rx_active' = h.rx_active
        /\ faults' = faults + h.faults
        /\ ghost' = [ghost EXCEPT !.holds =
                        IF h.radio.buf = radio.buf THEN @
                        ELSE IF h.radio.buf = NoPacket THEN "nothing" ELSE "sent"]

\* Calls that leave rx_active alone.
LeaveRadio(outcomes) == Leave({Result(o, rx_active) : o \in outcomes})

KeepRadio == UNCHANGED <<radio, rx_active, faults, ghost>>

Goto(here, there) == pc = here /\ pc' = there
-----------------------------------------------------------------------------
(***************************************************************************)
(* Start-up: init, the MeshCore configuration, start_rx.  None of the      *)
(* three waits for the success of the one before.                          *)
(***************************************************************************)
BootResults ==
    UNION {UNION {{[Result(s, s.ok) EXCEPT !.faults = @ + i.faults + c.faults] :
                      s \in StartRx(c.radio)} :
                  c \in Configure(i.radio, "MeshCore")} :
           i \in InitRadio(radio)}

Boot ==
    /\ Goto("boot", "beacon")
    /\ Leave(BootResults)
    /\ UNCHANGED <<irq, data, serial_protocol, ble_connections,
                   repeater_enabled, dedup, online>>

\* The bug of a beacon that leaves a radio alone that does not listen.
SendBeaconIfListening ==
    /\ Goto("beacon", "serial")
    /\ ~ AppConnected /\ rx_active
    /\ Leave(BeaconResults(radio))
    /\ UNCHANGED <<irq, data, serial_protocol, ble_connections,
                   repeater_enabled, dedup, online>>

SendBeacon ==
    /\ Goto("beacon", "serial")
    /\ ~ AppConnected
    /\ Leave(BeaconResults(radio))
    /\ UNCHANGED <<irq, data, serial_protocol, ble_connections,
                   repeater_enabled, dedup, online>>

\* The beacon is not due, or an app is attached.
NoBeacon ==
    /\ Goto("beacon", "serial")
    /\ KeepRadio
    /\ UNCHANGED <<irq, data, serial_protocol, ble_connections,
                   repeater_enabled, dedup, online>>
-----------------------------------------------------------------------------
\* An action of the drain of the UART.
Serial == pc = "serial" /\ UNCHANGED <<pc, irq, data, ble_connections>>

\* process_serial_byte, when the detector names a protocol, with the
\* configure_radio_for_protocol it makes (none for AT commands).
Detect(p) ==
    /\ Serial
    /\ serial_protocol = "Unknown"
    /\ serial_protocol' = p
    /\ IF p \in AppConfigs THEN LeaveRadio(Configure(radio, p)) ELSE KeepRadio
    /\ UNCHANGED <<repeater_enabled, dedup, online>>

Host(p) == Serial /\ serial_protocol = p

\* handle_meshcore_frame: Transmit, Configure, Reset, and the commands that
\* only answer; all end in the same re-arming of a stopped receiver.
MeshCoreResults ==
    {Result(o, rx_active) : o \in Configure(radio, "Custom") \cup Refused(radio)}
    \cup {Result(o, FALSE) : o \in InitRadio(radio)}
    \cup UNION {HostSendResults(radio, p) : p \in Packets}

MeshCoreFrame ==
    /\ Host("MeshCore")
    /\ Leave(Relisten(MeshCoreResults, StoppedInStandby(MeshCoreResults)))
    /\ UNCHANGED <<serial_protocol, repeater_enabled, dedup, online>>

\* handle_meshtastic_frame: a packet to send, or a request that is answered.
MeshtasticResults ==
    {Result(o, rx_active) : o \in Refused(radio)}
    \cup UNION {HostSendResults(radio, p) : p \in Packets}

MeshtasticFrame ==
    /\ Host("Meshtastic")
    /\ Leave(Relisten(MeshtasticResults, Stopped(MeshtasticResults)))
    /\ UNCHANGED <<serial_protocol, repeater_enabled, dedup, online>>

\* handle_rnode_frame: a data frame, or a command, which may switch the
\* RNode on or off; only an online RNode re-arms the receiver.
RNodeResults(on) ==
    {Result(o, rx_active) : o \in Refused(radio)}
    \cup UNION {HostSendResults(radio, p) :
                   p \in IF on = online THEN Packets \cup {TooLong} ELSE {}}

RNodeFrame(on) ==
    /\ Host("RNode")
    /\ online' = on
    /\ Leave(IF on THEN Relisten(RNodeResults(on), Stopped(RNodeResults(on)))
             ELSE RNodeResults(on))
    /\ UNCHANGED <<serial_protocol, repeater_enabled, dedup>>

AtCommand(c) == Host("AtCommand") /\ c \in AtCommands

\* AT+FREQ, AT+SF, AT+TXPOWER: the current configuration with a field changed.
AtTune ==
    /\ AtCommand("TUNE")
    /\ LeaveRadio(Configure(radio, "Custom"))
    /\ UNCHANGED <<serial_protocol, repeater_enabled, dedup, online>>

\* AT+RESET: rx_active keeps its value.
AtReset ==
    /\ AtCommand("RESET")
    /\ LeaveRadio(InitRadio(radio))
    /\ UNCHANGED <<serial_protocol, repeater_enabled, dedup, online>>

AtRx ==
    /\ AtCommand("RX")
    /\ Leave({Result(o, rx_active \/ o.ok) : o \in StartRx(radio)})
    /\ UNCHANGED <<serial_protocol, repeater_enabled, dedup, online>>

\* reset_protocol of an attached session: the modem stays as it is.
ResetProtocol ==
    /\ serial_protocol # "Unknown"
    /\ serial_protocol' = "Unknown"
    /\ dedup' = EmptyRing

AtSwitch ==
    /\ AtCommand("SWITCH")
    /\ ResetProtocol
    /\ KeepRadio
    /\ UNCHANGED <<repeater_enabled, online>>

AtRepeater(on) ==
    /\ AtCommand("REPEATER")
    /\ repeater_enabled' = on
    /\ dedup' = IF on THEN dedup ELSE EmptyRing
    /\ KeepRadio
    /\ UNCHANGED <<serial_protocol, online>>

EndDrain ==
    /\ Goto("serial", "poll")
    /\ KeepRadio
    /\ UNCHANGED <<irq, data, serial_protocol, ble_connections,
                   repeater_enabled, dedup, online>>
-----------------------------------------------------------------------------
\* Bugs of the flag test: the CRC flag not looked at, or a broken reception
\* passed over with its flags left as they are.
AfterPollIgnoresCrc(flags) ==
    IF flags = {} THEN "idle" ELSE IF "RxDone" \in flags THEN "read" ELSE "clear"

AfterPollSkipsBroken(flags) ==
    IF flags = {} \/ "CrcErr" \in flags THEN "idle"
    ELSE IF "RxDone" \in flags THEN "read" ELSE "clear"

\* Where the loop goes with the flags it read: a reception whose CRC failed
\* is only counted.
AfterPoll(flags) ==
    IF flags = {} THEN "idle"
    ELSE IF "RxDone" \in flags /\ "CrcErr" \notin flags THEN "read"
    ELSE "clear"

Poll ==
    /\ Goto("poll", AfterPoll(radio.irq))
    /\ irq' = radio.irq
    /\ ghost' = [ghost EXCEPT !.raced = FALSE]
    /\ UNCHANGED <<radio, rx_active, data, serial_protocol, ble_connections,
                   repeater_enabled, dedup, online, faults>>

PollFails ==
    /\ Goto("poll", "idle")
    /\ faults < MaxFaults
    /\ faults' = faults + 1
    /\ UNCHANGED <<radio, rx_active, irq, data, serial_protocol,
                   ble_connections, repeater_enabled, dedup, online, ghost>>

\* The conditions of maybe_relay_packet.
Relays(p) == RepeaterActive /\ p \in Relayable /\ ~ Seen(dedup, p)

\* read_packet, the routing to the host (which changes nothing here) and the
\* first part of maybe_relay_packet, up to the jitter delay: the packet is
\* remembered before it is sent.
Read ==
    /\ pc = "read"
    /\ radio.buf # NoPacket
    /\ IF Relays(radio.buf)
       THEN pc' = "relay" /\ data' = radio.buf /\ dedup' = Insert(dedup, radio.buf)
       ELSE pc' = "clear" /\ UNCHANGED <<data, dedup>>
    /\ ghost' = [ghost EXCEPT !.holds = "read"]
    /\ UNCHANGED <<radio, rx_active, irq, serial_protocol, ble_connections,
                   repeater_enabled, online, faults>>

ReadFails ==
    /\ Goto("read", "clear")
    /\ \E o \in {f \in ReadPacket(radio) : ~ f.ok} :
          faults + o.faults <= MaxFaults /\ faults' = faults + o.faults
    /\ UNCHANGED <<radio, rx_active, irq, data, serial_protocol,
                   ble_connections, repeater_enabled, dedup, online, ghost>>

\* The rest of maybe_relay_packet, after the jitter: whether an app has
\* attached meanwhile is not looked at again.
Relay ==
    /\ Goto("relay", "clear")
    /\ Leave(RelayResults(radio, data))
    /\ data' = NoPacket
    /\ UNCHANGED <<irq, serial_protocol, ble_connections, repeater_enabled,
                   dedup, online>>

Clear ==
    /\ Goto("clear", IF irq \cap {"TxDone", "RxDone"} # {} THEN "rearm" ELSE "idle")
    /\ LeaveRadio(ClearIrq(radio, irq))
    /\ UNCHANGED <<irq, data, serial_protocol, ble_connections,
                   repeater_enabled, dedup, online>>

Rearm ==
    /\ Goto("rearm", "idle")
    /\ Leave({Result(o, TRUE) : o \in StartRx(radio)})
    /\ UNCHANGED <<irq, data, serial_protocol, ble_connections,
                   repeater_enabled, dedup, online>>
-----------------------------------------------------------------------------
\* The end of an iteration: a session that was idle for long enough, or whose
\* last BLE connection went, is reset.
Idle ==
    /\ Goto("idle", "beacon")
    /\ \/ ble_connections = 0 /\ ResetProtocol
       \/ UNCHANGED <<serial_protocol, dedup>>
    /\ irq' = {}
    /\ KeepRadio
    /\ UNCHANGED <<data, ble_connections, repeater_enabled, online>>
-----------------------------------------------------------------------------
\* The chip and the BLE stack, at any point of the loop after start-up.
Environment ==
    /\ pc # "boot"
    /\ UNCHANGED <<pc, rx_active, irq, data, serial_protocol, repeater_enabled,
                   dedup, online, faults>>

ChipReceives(p, crcOk) ==
    /\ Environment
    /\ radio.chip = "Rx"
    /\ radio' = Receive(radio, p, crcOk)
    /\ ghost' = [holds |-> "unread", broken |-> ~ crcOk, raced |-> TRUE]
    /\ UNCHANGED ble_connections

ChipFinishesTx ==
    /\ Environment
    /\ radio.chip = "Tx"
    /\ radio' = FinishTx(radio)
    /\ UNCHANGED <<ble_connections, ghost>>

BleConnects ==
    /\ Environment
    /\ ble_connections < MaxBle
    /\ ble_connections' = ble_connections + 1
    /\ UNCHANGED <<radio, ghost>>

BleDisconnects ==
    /\ Environment
    /\ ble_connections > 0
    /\ ble_connections' = ble_connections - 1
    /\ UNCHANGED <<radio, ghost>>
-----------------------------------------------------------------------------
HostStep ==
    \/ \E p \in Protocols : Detect(p)
    \/ MeshCoreFrame
    \/ MeshtasticFrame
    \/ \E on \in BOOLEAN : RNodeFrame(on)
    \/ AtTune
    \/ AtReset
    \/ AtRx
    \/ AtSwitch
    \/ \E on \in BOOLEAN : AtRepeater(on)

LoopStep ==
    \/ Boot
    \/ SendBeacon
    \/ NoBeacon
    \/ EndDrain
    \/ Poll
    \/ PollFails
    \/ Read
    \/ ReadFails
    \/ Relay
    \/ Clear
    \/ Rearm
    \/ Idle

EnvironmentStep ==
    \/ \E p \in Packets, crcOk \in BOOLEAN : ChipReceives(p, crcOk)
    \/ ChipFinishesTx
    \/ BleConnects
    \/ BleDisconnects

Next == LoopStep \/ HostStep \/ EnvironmentStep

Spec == Init /\ [][Next]_vars

(***************************************************************************)
(* The loop keeps running (a drain ends, as read with a timeout of 0       *)
(* returns when the FIFO is empty), and a beacon that keeps coming due is  *)
(* sent: the clock that makes it due advances whatever the loop does.      *)
(***************************************************************************)
FairSpec == Spec /\ WF_vars(LoopStep) /\ SF_vars(SendBeacon)
-----------------------------------------------------------------------------
Running == pc # "boot"

(***************************************************************************)
(* Until a driver call has failed, the receiver is on at every point of    *)
(* the loop between two handlers and the program knows it: every path that *)
(* takes the radio off the air (beacon, relay, host transmission, radio    *)
(* reset, reconfiguration) puts it back.  AT+RESET does not; a run with    *)
(* this invariant leaves it out of AtCommands.                             *)
(***************************************************************************)
ListensUntilAFault == Running /\ faults = 0 => radio.chip = "Rx" /\ rx_active

(***************************************************************************)
(* A packet is handed on once, and only if its CRC was good: when the loop *)
(* is about to read the buffer, what the buffer holds has not been read    *)
(* before, and is broken only if the broken packet ended between the read  *)
(* of the flags and now.  Rests on the clearing of the flags by clear_irq  *)
(* and start_rx and on the test of the CRC flag.                           *)
(***************************************************************************)
ReadIsFresh ==
    pc = "read" /\ faults = 0 =>
        ghost.holds = "unread" /\ (ghost.broken => ghost.raced)

(***************************************************************************)
(* One failed driver call does not make the program hand a packet on       *)
(* twice: both clear_irq and the start_rx after it clear the flags, and it *)
(* takes the failure of both to find the flag of a read packet still set.  *)
(***************************************************************************)
RereadNeedsTwoFaults == pc = "read" /\ faults <= 1 => ghost.holds # "read"

(***************************************************************************)
(* The configuration the driver remembers is the chip's, or the chip has   *)
(* none that is complete; before the first fault it is the chip's, across  *)
(* radio resets and changes of protocol.                                   *)
(***************************************************************************)
ConfigIsReal ==
    /\ radio.modem \in {radio.config, "Reset", "Mixed"}
    /\ Running /\ faults = 0 => radio.modem = radio.config /\ radio.routed

(***************************************************************************)
(* A detected app works on the modem settings of its own protocol, or on   *)
(* those a MeshCore app has set, whatever the session before it used.      *)
(***************************************************************************)
AppHasItsModem ==
    serial_protocol \in AppConfigs /\ faults = 0 =>
        radio.modem \in {serial_protocol, "Custom"}

(***************************************************************************)
(* The flags never stick: a reception the chip has flagged is serviced,    *)
(* also when the calls that should clear the flag fail a number of times.  *)
(***************************************************************************)
RxServiced == "RxDone" \in radio.irq ~> "RxDone" \notin radio.irq

(***************************************************************************)
(* A node left alone hears again: whatever driver calls failed, once they  *)
(* stop failing and no app is attached any more the receiver is on again   *)
(* and again, because the beacon re-arms it.  A chip whose interrupt       *)
(* routing was lost in a failed reset is the exception: every transmission *)
(* then times out, and nothing configures the chip again.                  *)
(***************************************************************************)
SelfHealing ==
    <>[](~ AppConnected /\ radio.routed) => []<>(radio.chip = "Rx")

(***************************************************************************)
(* "RX Active", which AT+STATUS reports from rx_active (main.rs:996-997),  *)
(* is true as long as no driver call has failed.                           *)
(***************************************************************************)
RxActiveIsTruthful == Running /\ rx_active /\ faults = 0 => radio.chip = "Rx"

(***************************************************************************)
(* "Relays MeshCore packets when no app is connected" (README.md:37): what *)
(* the repeater relays came in on the MeshCore modem settings.             *)
(***************************************************************************)
RelaysMeshCore == pc = "relay" /\ faults = 0 => radio.modem = "MeshCore"
=============================================================================
