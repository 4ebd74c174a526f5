# LunarCore in TLA+

LunarCore is firmware for LoRa boards (ESP32-S3 with an SX1262). One node speaks
to a phone or a computer over USB or BLE, in four protocols it tells apart by
their first bytes (MeshCore frames, the Meshtastic stream protocol, KISS as
RNode speaks it, and an AT console). It relays packets when no app is attached.

This directory models the control of the firmware: what decides whether a node
hears, answers and relays, what becomes of a message on its way from one app to
another, and what a node keeps through restarts. TLC checks it on small
instances, and TLAPS proves a part of it for every instance. `PROJECT.json`
names, for every definition, the lines of the source it stands for, and for
every hazard of the code the property that covers it. Line numbers below are of
`src/src/`.

    tlc -config RadioLoop.cfg MCRadioLoop.tla      # a run
    tlapm MeshProofs.tla                           # a proof

## 1. Inventory

### The program as it is built

`main.rs` builds `crypto rng sx1262 protocol protocol_router meshtastic rnode
ble display transport session onion`. The files `identity contact packet_id
power ota wifi` are in the tree and built by nothing; of what is built, the
sessions, the onion, the address table, the arbitration of the router and parts
of `meshtastic/packet.rs` are reached by no call of the main loop. The models
take all of them as they are written, and say what calls them where the
repository does not.

| Component | State it keeps | Operations | Modelled in |
|---|---|---|---|
| Main loop and repeater, `main.rs` | `rx_active`, `serial_protocol`, `repeater_enabled`, `dedup`, time stamps, counters | one iteration: beacon, drain of the UART, poll of the flags, relay, supervision; a handler for each host frame and AT command | RadioLoop |
| Duplicate filter, `main.rs:639-692` | ring of 32 fingerprints, head, count | `check_and_insert`, `clear` | DedupRing, Dedup, DedupWindow |
| Session supervision, `main.rs:2229-2250` | `last_serial_rx`, the previous count of connections, a 32-bit clock | end of a session by silence or by the last BLE disconnect | IdleSession |
| Radio driver, `sx1262.rs` | driver state, configuration; the chip's mode, flags, buffer | `init configure transmit start_rx clear_irq read_packet` | Sx1262 |
| Serial input, `main.rs:1175-1320`, `protocol.rs`, `protocol_router.rs:65-239`, the parsers of `meshtastic/mod.rs` and `rnode.rs` | detector, a parser for each protocol, the AT line | a byte; a reset of the protocol | SerialInput and the five modules it extends |
| Host handlers, `meshtastic/mod.rs`, `rnode.rs` | packet ids, channel key, pending configuration; RNode settings, lock, online state | an app's frame to a packet, a packet to an app's frame; the configuration dialogue; a command frame | MeshtasticHandler, RNode; their effect on the radio in RadioLoop |
| Meshtastic codec, `meshtastic/protobuf.rs`, `meshtastic/mod.rs` | buffers of a fixed size | an encoder and a decoder for each message | Protobuf, Codec |
| Meshtastic delivery, `meshtastic/packet.rs`, `channel.rs` | cache of 32 packets, 8 messages that wait for an acknowledgement | `route_packet`, `create_forward_packet`, `clear_old`; `add handle_ack get_retransmit` | MeshtasticRouting, AckTracker |
| Protocol router, `protocol_router.rs:240-520` | a detector for each transport; who holds the radio, and its protocol | `route_incoming release_lora_control set_lora_protocol` and the detector's calls | Router |
| Sessions, `session.rs` | root, chain and skipped keys, counters; a table of sessions and its image in NVS | `encrypt decrypt`, ratchets, `create`, save and load | Session, Stores |
| Onion routing and addressing, `onion.rs`, `transport.rs`, `main.rs:1640-1779` | relays of a route; three indexes of 64 addresses | `wrap unwrap`, the wire format, `encrypt_for_tx decrypt_from_rx`; `register unregister lookup` | Onion, AddressTable |
| Identity and settings, `main.rs:199-345,591-637`, `identity.rs` | node id, key and repeater setting in NVS and in memory | load or create, save, rotate | Identity |
| Contacts, `contact.rs` | a table of contacts and its image in NVS | `add remove save load` | Stores |
| Packet identifiers, `packet_id.rs` | statics `INITIALIZED`, session, sequence; three words of RTC memory | `next_packet_id`, `next_packet_id_64`, `rotate_session`, `invalidate_rtc` | PacketId |
| Firmware update, `ota.rs` | state of the update, header, hasher; two partitions | `begin write finish abort`, restart | Ota |
| Power management, `power.rs` | mode, frequency, wake-up pins, RTC words | `set_mode set_cpu_frequency configure_gpio_wake`, sleep and wake-up | Power |
| BLE transport, `ble.rs` | three connection slots, a count, event queue (16), response queue (16) | callbacks of the NimBLE host task; `init start_advertising poll_event read queue_from_radio ...` | Ble |
| WiFi and TCP, `wifi.rs` | mode, status; server, slots of clients | `init start stop start_tcp_server stop_tcp_server poll send_to_client` | Wifi |
| Cryptography, random numbers, display, LED, battery, statistics, `main_minimal.rs` | - | functions on bytes, and output | not modelled, see section 7 |

### How they interact

The main loop is one thread and owns the driver, the detector, the parsers and
the handlers by calls. Beside it there are: the **chip**, which raises flags
and overwrites its buffer at any time; the **NimBLE host task**, whose callbacks
change the connection slots, the count and the queues, under critical sections,
between any two instructions of the loop; the **host**, which writes bytes
when it likes and may go away in the middle of a frame; the **clock**; other
**nodes**; and **power**, which may go between any two writes to NVS or RTC
memory.

The loop reads three pieces of foreign state: the flags of the chip, the
count of BLE connections, and the UART. The decision to relay is made of the
detector's protocol and that count (`app_connected`, `main.rs:823`).

### What is hard, and what must hold

| Component | Hard | Correct when |
|---|---|---|
| Main loop | nine program points, between any two of which the chip and BLE act; every driver call may fail half-way and most errors are dropped | the receiver is on whenever nothing else is to be done; a packet is handed on once, and only if its CRC was good; an app gets the modem of its protocol; after failures the node comes back |
| Duplicate filter | a ring that wraps, with a saturating count | the filter lets a packet through exactly when it is not among the last N it let through |
| Supervision | wrapping arithmetic on two readings of one clock | a session ends when it is abandoned, and not otherwise |
| Driver | writes of many registers, interrupted anywhere | what the driver remembers is what the chip has |
| Serial input | two layers (detector, parser) that share the opening bytes; data full of magic bytes; lost bytes; resets inside a frame | every frame is acted on, nothing else is |
| Host handlers | lengths and buffers of several encodings, one inside the other; values out of range under a lock | what an app is told is what was meant; host, handler and radio agree on the settings |
| Codec | buffers that are silently too small | what fits is read as it was written |
| Delivery | a cache that wraps and ages, a clock that wraps, answers that are late or come twice | a packet is forwarded once and no further than its hop limit; a message is repeated a bounded number of times, and settled |
| Router | three transports at once | the radio stays with the one that holds it |
| Sessions | two ends that must derive the same keys; messages out of order; rejected messages | what one end encrypts the other decrypts (it does not: `session_ends`), the ends stay in step, no key is used twice |
| Onion | lengths that tell layers from text; a hint that means "last" | layers come off in the order of the route; what is sent comes whole to the peer's session |
| Address table | three indexes, two of which may refuse | a key is in all of them or in none |
| Storage | several writes to NVS, with a loss of power between | what is loaded is a state that was saved |
| Packet identifiers | threads, a checkpoint of two words, wake-ups anywhere | no session gives an identifier twice |
| Firmware update | chunks cut anywhere, failures of every call, restarts | only a whole verified image boots |
| Power | a mode that is recorded before it is reached | what is reported is what the chip does |
| BLE | callbacks against calls; a queue taken apart and put together | the count is the number of connections, queues keep their order |
| WiFi | descriptors that are used again; a server that stops with clients | a slot never has the socket of another |

## 2. Modules

    RadioLoop (+ DedupRing, Sx1262) -- MCRadioLoop, RadioLoopProofs
    ProtocolDetector, FrameParser, MeshtasticParser, KissParser
        `-- SerialInput, in MCSerialTimeouts
    PacketId -- MCPacketId (+ MCMix)
    Identity

    MCMesh       Mesh: its parts                                     MeshProofs
                 Dedup (+ DedupRing; DedupWindow, its abstraction)   MeshProofs
                 Session  (also alone: MCSession)                    SessionProofs
                 Onion                                               MeshProofs
                 AddressTable                                        MeshProofs
                 MeshtasticHandler (+ Protobuf)                      MeshtasticProofs
                 MeshtasticRouting                                   MeshProofs
                 Codec (+ Protobuf)                                  MeshtasticProofs
    MCTransports Ble                                                 TransportProofs
                 Wifi                                                TransportProofs
                 Router (+ ProtocolDetector), RNode                  TransportProofs
    MCRestarts   (+ MCMix) Restarts: PacketId, Identity, Ota, Power, Stores    RestartProofs
    MCSerialTimeouts
                 SerialInput                                         SerialProofs
                 IdleSession                                         TimeoutProofs
                 AckTracker                                          TimeoutProofs

**Runs over several components.** `MCMesh`, `MCTransports`, `MCRestarts` and
`MCSerialTimeouts` put components that share no state, in the code either, beside each other: a variable `part`,
chosen at the beginning, says which of them a behaviour is about. Its steps are those of its
own module, unchanged; the others stay as they began, in one of their initial states.
The states of such a run are the sum of those of the parts, and a property of one
part is checked in all of them. (The compositions behind `MCRestarts` and `MCMesh` are modules of their own,
Restarts and Mesh, because theorems are proved about them too.) Where components do share state they are
composed as the code does it: the ring and the driver in RadioLoop, the detector and the
parsers in SerialInput, the handlers of several nodes with the air between them in
MeshtasticHandler, both ends and their stores in Session.

### The loop and the serial line

**RadioLoop** is the core. `pc` is the program point of the main loop, and an
iteration passes through `beacon serial poll read relay clear rearm idle`. A
handler of a host frame or an AT command is one action at `serial`, with all
the driver calls it makes, in every way these can end. `ChipReceives`,
`ChipFinishesTx`, `BleConnects` and `BleDisconnects` come in between. The drain
of the UART takes whole frames; the bytes are SerialInput's. A timer is the
loop taking or not taking the branch it guards; the clock is IdleSession's.

**Sx1262** is the driver as operators on one record: the driver's state and
configuration beside the chip's mode, modem, interrupt routing, flags, buffer.
Each call yields the set of its outcomes: completed, or broken off after each
of the steps that change something the properties tell apart. After a timeout
the chip may go on transmitting and finish later. Frequencies and powers are
one value, "Custom", apart from the defaults of the protocols; a chip whose
configuration was interrupted has the modem "Mixed".

**DedupRing** is `DeduplicatorRing` with a ring of any size; **DedupWindow** is
what it promises, a sequence of the last packets let through; **Dedup** runs
the ring and maps it onto the window (`Window`, a refinement).

**SerialInput** is `process_serial_byte` with everything under it on actual
bytes: the detector (**ProtocolDetector**), and the parsers of MeshCore frames
(**FrameParser**), Meshtastic (**MeshtasticParser**), KISS (**KissParser**) and
AT lines. The host writes frames of the app that is open, byte by byte; a byte
may be lost, noise may come before a session, the supervision may reset the
protocol between any two bytes, and another app may take over the line. The
CRC is a constant function.

**IdleSession** is the clock and the two reasons for which the loop ends a
session, with the reading of `now` at the top of an iteration, the stamps of
bytes drained later, and the ticks in between. The clock wraps.

### Messages

**Session** has both ends of a session, the messages between them, and what each end
has saved. Keys are terms: a root key is the sequence of the secrets mixed into it, a chain key its
seed and a number of steps. The salt of the first root key stands beside the terms, so that the 32
bytes of two keys are equal when the terms and the salts are. Messages are
lost, come in any order, again, or damaged; an end may save, load what it saved, or
begin anew. The roles have two salts, as in `Session::new`, and no message is ever opened: that is
the run `session_ends`. The rest of the protocol is seen in what the receiver derives: a message is
`matched` when its key is from the same place of the same chain as the sender's, whatever the salt, and
`opened` when the salt agrees too. What a receiver does to its session (ratchet, skipped
keys, counter) is the same in both cases, as `decrypt` does it before it compares the tag; that is why
`EndsKeepInStep` and `KeysServeOnce` say something of the program although nothing is opened. The
model has one end in each role, as the unit tests have; `encrypt_for_tx` would make
both the initiator (`main.rs:1622`), and is called by nothing.

**Onion** makes packets in layers around a payload of which only the length
counts, and takes them apart as `decrypt_from_rx` does, which guesses the number of
layers from the length. Secured messages go through `encrypt_for_tx` with its limit of 214 bytes, and
through `decrypt_from_rx` of the peer up to the header and the ciphertext it gives `Session::decrypt`; what
comes of them there is Session's. The programs that send along a route are external.

**AddressTable** is the three indexes from addresses to keys. Which keys share an address is a constant.

**Protobuf** is the wire format on bytes, with the buffers an encoder cuts or
refuses at; the messages are schemas, read off the encoders. A decoder starts from
the default of its struct, which in a `MeshPacket` is not zero (everyone, 3 hops, priority 64), narrows
numbers to the width of their field, and reads an enumeration by name. **Codec** writes a
message, reads it, and compares. **MeshtasticHandler** has a handler for each of
several nodes, with an air on which packets are heard any number of times or
never: an app's frame becomes a packet, a packet becomes what the app at the other
end is told, and the configuration an app asks for is put together, on actual bytes.
`encode_data` cuts at 237 bytes and `build_lora_packet` of `packet.rs` takes 236, so that what is cut is never sent. The app
reads the configuration by the field numbers of `mod.rs` (my_info 4, node_info 6, channel 8, complete 9); `protobuf.rs:1027-1042`
has other numbers for the same message (3, 4, 10, 7), which `ConfigIsTrue` does not see.
A restart of a node sets its packet identifiers back.

**MeshtasticRouting** floods packets over a network of nodes with a cache each
and a clock. **AckTracker** repeats messages until they are acknowledged. Who calls them
is not in the repository; the comment at the head of each says what is assumed.

### Transports

**Ble** has one action for each callback and each public call that changes
state. The stack is external: it advertises until somebody connects, reports
the end of every connection before it reports a reset, and gives no more
connections than it is configured for. Sending is left out for a reason of
the code: the handles of the characteristics are 0 and never assigned, so
that no subscription ever matches and nothing is ever sent.

**Wifi** is the interface with its modes and the TCP server on sockets that
are numbered as lwIP does, by the lowest free number. Peers connect, wait in
the backlog, write, close, or vanish so that every later call on their socket
fails.

**Router** has the detectors of three transports (by INSTANCE of the one of
SerialInput) and the claim on the radio. **RNode** has the settings a host
keeps in the node, and what a host that keeps book knows of them; what
reaches the radio is `RadioConfig`.

### What survives

**PacketId** has one step for each access to an atomic or an RTC word, for any
set of threads, with wake-ups (statics lost, RTC memory kept) and power losses
at any step. Sessions are numbered as they are drawn; what word each has is open. An
identifier is `PacketIdOf` of the session and the sequence number, of which only
what `mix32` and its odd factor grant is assumed: it is one to one in the number while the session
stays. Two sessions may draw one word, or have identifiers in common, and in the instance (`MCMix`, the
same mix on 4 bits) they do.

**Stores** is the image in NVS of the contacts and of the sessions, which are
written alike: a count, then one blob after the other, with power lost between any two.
A load inserts into the table as it is, up to `MAX_CONTACTS` or `MAX_PERSISTED_SESSIONS` records;
the table of sessions itself has no limit, and what the count says beyond the limit is not looked at.
**Identity** is the same for the node's own keys and setting, where each write may also be refused. A
factory reset goes through `load_or_create_identity` again, with all its branches: an item that is
missing, an NVS that does not open.
**Ota** writes partitions chunk by chunk, any call failing; **Power** keeps the chip's
frequency and wake-up sources beside the manager's.

Variables named `ghost` or commented "history" are not in the code: they
remember what a property needs (what the chip's buffer holds, how long the line
was silent, which identifiers were issued), and no guard of a modelled step
reads them except where a named bound does, or where they stand for an
environment that acts once (a message is acknowledged only after it was sent).

Operators that stand right before a definition and are commented "The bug of
..." are not part of a specification. Each is the definition after them with a
plausible mistake in it. Put in its place it makes the property that
`PROJECT.json` lists with it fail, which shows that the property depends on
that code.

## 3. Runs

| Run | What it asks | Instance |
|---|---|---|
| `radio` | Until the first fault: does the node listen, hand on each packet once, and give an app its modem? After one fault: is anything handed on twice? | 4 protocols, 2 packets and the beacon, a ring of 1, 1 BLE app, 1 fault |
| `radio_heals` | After two faults, AT+RESET included: is the driver's idea of the configuration true, are receptions serviced, does a node left alone hear again? | AT protocol, 1 packet and the beacon, 2 faults |
| `radio_status` | (violated) Is "RX Active" true? | no fault |
| `radio_relays` | (violated) Does the repeater relay MeshCore packets? | no fault |
| `serial_timeouts` | Does every frame arrive, and nothing else, and does the parser find back after a loss? Do sessions end for a reason, and abandoned ones at all; are messages repeated often enough and not more? | three parts, below |
| `mesh` | Does a message survive its way: ratchets, layers, filters, tables, encodings, handlers, hops? | seven parts, below |
| `session_ends` | (violated) Do the two ends of a session understand each other? | as the session in `mesh` |
| `transports` | Do the ways to an app keep their books: BLE, TCP, the claim on the radio, the settings of an RNode? | four parts, below |
| `restarts` | What is left after sleep, loss of power and updates? | five parts, below |
| `factory_reset` | (violated) Has a node another identity after a factory reset? | Identity alone: 3 identities, no refusal, 1 loss of power |
| `packet_id_threads` | (violated) Are the identifiers two threads draw unique? | 2 threads, `next_packet_id` only |
| `idle_late` | (violated) Does a session end only after the whole timeout of silence? | the same clock, without BLE |

Why the bounds are enough:

- `radio`: what the handlers do depends on the packet only through "relayable,
  beacon, too long" and on whether it is in the filter; two relayable packets and a ring
  of one entry give both answers for both. One connection is enough, as the code
  asks only whether the count is 0. Faults are counted because each may come at
  any step of any call; with two of them every pair of a failed call and a
  failed recovery occurs.
- `radio_heals` leaves out the protocols that the faults do not tell apart and adds
  AT+RESET, the only command that may lose the interrupt routing.

The parts of `serial_timeouts`:

- serial line: 10 frames of 4 protocols, 2 noise bytes, 1 lost byte. The frames hold the magic bytes of every other
  protocol and a whole inner frame with a wrong checksum. Buffers are hardly larger than the longest frame (9
  bytes of data for MeshCore, 255 in the code; 4 for Meshtastic; 3 for KISS and
  AT), so that what a lost byte makes too long meets their limits. The loss is at every position.
  The sync timeout, 256 in the code, is 3.
- idle session: a clock of 12 ticks, a timeout of 4, a grace period of 2, one BLE connection. What matters are the
  orders of `now`, stamp and clock, around the wrap and around 0. A clock three times as long as the timeout has them
  all; an iteration may take up to 3 ticks, so that the grace period passes within one.
- acknowledgements: 3 messages and 2 slots, so that one finds no slot and one a slot that was freed; a clock of 7 ticks.

The parts of `mesh`:

- filter: 4 slots, 6 fingerprints: entries are forgotten and come back, and the
  ring wraps while it is searched;
- session: a ratchet after 2 messages, 3 messages of one end and 2 of the other,
  so that one end gets past a ratchet and the other to it; 2 skipped keys, and
  one repeated or damaged message, reload or new session;
- onion: routes of 3 and 4 hops over 4 nodes, two of which have the same hint
  and one the hint 0 that marks the last layer; texts at the lengths where the
  code changes its mind (138 and 139, 150 and 151, 193, 241, 257), one in a
  behaviour: what a second text finds changed are the relays and the counter, and both
  may take any value before the first; `LayerCap`, the 7 at
  `main.rs:1713`, is the length of the longest route, as it is in the code;
- addresses: 4 keys, room for 3, two that share an address in one network and two in another;
- handler: 2 nodes with short and with the longest names, messages of the longest
  size, one byte longer, and empty; two pieces of work, one restart, identifiers that wrap at 3;
- routing: a chain of 3 nodes, the first of which hears nobody, caches of 2 for 3 packets, a hop limit of 2;
- codec: 21 messages with a field of every type, at the limits of varints and buffers, nothing where a decoder starts from
  something, and values of enumerations without a name.

The parts of `transports`: Ble with 2 slots and 2 handles, queues of 3 and 2,
so that both overrun and handles are used again; Wifi with 2 slots for 3 connections
and 4 sockets, the access point and the station mode, and a counter of 5 values, which 3 connections
never carry around (the proof covers that it wraps); two transports whose detectors get the
opening bytes of Meshtastic and KISS; six settings with values in and out of range.

The parts of `restarts`: one thread, a counter of 9 values with checkpoint and
skip of 3, and 3 sessions, two of which draw one word, so that a rotation, a power loss, saturation and wrap
all come, and what follows; 3 pins, one of them above 63, for 2 slots; two
images, one signed by a key that is not trusted, cut into chunks of up to 2 units; a table of 2 for 3 contacts, one of
which does not fit its record; 4 identities, 2 refusals, 3 power cycles.

Deadlock is checked in every run but `mesh`, `session_ends` and `restarts`,
where a behaviour may come to the bound on its messages or restarts.

## 4. Fairness and liveness

Liveness is model-checked only.

- RadioLoop: weak fairness of `LoopStep`, as the loop has no exit and a drain ends when the
  UART is empty (`read` with timeout 0); strong fairness of `SendBeacon`, as the time
  since the last beacon grows whatever the loop does, so that a beacon that is enabled
  again and again gets sent (`main.rs:2136`). Nothing is assumed of the chip, the
  host or BLE: a packet need never arrive. `SelfHealing` says of a node without
  an app, whose chip still routes its interrupts, that it hears again and again.
- IdleSession: the loop runs and the clock ticks, whatever the host and the apps do. (The fairness of this and of the
  next two is stated in MCSerialTimeouts, for the part a behaviour is about.)
- AckTracker: the clock ticks, and `get_retransmit` is polled often enough that a
  message which is due again and again does not always escape (strong fairness,
  as the wrap of the clock makes a message not due again for a time). The caller
  is not in the repository; with a caller that polls less, nothing can be promised. No fairness
  is assumed of acknowledgements.
- SerialInput: the host goes on writing and the loop goes on reading. `Resynchronises`
  asks for no reset and no timeout.

## 5. What the violated runs show

- `radio_status`: AT+RESET leaves `rx_active` as it was. The chip is in standby,
  AT+STATUS says "RX Active", and nothing re-arms the receiver until the next
  beacon, AT+RX, or session.
- `radio_relays`: the end of a session leaves the modem on the settings of that
  session. After a Meshtastic or RNode session the repeater relays what it hears there,
  while README.md:37 promises MeshCore packets.
- `idle_late`: a byte that is drained one tick after the loop read the clock makes
  `now - last_serial_rx` wrap to almost 2^32, and the session is reset at once
  as idle for 30 s. `EndsForAReason`, in `serial_timeouts`, shows that this and the stamp 0
  are the only exceptions.
- `packet_id_threads`: `init` announces that it has finished by the
  compare-exchange with which it begins. A second thread then draws numbers the
  first one is about to overwrite. The module is not built into the program today.
- `session_ends`: `Session::new` mixes a salt into the root key that depends on
  the role (`session.rs:200`). The two ends have no chain in common, and the first
  message is refused, while the unit test at `session.rs:897` unwraps it. The salt is all that parts them:
  by `EndsKeepInStep` they derive everything else alike, but after the events listed at `Disturbs` in Session.
- `factory_reset`: `nvs_flash_erase_partition` is given the name of the namespace, `lunarcore`; the partition is named
  `nvs` (`partitions.csv`). Nothing is erased, the node loads the identity it had, and the log says
  "erased old identity, generating new one". Nothing calls `factory_reset` today.

What the passing runs state with an exception is where the code falls short of
the plain promise, and no text of the repository makes it: `OnionInOrder` and
`OwedArrivesWhole` (lengths that are cut or misjudged), `HeardAsMeant` (an app's packet above 127
bytes, empty messages, and data above 236 bytes), `ReadsWhatItWrote` (zeros in a packet that are read as
its defaults), `StoresSurvive` (an interrupted save that puts a contact under another index
than NVS has it under, sessions above 32, long names), `BootsVerified` (an
update begun over one that waits for its boot), `NetworkAsReported` (a server stopped with clients),
`PowerAsReported` (pins of mixed levels), `AcksSettle` (the end of the clock). The exception is part of
the property, as narrow as TLC allows.

## 6. Proofs

| Theorem | Says |
|---|---|
| `RadioTypes`, RadioLoopProofs | `Spec => []TypeOK` |
| `NodeListens`, RadioLoopProofs | without AT+RESET: `Spec => []ListensUntilAFault` |
| `ReadsAreFresh`, RadioLoopProofs | `Spec => []ReadIsFresh` |
| `RereadsNeedTwoFaults`, RadioLoopProofs | `Spec => []RereadNeedsTwoFaults` |
| `ConfigStaysReal`, RadioLoopProofs | `Spec => []ConfigIsReal`, after any number of faults |
| `AppsHaveTheirModem`, RadioLoopProofs | `Spec => []AppHasItsModem` |
| `SerialTypes`, SerialProofs | `Spec => []TypeOK` |
| `EveryFrameArrives`, SerialProofs | `Spec => []DeliversEveryFrame` |
| `NothingElseArrives`, SerialProofs | `Spec => []DeliversNothingElse` |
| `RingHasNoDuplicates`, MeshProofs | `Spec => []NoDuplicateSlots` |
| `RingImplementsWindow`, MeshProofs | `Spec => ImplementsWindow`: the ring refines the window |
| `EveryKeyServesOnce`, SessionProofs | `SessionSpec => []KeysServeOnce` |
| `EndsStayInStep`, SessionProofs | `SessionSpec => []EndsKeepInStep` |
| `SaltsKeepEndsApart`, SessionProofs | `SessionSpec => [](opened = {})` |
| `AddressesAreFound`, MeshProofs | `AddressSpec => []IndexesAgree` |
| `HopsBoundTheFlood`, MeshProofs | `RoutingSpec => []HopsAreSpent` |
| `FloodsForwardOnce`, MeshProofs | `RoutingSpec => ForwardedOnce` |
| `PeerIsHandedWhatIsOwed`, MeshProofs | `OnionSpec => []OwedArrivesWhole` |
| `OnionsAreUnwrappedInOrder`, MeshProofs | `OnionSpec => []OnionInOrder` |
| `RoundTrips`, MeshtasticProofs | `CodecSpec => []ReadsWhatItWrote`, for all values of 32 bits |
| `ConfigIsToldTruly`, MeshtasticProofs | `HandlerSpec => []ConfigIsTrue` |
| `WhatIsHeardWasMeant`, MeshtasticProofs | `HandlerSpec => []HeardAsMeant` |
| `MeshKeepsTypes`, MeshProofs | `MeshSpec => []MeshTypes`, for the parts of Mesh together |
| `RadioStaysWithItsHolder`, TransportProofs | `RouterSpec => RadioIsKept` |
| `HostAndRadioAgree`, TransportProofs | `RNodeSpec => []SettingsAgree` |
| `SlotsAndSocketsAgree`, TransportProofs | `WifiSpec => []SocketsInSlots` |
| `NetworkIsAsReported`, TransportProofs | `WifiSpec => []NetworkAsReported` |
| `ConnectionsAreCounted`, TransportProofs | `Spec => []CountIsLinks` |
| `QueuesKeepOrder`, TransportProofs | `Spec => [](EventsInOrder /\ ResponsesInOrder)` |
| `SessionEndsForAReason`, TimeoutProofs | `IdleSpec => EndsForAReason` |
| `RepeatsAreBounded`, TimeoutProofs | `AckSpec => []TriesAreBounded` |
| `PacketIdTypes`, RestartProofs | `Spec => []TypeOK`, for any set of threads |
| `PacketIdsAreUnique`, RestartProofs | one thread, without 64-bit nonces: `Spec => []UniqueIds /\ []CheckpointCovers` |
| `NodesStayThemselves`, RestartProofs | `IdentitySpec => []NodeIsItself` |
| `OnlyVerifiedBoots`, RestartProofs | `OtaSpec => []BootsVerified` |
| `PowerIsAsReported`, RestartProofs | `PowerSpec => []PowerAsReported` |
| `StoresComeBack`, RestartProofs | `StoresSpec => []StoresSurvive` |
| `RestartsKeepTypes`, RestartProofs | `RestartSpec => []RestartTypes`, for the five parts together |

`NoDuplicateSlots`, `CheckpointCovers` and `ResponsesInOrder` are stated by no
run any more: the theorems hold them for every instance.

**RadioLoopProofs.** For any packets, relayable or not, any ring, any number of
connections and of faults. The driver comes first: a lemma for each call says what
every outcome keeps (the modem, the routing) and what an outcome without a fault
achieves (the chip listens, its flags are clear). A second layer lifts this to
what a handler leaves (`Keeps`, `Listens`), so that the step for each handler only
combines them. `ReadIsFresh` is the reason for `FlagsInv`: that the flag in front
of the loop belongs to an unread packet needs, at every program point, what the
flags still set mean. A flag of a packet already read is one this iteration
is about to clear; a broken packet has its CRC flag beside it; that flag comes
with the flag of the reception, but for the moment between `clear_irq` and `start_rx`.
`ModemInv` is needed by all of it: a transmission reports its end only on a chip
whose interrupts are routed. `RereadNeedsTwoFaults` needs to know where the one fault is:
the flag of a packet already read is still set only between the read and its `clear_irq`, or,
if that failed, until the re-arming, which then does not fail (`RereadInv`).

**SerialProofs.** For buffers of any size up to 65 280 bytes, the most that the high byte of a length
announces (the code's are of 255 and 512), and any set of frames that fits them (`LimitsAssumption`, `FramesAssumption`): `Fits` says of each app what
the program's own encoders and limits grant, that a frame is no longer than the buffer it is collected in, that a MeshCore
command is one the parser knows, that the first byte of a KISS frame, its command, needs no escape, and that an AT
line begins with AT and is printable. What is in a frame is free, the magic bytes of all
protocols included. There may be any number of lost bytes, and noise for less than the detector's patience.

`TypesInv` says what a parser holds in each of its states, so that no byte is written
past a buffer: while payload is awaited there is room for it, and the length has been compared with the
buffer before. The two delivery properties speak of a line that has run empty, and nothing that
holds only then is inductive. `FollowsInv` says where everything stands when n bytes of
the frame under way have been read, as long as no byte was lost: the parser of the app holds the first bytes of the frame and
waits for the next field (`ParserAt`), or the detector still waits for the first byte or the
second, and has given the parser what it took. For each parser a lemma says that it goes from n to n + 1 and
completes with the last byte only (`MeshCoreReads`, `MeshtasticReads`, `KissReads`, `AtReads`, combined in
`Reads`); for the detector, that the bytes a frame opens with are enough and noise is not (`FirstByte`,
`SecondByte`, `NoiseByte`). The hard case is KISS: its escapes make the place of a byte in the encoding
depend on all before it. The encoding is a fold; that the fold has the pieces one after the other is shown
by the least place at which it would not (`Least`, `GluedExists`), and `Upto` measures it.

**SessionProofs.** For two ends, any number of messages before a ratchet, any
number of skipped keys that is no less (`SessionAssumption`; both are 100), and any
messages and faults. `KeysServeOnce` says nothing of
an end that went back to an older session; until then `Kept` holds. That a key
never encrypts twice rests on the private keys in it: a ratchet draws one that is in
no seed and no message yet (`SecretsDrawn`), so the new chain differs from every
older one, and on one chain the index only grows (`ChainsAhead`). That
no end derives the key of a message twice is harder, because `get_message_key` sets the counter back: the
counter cannot be the invariant. It is the chain that goes only forward.
`UsedUp` says of the key of every message that was derived that no skipped key is left
for it and that it is behind the head of the receiving chain, or of a chain that
was left for one with a longer seed; `OpenedOnce` says so for both ends.

`EndsKeepInStep` is about two ends at once, and neither end's state alone says why the key of a
message will be found. Until something disturbs them the ends are in step (`InStep`).
An end ratchets by itself when it sends, its peer when it hears of it, and in between
the end that is ahead has mixed into its root exactly the secrets of its key pairs that its
peer has not heard of (`RootAhead`, `KeysInStep`): at most one end is ahead, as two
ratchets that cross are among the disturbances. Of every message `MessageInStep` says
at which place of which chain its key is: the one its receiver listens on, or, for a key
pair the receiver has not heard of, the one that starts there. A message on its way whose
place the receiver has passed has its key put by (`WaitsInStep`). The lemmas before that
say what mixing does (`FirstSecret`, `OneMoreSecret`: the receiver takes the secrets from the
front, the sender adds them at the end), and what `get_message_key` returns for a place that was
passed and for one that was not (`TakesPutBy`, `TakesNext`). `SaltsKeepEndsApart` is the
general form of the violated run: the salt of an end and of all its messages is that of its role
(`OfOwnSalt`), through ratchets, reloads and new sessions, so that no two ends ever
have a key in common. That the counters keep their limits after a reload too needs the same of what is stored and of every
message on its way (`SessionTypesInv`): a message carries the numbers its receiver counts up to.

**MeshProofs.** The ring of the duplicate filter may have any size of at least 1 (`RingSizeAssumption`). `NoDuplicateSlots`
is not inductive, because the slot an insertion overwrites and the slots it leaves
live are related only by the fact that the ring fills from slot 0 (`FillsFromZero`). For
the refinement, lemmas turn the modular index into the position in the window: an insertion
appends to the window and, when the ring is full, drops its first element.

`IndexesAgree` needs to count: an index refuses an entry when
it is full, and that it is not full follows from its entries being as
many as the keys registered, which an injection shows (`EntriesCounted`); and after a clash it needs
to know that entries belong only to registered keys, so that an empty table
is empty in all three networks. `HopsAreSpent` is nearly inductive: what a node within k hops sends
is heard within k + 1, by a walk one step longer (`Reached` is stated by walks, which the
prover can extend). `ForwardedOnce` needs to know where a packet is in the cache: a forwarded packet is in
the entry that was written as many insertions ago as `younger` counts (`Remembered`), so
that a look-up misses it only after a full turn of the ring. Both hold for any nodes, links and a
cache of at least one entry (`RoutingAssumption`).
`OnionInOrder` says at which relay a packet is, and needs that its layers are those of the rest of
the route, in its order; `OwedArrivesWhole` that the text on the air fits its buffer exactly when it is owed.
`MeshKeepsTypes` combines the parts, those of the other two modules of proofs included (`MeshParts`); of the address
table it needs that an index has one entry for an address even after a clash (`OneEach`).
`OnionAssumption` has what `RouteBuilder` and the code's constants grant: routes of two hops and more,
no longer than the layers `decrypt_from_rx` counts.

**TimeoutProofs.** `EndsForAReason` needs to know what the wrapping
difference means. `ClockInv` ties the readings of the clock together: the
clock is `now` plus the ticks of this iteration, modulo its width, and it is
the stamp plus the ticks of silence for as long as the silence is within the timeout.
It rests on the clock being longer than the timeout and an iteration together
(`TimesAssumption`; 30 000 of 2^32). `TriesAreBounded` needs `CountsAreTrue`: the
count in a slot, which `get_retransmit` compares, is the number of transmissions of
its message, and a message has one slot at most. That the lowest slot is
what the model's CHOOSE finds is by the well-foundedness of the numbers.

**TransportProofs.** `RadioIsKept` needs of the detectors only their shape, and
that bytes leave their lock alone (`FeedKeepsLock`). `SettingsAgree` needs that
what is stored is within the range of its setting and that what is answered
is what is stored, for any bytes a host sends; `RNodeAssumption` says that the
defaults are in range. `SocketsInSlots` needs, of a state in the middle
of a `poll` too, that the slots are apart and that the descriptor of the server is nobody else's (`Sound`): the
steps of `poll`, a scan of the slots and then one connection, are shown to keep it one by one. The
count of clients is that of the taken slots and the clients a stop has cut off, modulo its
width; `NetworkAsReported` says so as long as nothing has been carried around. `WifiAssumption` has a counter of
at least one value and the four modes. `CountIsLinks` needs that the stack advertises only while it has a
connection to give, and has no more of them than there are slots (`LinksAssumption`):
a connection that found no slot would make the count wrong for good. The order of
the queues needs the numbers given out to be above those queued; the
removal of data from the middle of the event queue is a lemma about `Without`.

**RestartProofs.** `UniqueIds` is not inductive: what makes it true is that the
counter is beyond every number issued in its session, that the checkpoint plus the
skip is, too, and that the words of a checkpoint being written belong together.
The invariant states this for every program point of the thread, a wake-up being
possible at each. It rests on the checkpoint interval being no longer than the
skip, and on the end of the counter not falling on a checkpoint
(`CounterAssumption`; true of 256, 256 and 2^32), and on the mix being one to one in the sequence
number for each session (`MixAssumption`: `mix32`, exclusive or, and the product with an odd number are). It is
about one session at a time: that no two sessions share an identifier nothing in the code ensures. `NodeIsItself` needs that an
identifier and its key are promised together and stored one after the other
(`PairKept`), and that until NVS has refused something nothing is stored
that was not promised, but for an identifier whose key is not stored yet.
`BootsVerified` needs `Sound`: while an update is on its way the partition that
boots is the one that runs, and the other one holds exactly what was hashed, so that a
hash that agrees is the hash of what will boot. From a `begin` over an update that is complete
and not booted (`doubtful`) on, the property promises nothing, in the run and in the theorem.
`PowerAsReported` needs what is armed at any time, not only in sleep: the chip's wake-up
mask is a part of what the configured pins ask for, and no two slots have the same pin, as a second
configuration of a pin replaces the first.
`StoresSurvive` needs to know, at every step of a save, which blobs are already those of the new table
and that the rest are those of an earlier save or older (`SavingInv`), and what a load makes of blobs of
which some are missing, unreadable or stale (`LoadRuns`, `LoadBrings`, `LoadComplete`). The load is a recursive
function of the index; that it exists and what it does up to an index is shown by a least counterexample.
The attempt to prove the property as it was first written failed for two good reasons, and it now says so. After a
save that was itself interrupted, a blob of a save before it stays behind under its index, and a larger count
takes it in again: every key must stay under the index *NVS* has it under, not only the one of the last finished save
(TLC finds this with one change more than the run had). And a load looks at no more than 32
sessions, which the instance had never reached: with `MaxPersisted` 2 it does. `RestartsKeepTypes` combines the five parts: a
behaviour of `Restarts` is one of each of them in which it may rest (`RestartParts`).

**MeshtasticProofs.** `RoundTrips` is for messages of the fourteen kinds with any values of 32 bits and bytes of any
length that their structs hold (`CodecAssumption`), in buffers of the code's sizes. The argument follows the bytes. A varint is read as it
was written, and ends where it ended, by its division by 128 again and again (`Septets`). A field written at a place is
the field read there, and what has been written stays where it is when more follows. The fields that are read are then those that were written,
in their order, and a decoder finds each value under its number, since no two fields of a schema have one number.
When a buffer is too small the property promises nothing. The recursive functions of Protobuf have
solutions because one of least length without would be a solution for all that is shorter, plus a step; all other
inductions are by a least counterexample too (`LeastNumber`).

The handler is proved for any nodes and messages, keys and identifiers (`HandlerAssumption`: numbers of 32 bits, names no longer than
the fields of `User`, payloads of an app up to 233 bytes). `ConfigIsTrue` comes down to room:
what a schema may take at most is the sum over its fields (`Packs`, `Cost`), and for the user, the node and the
whole message the sums are no more than 64, 128 and 512, so that no buffer cuts. What an app has is then its node's configuration or nothing
(`ConfigInv`). For `HeardAsMeant`, `AirIsMeant` says that for each packet on the air there is one that was meant, with the same
addresses and identifier, and whose port and payload are those its bytes decode to if it fitted. The loose parser of
`process_toradio` reads a frame whose packet has up to 127 bytes as it was written; of a longer one it
takes the second byte of the length for the first of the packet and reads nothing from it, which is the first exception the property
names. The last one is by length: data of up to 236 bytes are written whole, and those that do not fit in 236 are cut to 237 at most or
refused, so that nothing that was cut is on the air.

Model-checked only are `NoCorruptFrame` of SerialInput and every liveness property: liveness and ENABLED are beyond the prover. `NoCorruptFrame` is about a line
that lost bytes, and rests on no mixture of the pieces of two frames having the checksum that happens to
end it: true of the frames of the run, and not of all.

## 7. Not modelled, and why

- Ciphers, hashes, signatures and random conditioning: functions on bytes for
  which test vectors say more than a small model. Where they matter they are terms or
  verdicts: a key fits or does not, a tag matches or does not.
- Display, LED, battery, statistics, the bring-up program: output only. Of the
  handlers, likewise: the text of AT answers, RNode's counters and airtime, telemetry.
- Numbers above 32 bits in the codec: the 64-bit varints are modelled below that. TLC's integers end at
  2^31, so that its samples do; the theorems have all 32 bits.
- Of the driver: channel activity detection, random numbers, signal strength, and the
  driver's own `check_rx`: nothing calls them. Of the router: `resolve_conflict`, which
  changes nothing.
- Events of the main loop through `handle_dio1_interrupt` and
  `process_radio_events`: the first is never called, the second waits for it.
- Sending over BLE: see section 2.
- Of WiFi: the authentication of clients and `SessionCrypto`, which `poll` does not
  use, `scan`, `update_status`. Of Meshtastic: channel sets and their URLs, the key store
  and the PKI of `encryption.rs`, packet statistics: nothing reaches them.
- Of the update: `confirm` and `rollback`, which hand over to the boot loader.

Hazards that are known and have no property:

- `packet_id.rs:250`: an identifier has 32 bits, and those of two sessions may coincide. `UniqueIds` is about each
  session; nothing in the code compares two.
- `main.rs:1622`: `encrypt_for_tx`, the only place that creates a session, makes its own end the initiator, and so does
  the other node. Both then send on one and the same chain, and neither
  listens on it. Nothing calls it; Session gives its two ends the two roles.
- `meshtastic/mod.rs:407`: the identifiers of Meshtastic packets start at 1 again after a restart. MeshtasticHandler
  restarts so, and nothing promises otherwise.
- `identity.rs:429`: two threads may initialise the statics of the manager at once, and one goes on
  before the other has stored the value. The same mistake as in `packet_id.rs`, where it is shown.
- `wifi.rs:785`: `poll` begins with the first client, so that one who always writes
  starves the others. No text promises anything else.
- `meshtastic/packet.rs:56`: nothing compares the check value of a packet; a key that does not
  fit gives noise, which is what MeshtasticHandler models.
- `ble.rs:891`, `main.rs:2059`: advertising is not started again after a disconnect, and is
  started before the stack is synchronised. Both depend on NimBLE, which is external.
- `main.rs:874`, `main.rs:879`: the filter remembers a packet before it is relayed, and the
  decision to relay is not looked at again after the jitter. Both are in RadioLoop as they are; nothing promises otherwise.
- `main.rs:1794`: `millis` counts ticks, whose rate is a setting of the build.
- `protocol_router.rs:151,160`: a count of noise bytes that overflows after 65 536 and a detector
  that gives up after 256 sync bytes in a row; both need more bytes than an instance has.
- `packet_id.rs:286`: the 64-bit nonces advance the counter without a checkpoint.

## 8. Plan

What is left, in this order:

1. **Composition** of Router with RadioLoop, should the program come to call the router:
   the modem then follows the transport that holds the radio.
2. That what an app writes over BLE is never read by the main loop, against
   README.md:11; and sending over BLE, once the characteristics have handles.
