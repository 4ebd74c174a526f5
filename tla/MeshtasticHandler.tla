------------------------- MODULE MeshtasticHandler -------------------------
(***************************************************************************)
(* MeshtasticHandler of meshtastic/mod.rs on each of a few nodes, with the *)
(* packets of meshtastic/packet.rs and the channel key of channel.rs:      *)
(* frames of an app become packets on the air, packets heard become        *)
(* messages to the app, and an app that asks is told what the node is.     *)
(* The cipher is opaque and never refuses: a key that is not the sender's  *)
(* gives noise.  The radio's own failures are in RadioLoop; here a packet  *)
(* that is never heard stands for one that was not sent.                   *)
(***************************************************************************)
EXTENDS Protobuf, FiniteSets

CONSTANTS
    MeshNodes,      \* node numbers
    ChannelKeys,
    OwnerOf,        \* user of each node: names, as bytes
    AppMessages,    \* what apps send: [to, port, payload, want_ack]
    Texts,          \* what create_text_message is given, as bytes
    Positions,      \* what create_position_packet finds
    IdModulus,      \* packet identifiers wrap here: 2^32 in the code
    MaxMeshWork,    \* bound on what the apps ask for, all nodes together
    MaxMeshRestarts \* bound on the restarts

\* Numbers of 32 bits, names as the fields of User have room for them, and
\* messages of the size that the apps send (external).
HandlerAssumption ==
    /\ MeshNodes \subseteq Words /\ Broadcast \in Words
    /\ IdModulus \in Nat /\ IdModulus >= 2
    /\ \A n \in MeshNodes :
          /\ OwnerOf[n].long_name \in Seq(Byte) /\ Len(OwnerOf[n].long_name) <= 40
          /\ OwnerOf[n].short_name \in Seq(Byte) /\ Len(OwnerOf[n].short_name) <= 5
    /\ \A m \in AppMessages :
          /\ m.to \in Words /\ m.port \in Words /\ m.want_ack \in {0, 1}
          /\ m.payload \in Seq(Byte) /\ Len(m.payload) <= 233
    /\ Texts \subseteq Seq(Byte)
    /\ \A p \in Positions : \A s \in ToSet(PositionFields) : Fits(s.type, p[s.name])
ASSUME HandlerAssumption

VARIABLES
    lastPacketId,   \* of each node
    channelKey,     \* of the primary channel of each node
    meshWork,       \* what the apps have asked for so far
    air,            \* packets on the air: heard any number of times, or never
    meant,          \* history: what each packet was meant to say
    told,           \* history: what each app was told of packets
    refused,        \* history: what apps asked for in vain
    unsent,         \* history: what was too long for a packet
    config,         \* the last configuration each app got
    meshRestarts

handlerVars == <<lastPacketId, channelKey, meshWork, air, meant, told, refused,
                 unsent, config, meshRestarts>>

\* The room for data, and the most of it that a packet of 256 bytes takes
\* beside its header of 16 and its sum of 4.
MaxLoraPayload == 237
LongestData    == 256 - 16 - 4

HandlerInit ==
    /\ lastPacketId = [n \in MeshNodes |-> 0]
    /\ channelKey \in [MeshNodes -> ChannelKeys]
    /\ meshWork = 0
    /\ air = {} /\ meant = {} /\ told = {}
    /\ refused = {} /\ unsent = {}
    /\ config = [n \in MeshNodes |-> << >>]
    /\ meshRestarts = 0
-----------------------------------------------------------------------------
\* next_packet_id: 0 is skipped.
NextPacketId(id) == IF (id + 1) % IdModulus = 0 THEN 1 ELSE (id + 1) % IdModulus

\* The bound on what is asked.
OneMoreAsked == meshWork < MaxMeshWork /\ meshWork' = meshWork + 1

\* The data of a message, as create_packet fills it in.
DataOf(n, to, port, payload, want) ==
    Message(DataFields, [port |-> port, payload |-> payload, want_response |-> want,
                         source |-> n, dest |-> to])

\* build_lora_packet of packet.rs around encode_data and Channel::encrypt.
LoraPacket(n, to, id, data, want) ==
    [from |-> n, to |-> to, id |-> id, channel |-> 0, want_ack |-> want,
     key  |-> channelKey[n], plain |-> Encode(DataFields, data, MaxLoraPayload)]

\* What create_packet is given.
Asked(to, port, payload, want) ==
    [to |-> to, port |-> port, payload |-> payload, want |-> want]

\* create_packet: the identifier is spent even when the payload has no room, or
\* when the data leave the packet none for its header and its sum.
CreatePacket(n, r, asked) ==
    LET id   == NextPacketId(lastPacketId[n])
        data == DataOf(n, r.to, r.port, r.payload, r.want)
        p    == LoraPacket(n, r.to, id, data, r.want)
        size == Len(Whole(DataFields, data))
    IN  /\ lastPacketId' = [lastPacketId EXCEPT ![n] = id]
        /\ IF Len(r.payload) > MaxLoraPayload \/ Len(p.plain) > LongestData
           THEN /\ unsent' = unsent \cup {[payload |-> asked.payload, size |-> size]}
                /\ UNCHANGED <<air, meant>>
           ELSE /\ air' = air \cup {p}
                /\ meant' = meant \cup {[from |-> n, to |-> asked.to, id |-> id,
                                         want_ack |-> asked.want, key |-> channelKey[n],
                                         port |-> asked.port, payload |-> asked.payload,
                                         fits |-> size <= LongestData]}
                /\ UNCHANGED unsent
-----------------------------------------------------------------------------
\* What an app puts in its frame (external): a ToRadio with a packet.
AppPacketFields ==
    <<Field("to", 2, "uint"), Field("channel", 4, "uint"), Field("hop_limit", 6, "uint"),
      Field("want_ack", 7, "bool"), Field("data", 8, "bytes")>>

AppData(m) == Message(DataFields, [port |-> m.port, payload |-> m.payload])

AppMessage(m) ==
    Message(AppPacketFields, [to |-> m.to, hop_limit |-> 3, want_ack |-> m.want_ack,
                              data |-> Whole(DataFields, AppData(m))])

AppPacket(m) == Whole(AppPacketFields, AppMessage(m))

ToRadio(m) == <<10>> \o Varint[Len(AppPacket(m))] \o AppPacket(m)

\* A field as build_lora_packet of mod.rs reads it: the tag is one byte, and so
\* is the length of bytes.
LooseField(d, p) ==
    LET wire == d[p] % 8
        end  == VarintEnd(d, p + 1)
        last == CASE wire = 0 -> IF end = 0 THEN Len(d) ELSE end
                  [] wire = 2 -> p + 1 + d[p + 1]
                  [] OTHER    -> p
    IN  [ok     |-> p < Len(d) /\ wire \in {0, 2} /\ last <= Len(d),
         number |-> d[p] \div 8, first |-> IF wire = 2 THEN p + 2 ELSE p + 1,
         last   |-> last]

\* The fields up to the first that ends the loop.
LooseFields(d) ==
    LET from[p \in 1 .. Len(d) + 1] ==
            IF p >= Len(d) THEN << >>
            ELSE LET f == LooseField(d, p)
                 IN  IF f.ok THEN <<f>> \o from[f.last + 1] ELSE << >>
    IN  from[1]

\* The last field of this number, as bytes; or none.
LooseValue(d, number, none) ==
    LET fields == LooseFields(d)
        found  == {i \in DOMAIN fields : fields[i].number = number}
    IN  IF found = {} THEN none
        ELSE SubSeq(d, fields[Max(found)].first, fields[Max(found)].last)

\* The bug of a number that is taken from one byte, as a tag and a length are.
LooseNumberOneByte(d, number, none) ==
    LET bytes == LooseValue(d, number, << >>)
    IN  IF bytes = << >> THEN none ELSE bytes[1] % 128

LooseNumber(d, number, none) ==
    LET bytes == LooseValue(d, number, << >>)
    IN  IF bytes = << >> THEN none ELSE VarintValue(bytes, 1, Len(bytes))

NoData == <<-1>>

\* What build_lora_packet of mod.rs finds in the frame of a message: nothing
\* when the frame is shorter than its length byte says, or has no payload.
Requests ==
    [m \in AppMessages |->
        LET frame  == ToRadio(m)
            packet == SubSeq(frame, 3, 2 + frame[2])
            data   == LooseValue(packet, 8, << >>)
        IN  [found   |-> 2 + frame[2] <= Len(frame) /\ LooseValue(data, 2, NoData) # NoData,
             to      |-> LooseNumber(packet, 2, Broadcast),
             port    |-> AsNamed("port", LooseNumber(data, 1, 0)),
             payload |-> LooseValue(data, 2, NoData),
             want    |-> IF LooseNumber(packet, 7, 0) = 0 THEN 0 ELSE 1]]

\* What the app asks for: without an address, of everyone; its port by name.
AskedOf(m) ==
    Asked(IF m.to = 0 THEN Broadcast ELSE m.to, AsNamed("port", m.port), m.payload, m.want_ack)

\* process_toradio with a packet.  The channel and the hop limit the app asks
\* for are not used.
FromApp(n, m) ==
    \E r \in {Requests[m]} :
        /\ OneMoreAsked
        /\ IF r.found
           THEN CreatePacket(n, r, AskedOf(m)) /\ UNCHANGED refused
           ELSE refused' = refused \cup {m} /\ UNCHANGED <<lastPacketId, air, meant, unsent>>
        /\ UNCHANGED <<channelKey, told, config, meshRestarts>>

\* create_text_message.
CreateText(n, text) ==
    /\ OneMoreAsked
    /\ \E r \in {Asked(Broadcast, 1, text, 1)} : CreatePacket(n, r, r)
    /\ UNCHANGED <<channelKey, told, refused, config, meshRestarts>>

\* create_position_packet; create_node_info_packet does the same with the user.
CreatePosition(n, position) ==
    /\ OneMoreAsked
    /\ \E r \in {Asked(Broadcast, 3, Encode(PositionFields, position, MaxLoraPayload), 0)} :
          CreatePacket(n, r, r)
    /\ UNCHANGED <<channelKey, told, refused, config, meshRestarts>>
-----------------------------------------------------------------------------
Undecoded == [decoded |-> FALSE]
Noise     == [decoded |-> TRUE, port |-> 0, payload |-> NoData]

\* decrypt_packet: what cannot be decoded is left encrypted.
Decrypted(n, p) ==
    IF p.key # channelKey[n] THEN {Undecoded, Noise}
    ELSE IF ~Decodes(p.plain) THEN {Undecoded}
    ELSE LET data == Decode(DataFields, p.plain)
         IN  {[decoded |-> TRUE, port |-> data.port, payload |-> data.payload]}

\* process_lora_packet and the Meshtastic case of route_rx_packet: the sum of
\* the packet is computed and not looked at, nor is the sender or the address,
\* and a packet without data is not one.
\* encode_fromradio_packet has room for whatever a node of this firmware sends.
Hear(n, p) ==
    /\ p \in air /\ p.plain # << >>
    /\ \E message \in Decrypted(n, p) :
        told' = told \cup {[at |-> n, from |-> p.from, to |-> p.to, id |-> p.id,
                            want_ack |-> p.want_ack, message |-> message]}
    /\ UNCHANGED <<lastPacketId, channelKey, meshWork, air, meant, refused,
                   unsent, config, meshRestarts>>
-----------------------------------------------------------------------------
\* The messages of mod.rs to an app: numbers of its own, and small buffers.
AppUserFields ==
    <<Field("id", 1, "bytes"), Field("long_name", 2, "bytes"),
      Field("short_name", 3, "bytes"), Field("hw_model", 5, "uint"), Field("role", 7, "uint")>>
AppNodeFields    == <<Field("num", 1, "uint"), Field("user", 2, "bytes")>>
AppMyInfoFields  == <<Field("my_node_num", 1, "uint"), Field("min_app", 3, "uint"),
                      Field("max_channels", 4, "uint"), Field("has_wifi", 7, "uint")>>
AppChannelFields == <<Field("index", 1, "uint"), Field("settings", 2, "bytes"),
                      Field("role", 3, "uint")>>
SettingsFields   == <<Field("name", 2, "bytes")>>
FromNodeFields   == <<Field("my_info", 4, "bytes"), Field("node_info", 6, "bytes"),
                      Field("channel", 8, "bytes"), Field("complete", 9, "uint")>>

\* The capacities of the buffers they are put together in.
UserRoom     == 64
NodeInfoRoom == 128

FromNode(given) == Encode(FromNodeFields, Message(FromNodeFields, given), 512)

\* format_node_id
Digit(k) == IF k < 10 THEN 48 + k ELSE 87 + k

IdText(n) ==
    <<33, Digit((n \div 268435456) % 16), Digit((n \div 16777216) % 16),
      Digit((n \div 1048576) % 16), Digit((n \div 65536) % 16), Digit((n \div 4096) % 16),
      Digit((n \div 256) % 16), Digit((n \div 16) % 16), Digit(n % 16)>>

\* The bug of the seventeen characters encode_user writes.
NodeInfoLongId(n) ==
    LET user == Encode(AppUserFields,
                       Message(AppUserFields, [id |-> IdText(n) \o SubSeq(IdText(n), 2, 9),
                           long_name |-> OwnerOf[n].long_name,
                           short_name |-> OwnerOf[n].short_name,
                           hw_model |-> 43, role |-> 4]), UserRoom)
    IN  FromNode([node_info |-> Encode(AppNodeFields,
                      Message(AppNodeFields, [num |-> n, user |-> user]), NodeInfoRoom)])

\* encode_privacy_nodeinfo
NodeInfo(n) ==
    LET user == Encode(AppUserFields,
                       Message(AppUserFields, [id |-> IdText(n),
                           long_name |-> OwnerOf[n].long_name,
                           short_name |-> OwnerOf[n].short_name,
                           hw_model |-> 43, role |-> 4]), UserRoom)
    IN  FromNode([node_info |-> Encode(AppNodeFields,
                      Message(AppNodeFields, [num |-> n, user |-> user]), NodeInfoRoom)])

\* encode_privacy_myinfo
MyInfo(n) ==
    FromNode([my_info |-> Encode(AppMyInfoFields,
                  Message(AppMyInfoFields, [my_node_num |-> n, min_app |-> 30000,
                                            max_channels |-> 8, has_wifi |-> 1]), 64)])

\* encode_channel_config: the primary channel is named Primary.
ChannelConfig ==
    LET name == <<80, 114, 105, 109, 97, 114, 121>>
    IN  FromNode([channel |-> Encode(AppChannelFields,
            Message(AppChannelFields, [settings |-> Encode(SettingsFields, [name |-> name], 48),
                                       role |-> 1]), 64)])

\* process_toradio with a request for the configuration, build_config_response
\* and flush_meshtastic_responses: no secondary channel is ever set.
WantConfig(n, id) ==
    /\ OneMoreAsked
    /\ config' = [config EXCEPT ![n] =
                      <<MyInfo(n), NodeInfo(n), ChannelConfig, FromNode([complete |-> id])>>]
    /\ UNCHANGED <<lastPacketId, channelKey, air, meant, told, refused,
                   unsent, meshRestarts>>

\* A restart: packet identifiers start again.
MeshRestart(n) ==
    /\ meshRestarts < MaxMeshRestarts /\ lastPacketId[n] # 0
    /\ meshRestarts' = meshRestarts + 1
    /\ lastPacketId' = [lastPacketId EXCEPT ![n] = 0]
    /\ config' = [config EXCEPT ![n] = << >>]
    /\ UNCHANGED <<channelKey, meshWork, air, meant, told, refused, unsent>>

HandlerNext ==
    \E n \in MeshNodes :
        \/ \E m \in AppMessages : FromApp(n, m)
        \/ \E text \in Texts : CreateText(n, text)
        \/ \E position \in Positions : CreatePosition(n, position)
        \/ \E p \in air : Hear(n, p)
        \/ WantConfig(n, 7)
        \/ MeshRestart(n)

HandlerSpec == HandlerInit /\ [][HandlerNext]_handlerVars
-----------------------------------------------------------------------------
\* The types of the handlers' state.
HandlerTypeOK ==
    /\ lastPacketId \in [MeshNodes -> 0 .. IdModulus - 1]
    /\ channelKey \in [MeshNodes -> ChannelKeys]
    /\ refused \subseteq AppMessages
    /\ \A p \in air : Len(p.plain) <= LongestData

\* What an app is told of a packet is what was meant: addresses, identifier
\* and, when the two nodes share the key and the message fitted in one packet,
\* the port and the payload (build_lora_packet, create_packet, encode_data,
\* process_lora_packet, decode_data).  Only three kinds of message are lost
\* before they reach the air: one in a frame whose packet takes more than 127
\* bytes, so that its length takes two; one without a payload, which an encoder
\* does not write (build_lora_packet of mod.rs); and one whose data would take
\* more than the 236 bytes that leave room for the header and the sum, that of
\* 237 included, to which encode_data cuts (build_lora_packet of packet.rs).
HeardAsMeant ==
    /\ \A h \in told : \E s \in meant :
          /\ s.from = h.from /\ s.to = h.to /\ s.id = h.id /\ s.want_ack = h.want_ack
          /\ s.key = channelKey[h.at] /\ s.fits =>
                h.message = [decoded |-> TRUE, port |-> s.port, payload |-> s.payload]
    /\ \A m \in refused : Len(AppPacket(m)) > 127 \/ m.payload = << >>
    /\ \A u \in unsent : Len(u.payload) > MaxLoraPayload \/ u.size > LongestData

\* The configuration tells an app the node's number and its owner's names,
\* whatever their lengths, and ends with the number the app asked with.  The app
\* reads the fields by the numbers of mod.rs, which are not those protobuf.rs has
\* for the same message (protobuf.rs:1027-1042).
ConfigIsTrue ==
    \A n \in MeshNodes : config[n] # << >> =>
        /\ \A i \in 1 .. 4 : Decodes(config[n][i])
        /\ LET From(i) == Decode(FromNodeFields, config[n][i])
           IN  /\ From(4).complete = 7
               /\ \E info \in {From(1).my_info} :
                     Decode(AppMyInfoFields, info).my_node_num = n
               /\ \E node \in {From(2).node_info} :
                     /\ Decode(AppNodeFields, node).num = n
                     /\ \E user \in {Decode(AppNodeFields, node).user} :
                           Decode(AppUserFields, user) =
                               [id |-> IdText(n), long_name |-> OwnerOf[n].long_name,
                                short_name |-> OwnerOf[n].short_name,
                                hw_model |-> 43, role |-> 4]
=============================================================================
