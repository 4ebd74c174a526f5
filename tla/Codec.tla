-------------------------------- MODULE Codec --------------------------------
(***************************************************************************)
(* The encoders and decoders of meshtastic/protobuf.rs, and the encoder of *)
(* meshtastic/mod.rs for apps: a message of a kind is written into the     *)
(* buffer of that kind, and what is in the buffer is read.  An encoder of  *)
(* protobuf.rs does not tell its caller that the buffer was too small, the *)
(* one of mod.rs refuses.  A message nested in another is written by its   *)
(* own encoder first and is bytes to the other.  Where the program has no  *)
(* decoder the reader is the app, which reads by the same numbers.         *)
(***************************************************************************)
EXTENDS Protobuf

CONSTANTS
    CodecMessages   \* pairs [kind, message]

VARIABLES
    coding,         \* the message at hand: [kind, message]
    wire,           \* its bytes
    decoding        \* what was decoded of them: [ok, message]

codecVars == <<coding, wire, decoding>>

Schemas ==
    [data       |-> DataFields,      position    |-> PositionFields,
     user       |-> UserFields,      node_info   |-> NodeInfoFields,
     metrics    |-> MetricsFields,   telemetry   |-> TelemetryFields,
     packet     |-> MeshPacketFields, from_radio |-> FromRadioFields,
     routing    |-> RoutingFields,   my_info     |-> MyInfoFields,
     channel    |-> ChannelFields,   settings    |-> ChannelSettingsFields,
     app_data   |-> AppDataFields,   app_packet  |-> AppMeshFields]

\* The bits of the number -0.0, which is not written although they are not zero.
IsNegativeZero(v) == v \div 16777216 = 128 /\ v % 16777216 = 0

\* What the structs hold beyond the types of the fields: bytes of a packet that
\* there is room for, encrypted or decoded; a signal strength of 31 bits; the
\* 17 characters of an identifier, its 6 last bytes again, and names there is
\* room for.  The port 0, which only encode_fromradio_packet writes, is left out.
HasLimits(kind, m) ==
    /\ kind = "packet" =>
          /\ Len(m["encrypted"]) <= 237 /\ Decodes(m["decoded"])
          /\ m["encrypted"] = << >> \/ m["decoded"] = << >>
          /\ ZigZag(m["rx_rssi"]) <= 2147483647
    /\ kind = "user" =>
          /\ Len(m["id"]) = 17 /\ m["id"][1] = 33 /\ Len(m["macaddr"]) = 6
          /\ Len(m["long_name"]) <= 40 /\ Len(m["short_name"]) <= 5
    /\ kind = "app_data" => m["port"] # 0
    /\ kind \in {"packet", "app_packet"} => ~ IsNegativeZero(m["rx_snr"])
    /\ kind = "node_info" => ~ IsNegativeZero(m["snr"])

\* A message has a value of its type for each field.
CodecAssumption ==
    \A c \in CodecMessages :
        /\ c.kind \in DOMAIN Schemas
        /\ \A s \in ToSet(Schemas[c.kind]) : Fits(s.type, c.message[s.name])
        /\ HasLimits(c.kind, c.message)
ASSUME CodecAssumption

\* The size of the buffer each encoder writes into.
Capacity ==
    [data |-> 237, position |-> 237, user |-> 237, node_info |-> 237, metrics |-> 64,
     telemetry |-> 237, packet |-> 256, from_radio |-> 512, routing |-> 16,
     my_info |-> 256, channel |-> 256, settings |-> 256, app_data |-> 237,
     app_packet |-> 300]

\* decode_mesh_packet reads rx_rssi as it is, encode_mesh_packet writes it as a
\* signed number.
ReadSchema(kind) ==
    IF kind = "packet"
    THEN [i \in DOMAIN MeshPacketFields |->
              IF MeshPacketFields[i].name = "rx_rssi" THEN Field("rx_rssi", 12, "uint")
              ELSE MeshPacketFields[i]]
    ELSE Schemas[kind]

NotEncoded == <<-1>>
NotDecoded == [ok |-> FALSE, message |-> << >>]

CodecInit == coding \in CodecMessages /\ wire = NotEncoded /\ decoding = NotDecoded

Size(kind, m) == Len(Whole(Schemas[kind], m))

\* encode_data, encode_position, ... and encode_fromradio_packet, which refuses.
EncodeMessage ==
    LET kind == coding.kind
    IN  /\ wire = NotEncoded
        /\ kind \in {"app_data", "app_packet"} => Size(kind, coding.message) <= Capacity[kind]
        /\ wire' = Encode(Schemas[kind], coding.message, Capacity[kind])
        /\ UNCHANGED <<coding, decoding>>

\* decode_data, decode_position, ...; decode_routing_error wants its field.
DecodeMessage ==
    /\ wire # NotEncoded /\ decoding = NotDecoded
    /\ decoding' = IF Decodes(wire) /\ (coding.kind = "routing" => wire # << >>)
                   THEN [ok |-> TRUE, message |-> Decode(ReadSchema(coding.kind), wire)]
                   ELSE [ok |-> FALSE, message |-> wire]
    /\ UNCHANGED <<coding, wire>>

CodecNext == EncodeMessage \/ DecodeMessage

CodecSpec == CodecInit /\ [][CodecNext]_codecVars
-----------------------------------------------------------------------------
\* What a field that held this is read as: as it was written, or, where nothing
\* was written, as what the decoder starts from.
ReadsAs(kind, s, v) ==
    IF kind = "packet" /\ s.name = "rx_rssi" THEN ZigZag(v)
    ELSE IF v = NoneOf(s.type) THEN StartOf(s.type) ELSE AsNamed(s.type, v)

\* A message the buffer has room for is read as it was written, apart from the
\* values of enumerations the decoder has no name for, the signal strength, the
\* routing error 0, of which nothing is written, and the nothing in a packet
\* that is read as something: the address 0 as everyone, the hop limit 0 as 3,
\* the priority 0 as 64 (the encoders and decoders of meshtastic/protobuf.rs,
\* encode_fromradio_packet, MeshPacket::default, Priority::from).
ReadsWhatItWrote ==
    LET kind == coding.kind
        HasRoom == Size(kind, coding.message) <= Capacity[kind]
    IN  decoding # NotDecoded /\ HasRoom /\ (kind = "routing" => coding.message.error_reason # 0) =>
            /\ decoding.ok
            /\ \A s \in ToSet(Schemas[kind]) :
                decoding.message[s.name] = ReadsAs(kind, s, coding.message[s.name])
=============================================================================
