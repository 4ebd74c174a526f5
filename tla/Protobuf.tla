------------------------------ MODULE Protobuf ------------------------------
(***************************************************************************)
(* The protobuf messages of meshtastic/protobuf.rs, as bytes.  A schema is *)
(* a sequence of fields in the order they are written, each with a name, a *)
(* number and a type; a message is a function from those names to values.  *)
(***************************************************************************)
EXTENDS Integers, Sequences, SequencesExt, FiniteSetsExt

CONSTANT Broadcast  \* the address of everyone: 0xFFFFFFFF in the code

Field(name, number, type) == [name |-> name, number |-> number, type |-> type]

WireOf(type) == CASE type = "bytes" -> 2 [] type = "fixed32" -> 5 [] OTHER -> 0

\* The value that is not written.
NoneOf(type) == IF type = "bytes" THEN << >> ELSE 0

\* The value of a field that is not read: that of the default of the struct,
\* which is not nothing in a MeshPacket.
StartOf(type) ==
    CASE type = "address"  -> Broadcast
      [] type = "hops"     -> 3
      [] type = "priority" -> 64
      [] OTHER             -> NoneOf(type)

\* Bytes, and numbers of 32 bits.
Byte  == 0 .. 255
Words == {n \in Nat : n \div 16777216 <= 255}

\* write_varint, and encode_varint of meshtastic/mod.rs
Varint[n \in Nat] ==
    IF n < 128 THEN <<n>> ELSE <<(n % 128) + 128>> \o Varint[n \div 128]

\* write_tag
Tag(number, wire) == Varint[number * 8 + wire]

\* write_sint32 and read_sint32
ZigZag(n)   == IF n >= 0 THEN 2 * n ELSE -2 * n - 1
UnZigZag(n) == IF n % 2 = 0 THEN n \div 2 ELSE -(n \div 2) - 1

\* The values of the types that are read as u8 or u16, and what is left of a
\* number in them.
Width ==
    [byte |-> 256, hops |-> 256, priority |-> 256, source |-> 256, role |-> 256,
     error |-> 256, model |-> 65536]

Narrowed(type, n) == IF type \in DOMAIN Width THEN n % Width[type] ELSE n

\* The values of a field of a type, as the structs of the messages have them.
Fits(type, v) ==
    CASE type = "bytes" -> v \in Seq(Byte) /\ Len(v) \in Words
      [] type = "sint"  -> v \in Int /\ ZigZag(v) \in Words
      [] type = "bool"  -> v \in {0, 1}
      [] OTHER          -> v \in Words /\ Narrowed(type, v) = v

LittleEndian(n) ==
    <<n % 256, (n \div 256) % 256, (n \div 65536) % 256, (n \div 16777216) % 256>>
FromLittleEndian(d)  == d[1] + 256 * d[2] + 65536 * d[3] + 16777216 * d[4]

\* What goes before the value of a field.
Preface(f, v) ==
    Tag(f.number, WireOf(f.type)) \o IF f.type = "bytes" THEN Varint[Len(v)] ELSE << >>

\* The bug of a negative number that is written as it is.
ContentUnsigned(f, v) ==
    CASE f.type = "bytes"   -> v
      [] f.type = "sint"    -> Varint[IF v < 0 THEN -v ELSE 2 * v]
      [] f.type = "fixed32" -> LittleEndian(v)
      [] OTHER              -> Varint[v]

Content(f, v) ==
    CASE f.type = "bytes"   -> v
      [] f.type = "sint"    -> Varint[ZigZag(v)]
      [] f.type = "fixed32" -> LittleEndian(v)
      [] OTHER              -> Varint[v]

\* write_..._field: a field that is zero or empty is not written.  One that
\* does not fit is cut - a number where the buffer ends, bytes after their
\* length, a fixed32 after its tag - and the encoder goes on.
WithField(buffer, f, v, capacity) ==
    LET head  == buffer \o Preface(f, v)
        whole == head \o Content(f, v)
        cut   == IF f.type \in {"bytes", "fixed32"} THEN head ELSE whole
    IN  IF v = NoneOf(f.type) THEN buffer
        ELSE IF Len(whole) <= capacity THEN whole
        ELSE SubSeq(cut, 1, Min({capacity, Len(cut)}))

\* encode_data, encode_position, encode_user: the result is never refused.
Encode(schema, m, capacity) ==
    LET upTo[i \in 0 .. Len(schema)] ==
            IF i = 0 THEN << >>
            ELSE WithField(upTo[i - 1], schema[i], m[schema[i].name], capacity)
    IN  upTo[Len(schema)]

\* The bytes of a field, and of all of them, in a buffer without an end.
Written(f, v) == IF v = NoneOf(f.type) THEN << >> ELSE Preface(f, v) \o Content(f, v)

Whole(schema, m) ==
    LET upTo[i \in 0 .. Len(schema)] ==
            IF i = 0 THEN << >>
            ELSE upTo[i - 1] \o Written(schema[i], m[schema[i].name])
    IN  upTo[Len(schema)]
-----------------------------------------------------------------------------
\* read_varint from place p: its last byte, 0 when there is none, and value.
VarintEnd(d, p) ==
    LET ends == {i \in p .. p + 9 : i <= Len(d) /\ d[i] < 128}
    IN  IF ends = {} THEN 0 ELSE Min(ends)

VarintValue(d, p, last) ==
    LET from[i \in 1 .. Len(d) + 1] ==
            IF i > last THEN 0 ELSE (d[i] % 128) + 128 * from[i + 1]
    IN  from[p]

\* read_tag and the value behind it, or skip_field: first and last are the
\* places of the value.
FieldAt(d, p) ==
    LET tag    == VarintEnd(d, p)
        key    == VarintValue(d, p, tag)
        q      == tag + 1
        length == VarintEnd(d, q)
        wire   == key % 8
        first  == IF wire = 2 THEN length + 1 ELSE q
        last   == CASE wire = 0 -> VarintEnd(d, q)
                    [] wire = 1 -> q + 7
                    [] wire = 5 -> q + 3
                    [] wire = 2 -> IF length = 0 THEN 0
                                   ELSE length + VarintValue(d, q, length)
                    [] OTHER    -> 0
    IN  [ok     |-> tag # 0 /\ last # 0 /\ last <= Len(d),
         number |-> key \div 8, wire |-> wire, first |-> first, last |-> last]

\* The fields of a message, up to one that is broken.
FieldsOf(d) ==
    LET from[p \in 1 .. Len(d) + 1] ==
            IF p > Len(d) THEN << >>
            ELSE LET f == FieldAt(d, p)
                 IN  <<f>> \o (IF f.ok THEN from[f.last + 1] ELSE << >>)
    IN  from[1]

\* Whether decode_data, decode_position and decode_user return a message.
Decodes(d) == \A f \in ToSet(FieldsOf(d)) : f.ok

\* The values an enumeration has a name for; the others are read as its default,
\* which is not 0 for a priority.
Named ==
    [port     |-> 0 .. 8 \cup {32, 33, 64, 65, 66, 67, 70, 71},
     source   |-> 0 .. 3,
     model    |-> {0, 1, 2, 4, 5, 9, 10, 34, 255},
     role     |-> 0 .. 10,
     error    |-> 0 .. 9 \cup {32, 33},
     priority |-> {1, 10, 64, 70, 120, 127}]

\* PortNum::from, Priority::from, and the matches on the other enumerations.
AsNamed(type, n) ==
    IF type \in DOMAIN Named /\ n \notin Named[type] THEN StartOf(type) ELSE n

ValueOf(d, type, f) ==
    CASE type = "bytes"   -> SubSeq(d, f.first, f.last)
      [] type = "fixed32" -> FromLittleEndian(SubSeq(d, f.first, f.last))
      [] type = "sint"    -> UnZigZag(VarintValue(d, f.first, f.last))
      [] type = "bool"    -> IF VarintValue(d, f.first, f.last) = 0 THEN 0 ELSE 1
      [] OTHER            -> AsNamed(type, Narrowed(type, VarintValue(d, f.first, f.last)))

FieldNames(schema) == {s.name : s \in ToSet(schema)}

\* The message of these fields, the others zero or empty.
Message(schema, given) ==
    [n \in FieldNames(schema) |->
        IF n \in DOMAIN given THEN given[n]
        ELSE NoneOf((CHOOSE s \in ToSet(schema) : s.name = n).type)]

\* The fields that are read into this one of the message: one with a number or
\* a wire type the schema does not have is skipped.
ReadInto(s, fields) ==
    {i \in DOMAIN fields : fields[i].number = s.number /\ fields[i].wire = WireOf(s.type)}

\* The value of this one of the message: of a field that comes twice the last
\* counts, and one that does not come keeps what the decoder starts from.
ValueRead(d, s, fields) ==
    LET found == ReadInto(s, fields)
    IN  IF found = {} THEN StartOf(s.type) ELSE ValueOf(d, s.type, fields[Max(found)])

Decode(schema, d) ==
    LET fields == FieldsOf(d)
    IN  [n \in FieldNames(schema) |->
            ValueRead(d, CHOOSE s \in ToSet(schema) : s.name = n, fields)]
-----------------------------------------------------------------------------
\* The schemas.
DataFields ==
    <<Field("port", 1, "port"), Field("payload", 2, "bytes"),
      Field("want_response", 3, "bool"), Field("dest", 4, "uint"),
      Field("source", 5, "uint"), Field("request_id", 6, "uint"),
      Field("reply_id", 7, "uint"), Field("emoji", 8, "uint")>>

PositionFields ==
    <<Field("latitude_i", 1, "sint"), Field("longitude_i", 2, "sint"),
      Field("altitude", 3, "sint"), Field("time", 4, "uint"),
      Field("location_source", 5, "source"), Field("altitude_source", 6, "source"),
      Field("timestamp", 7, "uint"), Field("pdop", 11, "uint"),
      Field("hdop", 12, "uint"), Field("sats_in_view", 19, "uint"),
      Field("ground_speed", 15, "uint"), Field("ground_track", 16, "uint"),
      Field("fix_quality", 17, "uint"), Field("fix_type", 18, "uint"),
      Field("seq_number", 22, "uint")>>

UserFields ==
    <<Field("id", 1, "bytes"), Field("long_name", 2, "bytes"),
      Field("short_name", 3, "bytes"), Field("macaddr", 4, "bytes"),
      Field("hw_model", 5, "model"), Field("is_licensed", 6, "bool"),
      Field("role", 7, "role")>>

NodeInfoFields ==
    <<Field("num", 1, "uint"), Field("user", 2, "bytes"),
      Field("position", 3, "bytes"), Field("snr", 4, "fixed32"),
      Field("last_heard", 5, "uint")>>

MetricsFields ==
    <<Field("battery_level", 1, "uint"), Field("voltage", 2, "uint"),
      Field("channel_utilization", 3, "uint"), Field("air_util_tx", 4, "uint"),
      Field("uptime_seconds", 5, "uint")>>

TelemetryFields == <<Field("time", 1, "uint"), Field("metrics", 2, "bytes")>>

MeshPacketFields ==
    <<Field("from", 1, "uint"), Field("to", 2, "address"), Field("channel", 3, "byte"),
      Field("encrypted", 4, "bytes"), Field("decoded", 5, "bytes"),
      Field("id", 6, "uint"), Field("rx_time", 7, "uint"),
      Field("rx_snr", 8, "fixed32"), Field("hop_limit", 9, "hops"),
      Field("want_ack", 10, "bool"), Field("priority", 11, "priority"),
      Field("rx_rssi", 12, "sint")>>

FromRadioFields ==
    <<Field("id", 1, "uint"), Field("packet", 2, "bytes"),
      Field("my_info", 3, "bytes"), Field("node_info", 4, "bytes"),
      Field("config_complete_id", 7, "uint"), Field("channel", 10, "bytes")>>

RoutingFields == <<Field("error_reason", 3, "error")>>

MyInfoFields ==
    <<Field("my_node_num", 1, "uint"), Field("reboot_count", 8, "uint"),
      Field("min_app_version", 11, "uint")>>

ChannelFields ==
    <<Field("index", 1, "uint"), Field("settings", 2, "bytes"), Field("role", 3, "uint")>>

ChannelSettingsFields == <<Field("channel_num", 1, "uint"), Field("name", 3, "bytes")>>

\* What encode_fromradio_packet of meshtastic/mod.rs writes for an app.
AppDataFields ==
    <<Field("port", 1, "uint"), Field("payload", 2, "bytes"),
      Field("want_response", 3, "bool"), Field("dest", 4, "fixed32"),
      Field("source", 5, "fixed32"), Field("request_id", 6, "fixed32"),
      Field("reply_id", 7, "fixed32"), Field("emoji", 8, "fixed32")>>

AppMeshFields ==
    <<Field("from", 1, "fixed32"), Field("to", 2, "fixed32"), Field("channel", 3, "uint"),
      Field("decoded", 4, "bytes"), Field("encrypted", 5, "bytes"),
      Field("id", 6, "fixed32"), Field("rx_time", 7, "fixed32"),
      Field("rx_snr", 8, "fixed32"), Field("hop_limit", 9, "uint"),
      Field("want_ack", 10, "bool"), Field("priority", 11, "uint"),
      Field("rx_rssi", 12, "sint")>>
=============================================================================
