-------------------------------- MODULE MCMesh --------------------------------
(* The parts of Mesh on small instances.                                    *)
EXTENDS Mesh, TLC

CONSTANTS h1, h2, h3, h4, h5, h6, n1, n2, n3, n4, k1, k2, k3, k4

\* A ring of 4 slots and 6 fingerprints, so that it wraps while packets old
\* enough to be forgotten come back.
MCHashes == {h1, h2, h3, h4, h5, h6}

\* One end gets past two ratchets, the other up to its first.
MCSends == [alice |-> 3, bob |-> 2]

\* The hint of one hop is the number that marks the last.
MCHints == n4 :> 0 @@ n3 :> 3 @@ [n \in {n1, n2} |-> 2]

\* Two keys share an address in one network, two others none.
Addresses(m, t, r) == [MeshCore |-> m, Meshtastic |-> t, Reticulum |-> r]
MCAddresses ==
    k1 :> Addresses(1, 10, 100) @@ k2 :> Addresses(1, 11, 101) @@
    k3 :> Addresses(2, 20, 102) @@ k4 :> Addresses(3, 30, 102)

MCLinks == {<<"a", "b">>, <<"b", "c">>, <<"c", "b">>}

Bytes(n) == [i \in 1 .. n |-> i % 251]

\* Names that leave room in the buffer of a user, and names that fill it.
MCOwners ==
    300000001 :> [long_name |-> Bytes(9),  short_name |-> Bytes(4)] @@
    300000002 :> [long_name |-> Bytes(40), short_name |-> Bytes(5)]

App(to, port, length, want) ==
    [to |-> to, port |-> port, payload |-> Bytes(length), want_ack |-> want]

\* The longest an app gets on the air, one longer, and one without a payload.
MCAppMessages ==
    {App(2147483647, 1, 100, 1), App(300000002, 9, 111, 0), App(300000002, 64, 0, 0)}

\* The longest text that fits a packet; one whose data fill the room of 237
\* bytes, which no packet takes; one that is cut; and one without room.
MCTexts == {Bytes(217), Bytes(218), Bytes(219), Bytes(238)}

MCPositions ==
    {Message(PositionFields, [latitude_i |-> -70000, seq_number |-> 9,
                              time |-> 1700000000])}

Sample(kind, given) == [kind |-> kind, message |-> Message(Schemas[kind], given)]

MCUser == Encode(UserFields, Message(UserFields,
              [id |-> <<33>> \o Bytes(16), long_name |-> Bytes(40), short_name |-> Bytes(5)]), 237)

MCData(fields) == Encode(fields, Message(fields,
                      [port |-> 1, payload |-> Bytes(200), dest |-> 300000002]), 237)

\* Messages with a field of every type, at the limits of their encodings and of
\* the buffers.
MCCodecMessages ==
    {Sample("data", [port |-> 1, payload |-> Bytes(5), want_response |-> 1,
                     dest |-> 2147483647, source |-> 300000001]),
     Sample("data", [port |-> 10, payload |-> Bytes(232), reply_id |-> 5]),
     Sample("data", [port |-> 67, payload |-> Bytes(233), emoji |-> 128]),
     Sample("position", [latitude_i |-> 374220000, longitude_i |-> -1020840000,
                         altitude |-> 100, time |-> 1700000000,
                         location_source |-> 2, sats_in_view |-> 9, seq_number |-> 127]),
     Sample("user", [id |-> <<33>> \o Bytes(16), long_name |-> Bytes(40), short_name |-> Bytes(5),
                     macaddr |-> Bytes(6), hw_model |-> 43, is_licensed |-> 1, role |-> 4]),
     Sample("node_info", [num |-> 300000001, user |-> MCUser, position |-> Bytes(60),
                          snr |-> 1090519040, last_heard |-> 16384]),
     Sample("metrics", [battery_level |-> 101, voltage |-> 1082130432,
                        uptime_seconds |-> 70000]),
     Sample("telemetry", [time |-> 1, metrics |-> Bytes(20)]),
     Sample("packet", [from |-> 300000001, to |-> 2147483647, id |-> 16383,
                       encrypted |-> Bytes(200), rx_snr |-> 1090519040,
                       hop_limit |-> 3, want_ack |-> 1, rx_rssi |-> -120]),
     Sample("packet", [from |-> 300000001, id |-> 1, decoded |-> MCData(DataFields),
                       rx_time |-> 1700000000, channel |-> 7, priority |-> 70]),
     Sample("packet", [from |-> 300000001, to |-> 300000002, id |-> 2,
                       encrypted |-> Bytes(237), hop_limit |-> 7, priority |-> 2]),
     Sample("from_radio", [id |-> 7, packet |-> Bytes(128)]),
     Sample("from_radio", [config_complete_id |-> 7]),
     Sample("routing", [error_reason |-> 33]),
     Sample("routing", [error_reason |-> 0]),
     Sample("my_info", [my_node_num |-> 300000001, reboot_count |-> 128,
                        min_app_version |-> 20300]),
     Sample("channel", [index |-> 7, settings |-> Bytes(15), role |-> 2]),
     Sample("settings", [channel_num |-> 7, name |-> Bytes(11)]),
     Sample("app_data", [port |-> 257, payload |-> Bytes(218), want_response |-> 1,
                         dest |-> 2147483647, source |-> 300000001]),
     Sample("app_data", [port |-> 257, payload |-> Bytes(237)]),
     Sample("app_packet", [from |-> 300000001, to |-> 2147483647, id |-> 65536,
                           decoded |-> MCData(AppDataFields), hop_limit |-> 3,
                           want_ack |-> 1, priority |-> 64, rx_rssi |-> -120])}
===============================================================================
