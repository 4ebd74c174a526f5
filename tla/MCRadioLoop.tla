----------------------------- MODULE MCRadioLoop -----------------------------
(* RadioLoop with two packets worth relaying and the beacon, and a ring of  *)
(* one entry, so that packets are forgotten and relayed again.              *)
EXTENDS RadioLoop

CONSTANTS p1, p2, beacon

MCPackets   == {p1, p2, beacon}
MCRelayable == {p1, p2}
OnePacket   == {p1, beacon}
OneRelayable == {p1}

AllProtocols == {"MeshCore", "Meshtastic", "RNode", "AtCommand"}
AllCommands  == {"TUNE", "RESET", "RX", "SWITCH", "REPEATER"}
=============================================================================
