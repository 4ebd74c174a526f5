CONSTANTS
    p1 = p1
    p2 = p2
    beacon = beacon
    NoPacket = NoPacket
    TooLong = TooLong
    EmptySlot = NoPacket
    Beacon = beacon
    Packets <- MCPackets
    Relayable <- MCRelayable
    Hashes <- MCRelayable
    Protocols <- AllProtocols
    AtCommands = {"TUNE", "RX", "SWITCH", "REPEATER"}
    RingSize = 1
    MaxBle = 1
    MaxFaults = 1
SPECIFICATION Spec
INVARIANTS
    ListensUntilAFault
    ReadIsFresh
    AppHasItsModem
    RereadNeedsTwoFaults
