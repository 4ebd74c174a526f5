CONSTANTS
    p1 = p1
    p2 = p2
    beacon = beacon
    NoPacket = NoPacket
    TooLong = TooLong
    EmptySlot = NoPacket
    Beacon = beacon
    Packets <- OnePacket
    Relayable <- OneRelayable
    Hashes <- OneRelayable
    Protocols = {"AtCommand"}
    AtCommands = {"RESET", "SWITCH"}
    RingSize = 1
    MaxBle = 1
    MaxFaults = 2
SPECIFICATION FairSpec
INVARIANT ConfigIsReal
PROPERTIES
    RxServiced
    SelfHealing
