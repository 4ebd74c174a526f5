CONSTANTS
    p1 = p1
    p2 = p2
    beacon = beacon
    NoPacket = NoPacket
    TooLong = TooLong
    EmptySlot = NoPacket
    Beacon = beacon
    Packets <- OnePacket
    Relayable <- OneRelayable
    Hashes <- OneRelayable
    Protocols = {"AtCommand"}
    AtCommands <- AllCommands
    RingSize = 1
    MaxBle = 1
    MaxFaults = 0
SPECIFICATION Spec
INVARIANT RxActiveIsTruthful
