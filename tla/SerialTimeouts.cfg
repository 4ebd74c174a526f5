CONSTANTS
    Apps = {"MeshCore", "Meshtastic", "RNode", "AtCommand"}
    FramesOf <- MCFramesOf
    SwitchLine <- MCSwitchLine
    Noise = {0, 170}
    NoFrame = NoFrame
    MaxData = 9
    Commands <- MCCommands
    Crc <- MCCrc
    MaxPayload = 4
    MaxKissData = 3
    SyncTimeout = 3
    MaxLockCount = 4
    AtCapacity = 3
    MaxLost = 1
    MaxNoise = 2
    Modulus = 12
    IdleTicks = 4
    GraceTicks = 2
    MaxIteration = 3
    MaxBle = 1
    MessageIds = {1, 2, 3}
    AckSlots = 2
    MaxRetransmit = 2
    AckTimeout = 2
    AckClockEnd = 6
SPECIFICATION HostSpec
INVARIANTS
    TypeOK
    DeliversEveryFrame
    DeliversNothingElse
    NoCorruptFrame
    TriesAreBounded
PROPERTIES
    Resynchronises
    EndsForAReason
    AbandonedSessionEnds
    AcksSettle
