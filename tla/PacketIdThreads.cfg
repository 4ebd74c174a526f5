CONSTANTS
    t1 = t1
    t2 = t2
    Threads = {t1, t2}
    Operations = {"next"}
    Modulus = 9
    PersistEvery = 3
    WakeSkip = 3
    MaxSessions = 2
    PacketIdOf <- MCPacketIdOf
SPECIFICATION Spec
INVARIANTS
    UniqueIds
