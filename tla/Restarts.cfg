CONSTANTS
    t1 = t1
    t2 = t2
    Threads = {t1}
    Operations = {"next", "rotate"}
    Modulus = 9
    PersistEvery = 3
    WakeSkip = 3
    MaxSessions = 3
    PacketIdOf <- MCPacketIdOf
    Pins = {0, 14, 64}
    WakeSlots = 2
    Frequencies = {240, 100}
    RtcSlots = {7, 8}
    MaxNaps = 2
    a = a
    b = b
    f0 = f0
    Images <- MCImages
    Factory <- MCFactory
    Owners <- MCOwners
    MinVersions = {2}
    MaxFirmware = 2
    MaxChunk = 2
    Partitioned = {TRUE, FALSE}
    c1 = c1
    c2 = c2
    c3 = c3
    Keys = {c1, c2, c3}
    DidLength <- MCDidLength
    NameLength <- MCNameLength
    MaxContacts = 2
    MaxPersisted = 2
    NoRecord = NoRecord
    MaxChanges = 3
    Unset = Unset
    Seeds = {100}
    MaxDrawn = 4
    MaxNvsFaults = 2
    MaxPowerCycles = 3
SPECIFICATION RestartSpec
INVARIANTS
    RestartTypes
    UniqueIds
    StoresSurvive
    BootsVerified
    PowerAsReported
    NodeIsItself
SYMMETRY MCSymmetry
CHECK_DEADLOCK FALSE
