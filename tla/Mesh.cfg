CONSTANTS
    h1 = h1
    h2 = h2
    h3 = h3
    h4 = h4
    h5 = h5
    h6 = h6
    RingSize = 4
    EmptySlot = h1
    Hashes <- MCHashes
    Ends = {"alice", "bob"}
    Initiator = "alice"
    RatchetAfter = 2
    MaxSkippedKeys = 2
    NoSession = NoSession
    MaxSends <- MCSends
    MaxFaults = 1
    n1 = n1
    n2 = n2
    n3 = n3
    n4 = n4
    Nodes = {n1, n2, n3, n4}
    HintOf <- MCHints
    Destination = n3
    MinHops = 3
    MaxHops = 4
    LayerCap = 4
    MaxRelays = 3
    TextSizes = {138, 139, 150, 151, 193, 241, 257}
    PayloadSizes = {10, 11}
    MaxTexts = 1
    k1 = k1
    k2 = k2
    k3 = k3
    k4 = k4
    PublicKeys = {k1, k2, k3, k4}
    Networks = {"MeshCore", "Meshtastic", "Reticulum"}
    AddressOf <- MCAddresses
    MaxKnown = 3
    MeshNodes = {300000001, 300000002}
    Broadcast = 2147483647
    ChannelKeys = {k1, k2}
    OwnerOf <- MCOwners
    AppMessages <- MCAppMessages
    Texts <- MCTexts
    Positions <- MCPositions
    IdModulus = 3
    MaxMeshWork = 2
    MaxMeshRestarts = 1
    Routers = {"a", "b", "c"}
    Links <- MCLinks
    Origin = "a"
    Everyone = "all"
    PacketIds = {1, 2, 3}
    CacheSize = 2
    MaxAge = 0
    HopLimit = 2
    MaxRouteClock = 1
    CodecMessages <- MCCodecMessages
SPECIFICATION MeshSpec
INVARIANTS
    MeshTypes
    EndsKeepInStep
    KeysServeOnce
    OwedArrivesWhole
    OnionInOrder
    IndexesAgree
    HeardAsMeant
    ConfigIsTrue
    HopsAreSpent
    ReadsWhatItWrote
PROPERTIES
    ImplementsWindow
    ForwardedOnce
CHECK_DEADLOCK FALSE
