CONSTANTS
    h1 = h1
    h2 = h2
    Handles = {h1, h2}
    MaxConnections = 2
    MaxLinks = 2
    NoHandle = NoHandle
    EventCapacity = 3
    ResponseCapacity = 2
    Calls <- AllCalls
    MaxEvents = 5
    MaxResponses = 3
    p1 = p1
    p2 = p2
    p3 = p3
    Connections = {p1, p2, p3}
    MaxClients = 2
    MaxSockets = 4
    WifiModes = {"Ap", "Sta"}
    CountWidth = 5
    MaxWrites = 1
    Transports = {"UsbSerial", "Ble"}
    RouterBytes = {148, 195, 192}
    RouterSyncTimeout = 2
    RouterMaxLockCount = 3
    ProtocolsSet = {"Unknown", "RNode"}
    NoTransport = NoTransport
    ValuesOf <- MCValuesOf
    Defaults <- MCDefaults
    Asked = {"TxPower", "SpreadingFactor", "Bandwidth", "CodingRate", "Ldro", "CrcMode"}
    Unasked = Unasked
SPECIFICATION TransportSpec
INVARIANTS
    CountIsLinks
    EventsInOrder
    SocketsInSlots
    NetworkAsReported
    SettingsAgree
PROPERTY RadioIsKept
SYMMETRY MCSymmetry
