CONSTANTS
    Ends = {"alice", "bob"}
    Initiator = "alice"
    RatchetAfter = 2
    MaxSkippedKeys = 2
    NoSession = NoSession
    MaxSends <- MCSends
    MaxFaults = 1
SPECIFICATION SessionSpec
INVARIANT OpensWhatArrives
CHECK_DEADLOCK FALSE
