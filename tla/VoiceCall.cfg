SPECIFICATION FairSpec
CONSTANTS
    MaxRequests = 3
    MaxQueue = 3
INVARIANTS
    MicAccepted
    AgreeWhenQuiet
    DeviceInCall
PROPERTIES
    Announced
    MicStops
CHECK_DEADLOCK FALSE
