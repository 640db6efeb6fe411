SPECIFICATION TrackSpec
CONSTANTS
    MaxReadings = 3
    MaxPending = 2
INVARIANTS
    TimerOwned
    NothingSilent
    InOrder
