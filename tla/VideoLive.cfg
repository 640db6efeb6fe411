SPECIFICATION LiveSpec
CONSTANTS
    Conns = {c1, c2}
    Displays = {d1}
    MaxRounds = 2
    MaxSlack = 0
INVARIANTS
    KeyFrameFirst
PROPERTIES
    GivesUpOnMissing
    FlowsOn
    StopsUnwatched
