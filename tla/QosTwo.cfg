SPECIFICATION FairSpec
CONSTANTS
    Users = {u1, u2}
    NormalDelays = {20}
    BadDelays = {}
    SlowDelay = 1200
    LateDelay = 2400
    FpsOptions = {}
    Qualities = {}
    MIN_SAMPLES = 2
    WINDOW_SAMPLES = 3
    MaxBad = 0
    MaxChanges = 2
PROPERTY
    AllRecover
