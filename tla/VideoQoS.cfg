SPECIFICATION FairSpec
CONSTANTS
    Users = {u1, u2}
    NormalDelays = {20}
    BadDelays = {225}
    SlowDelay = 1200
    LateDelay = 2400
    FpsOptions = {12}
    Qualities = {"low"}
    MIN_SAMPLES = 2
    WINDOW_SAMPLES = 3
    MaxBad = 1
    MaxChanges = 2
INVARIANTS
    TypeOK
    DelayedCaps
PROPERTY
    AloneRecovers
