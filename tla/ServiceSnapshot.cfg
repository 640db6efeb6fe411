SPECIFICATION LiveSpec
CONSTANTS
    Conns = {c1, c2}
    States = {arrow, hand}
    Nothing = Nothing
    NeedSnapshot = TRUE
INVARIANTS
    Disjoint
    InSync
    RevokeHolds
PROPERTIES
    Promoted
    ResetWhenIdle
    JoinTerminates
    ImplementsSubscription
