SPECIFICATION Spec
CONSTANTS
    Conns = {c1, c2}
    None = None
    Async = TRUE
SYMMETRY Symmetry
INVARIANTS
    OwnerLive
    InputBlocked
    BeliefTracked
PROPERTIES
    Exclusive
