SPECIFICATION Spec
CONSTANTS
    Conns = {c1}
    Displays = {d1, d2}
    MaxRounds = 1
    MaxSlack = 1
SYMMETRY Symmetry
INVARIANTS
    Backpressure
