SPECIFICATION FairSpec
CONSTANTS
    h1 = h1
    h2 = h2
    NoHost = NoHost
    Hosts <- MCHosts
    Taken <- MCTaken
    MaxId = 6
    MaxFaults = 1
    MaxChanges = 1
    MaxStrategies = 1
    MaxLosses = 1
INVARIANTS
    SolverRuns
    ChangeNoticed
PROPERTIES
    Settles
