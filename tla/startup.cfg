CONSTANTS
    Procs = {p1, p2}
    Parts = {python, libs}
    Needed = {python, libs}
    Sources = 2
    None = None
    Clients = {c1, c2}
    NModels = 1
    Attempts = 2
    Versions = {0, 1, 2, 3, 4, 5}
SPECIFICATION MCSpec
INVARIANT MutualExclusion
INVARIANT AdoptedRuntimeWorks
INVARIANT TrustedSumsAreTrue
INVARIANT DoneMeansIntact
PROPERTY BootstrapEnds
PROPERTY PhaseEnds
CHECK_DEADLOCK FALSE
