CONSTANTS
    Starts = {s1, s2}
    Stops = {k1}
    MaxAttempts = 2
    SerialCaller = FALSE
    None = None
SPECIFICATION MCSpec
CHECK_DEADLOCK FALSE
SYMMETRY Symmetry
INVARIANT TypeOK
INVARIANT ActiveHasTransport
INVARIANT TrackedSupervisorIsCurrent
INVARIANT ConnectedWhenActive
PROPERTY ReconnectNeverUnpauses
