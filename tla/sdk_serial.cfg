CONSTANTS
    Starts = {s1, s2}
    Stops = {k1}
    MaxAttempts = 1
    SerialCaller = TRUE
    None = None
SPECIFICATION MCFairSpec
CHECK_DEADLOCK FALSE
PROPERTY UncaughtOnlyFromLeftovers
PROPERTY RecoveryEnds
PROPERTY StartSettles
