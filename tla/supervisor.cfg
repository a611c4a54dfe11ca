CONSTANTS
    Workers = {w1, w2, w3}
    Limits = {1}
    DefaultMaxRestarts = 3
    None = None
SPECIFICATION FairSpec
INVARIANT OneWorker
INVARIANT ThrottleNeedsHangs
PROPERTY CrashRecovered
PROPERTY HangEnds
PROPERTY NoZombieWorker
CHECK_DEADLOCK FALSE
