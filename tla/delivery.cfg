CONSTANTS
    Guaranteed = {g}
    Retry = {r}
    Conns = {c1, c2}
    MaxRetries = 1
    Retrier = Retrier
    None = None
SPECIFICATION FairSpec
INVARIANT LostOnlyByClear
INVARIANT HeldOnce
INVARIANT NothingStranded
PROPERTY PendingSettles
CHECK_DEADLOCK FALSE
