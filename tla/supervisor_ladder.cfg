CONSTANTS
    Workers = {w1, w2, w3}
    Limits = {5}
    DefaultMaxRestarts = 5
    None = None
SPECIFICATION MCSpec
INVARIANT EscalatesAsDocumented
CHECK_DEADLOCK FALSE
