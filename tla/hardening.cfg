CONSTANTS
    Observers = {t1, t2, t3}
    Subsystems = {asr, vad}
    Handled = {asr}
    MaxRetries = 2
    Ceiling = 2
    Threshold = 2
    MaxCalls = 6
    Threads = {u1, u2}
    MaxSize = 2
    MaxEvents = 4
SPECIFICATION MCSpec
INVARIANT RetriesBounded
INVARIANT RestartsBounded
PROPERTY TelemetryInOrder
CHECK_DEADLOCK FALSE
