CONSTANTS
    MaxGen = 3
    MaxRetries = 2
    Configures = {TRUE, FALSE}
SPECIFICATION Spec
INVARIANT OneWakePerStream
INVARIANT NewUtteranceNotSuppressed
INVARIANT ActiveAfterReset
PROPERTY ImplementsGate
