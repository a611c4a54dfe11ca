CONSTANTS
    MaxGen = 4
    MaxRetries = 2
    Configures = {}
SPECIFICATION Spec
PROPERTY DeadWorkerRecovered
