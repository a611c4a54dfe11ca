CONSTANTS
    MinSpeech = 2
    MinSilence = 2
    PreRoll = 3
    Pad = 1
    Timeout = 4
    PartialTimeout = 5
    SilenceResetFrames = 6
    MaxChunks = 10
    MaxQueue = 1
SPECIFICATION Spec
PROPERTY ResetOnlyAfterSilence
CHECK_DEADLOCK FALSE
