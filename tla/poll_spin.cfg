\* The pipe as tcpc uses it; the writer's wake-up may come late.
SPECIFICATION TimedPipeSpec
CONSTANTS
    RbSize = 2
    ReadMax = 2
    WriteLens = {1}
    MaxBytes = 1
    AsFirmware = TRUE
PROPERTY SelectReturns
CHECK_DEADLOCK FALSE
