\* The pipe as tcpc uses it, while another thread allocates memory.
SPECIFICATION PipeSpec
CONSTANTS
    RbSize = 2
    ReadMax = 2
    WriteLens = {1}
    MaxBytes = 1
    AsFirmware = TRUE
INVARIANT HeapExclusive
CHECK_DEADLOCK FALSE
