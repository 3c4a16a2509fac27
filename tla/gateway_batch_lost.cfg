\* A legacy publish while a batch is pending.
CONSTANTS
    Ids = {1}
    MaxVersion = 1
    MaxStamp = 1
    Batches = {b1}
    MaxItems = 1
    LegacyTraffic = TRUE
    Interrupts = FALSE
SPECIFICATION Spec
INVARIANT BatchIsKept
