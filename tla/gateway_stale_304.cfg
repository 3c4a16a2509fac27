\* A legacy publish that stops between its two writes.
CONSTANTS
    Ids = {1}
    MaxVersion = 1
    MaxStamp = 2
    Batches = {b1}
    MaxItems = 1
    LegacyTraffic = TRUE
    Interrupts = TRUE
SPECIFICATION Spec
INVARIANT NotModifiedIsIdentical
