\* Two pulls interleave: the checkpoint may fall behind the compacted log.
CONSTANTS
    Pullers = {p1, p2}
    EventBytes = {1}
    HeaderBytes = 1
    Reservation = 2
    MaxBytes = 3
    Legacy <- NoLogs
    Limit = 1
    PageBytes = 3
    PullBytes = 5
    MaxPages = 2
    MaxEvents = 2
    Failures = FALSE
SPECIFICATION FairSpec
PROPERTIES EveryEventIsStored
