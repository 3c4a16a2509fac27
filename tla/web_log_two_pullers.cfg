\* Two pulls that interleave, with every failure, and an event no pull accepts.
CONSTANTS
    Pullers = {p1, p2}
    EventBytes = {1, 2}
    HeaderBytes = 1
    Reservation = 2
    MaxBytes = 6
    Legacy <- LargeEvent
    Limit = 1
    PageBytes = 3
    PullBytes = 3
    MaxPages = 2
    MaxEvents = 3
    Failures = TRUE
SPECIFICATION Spec
INVARIANTS PrunedWasStored
