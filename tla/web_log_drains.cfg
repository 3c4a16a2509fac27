\* One pull at a time, with every failure, from an empty or a legacy log.
CONSTANTS
    Pullers = {p1}
    EventBytes = {1, 2}
    HeaderBytes = 1
    Reservation = 2
    MaxBytes = 6
    Legacy <- OldLogs
    Limit = 2
    PageBytes = 3
    PullBytes = 5
    MaxPages = 2
    MaxEvents = 4
    Failures = TRUE
SPECIFICATION FairSpec
INVARIANTS CheckpointIsRetained RoomForAppend
PROPERTIES EveryEventIsStored AdmissionResumes
