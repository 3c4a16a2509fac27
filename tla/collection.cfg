\* The collector's jobs, and the incremental collection of its sources.
CONSTANTS
    Jobs = {j1, j2}
    Threads = {front, back}
    NoJob = noJob
    Interactive = front
    Sources = {s1}
    Roots = {r1}
    NoPlace = noPlace
    NvdRecords = {"r1", "r2", "r3"}
    NvdPageSize = 1
    NvdMaxPages = 2
    NvdMaxClock = 4
    RssEntries = {"e1", "e2"}
    RssMaxEdition = 3
    SocialLast = 6
    SocialBlank = {2, 5}
    SocialPageSize = 2
    SocialMaxPages = 2
    SocialMaxItems = 3
    MaxFaults = 2
SPECIFICATION ServicesSpec
INVARIANTS Typed LockIsOwned CancellationIsKept CompletedWasExported 
PROPERTIES JobsSettle  HandedOverOnce
