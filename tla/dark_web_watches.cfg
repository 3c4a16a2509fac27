CONSTANTS
    Jobs = {j1, j2}
    NoJob = noJob
    Procs = {p1, p2}
    Threads <- MCThreads
    Watches = {w1}
    Occurrences = {o1}
    WatchOf <- MCWatchOf
    Asked = {p1}
    Nothing = nothing
    Nobody = nobody
    Gone = gone
    MaxFaults = 1
SPECIFICATION FairSpec
INVARIANTS CompletedWasScanned OneScanPerWatch
PROPERTIES SettledIsFinal EveryOccurrenceSettles
