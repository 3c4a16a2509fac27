\* Two workers, an interactive and a backlog operation, everything may fail.
CONSTANTS
    None = None
    i1 = i1
    b1 = b1
    w1 = w1
    w2 = w2
    Interactive = {i1}
    Backlog = {b1}
    Workers = {w1, w2}
    Outages = TRUE
    Refusals = TRUE
    Replacements = FALSE
    Crashes = TRUE
    SlowWork = FALSE
    Batches <- SomeBatches
SPECIFICATION FairSpec
INVARIANTS ResumesWhereItStopped OneWorkerEach BacklogGivesWay
PROPERTIES CommittedIsFinal EveryOperationEnds
