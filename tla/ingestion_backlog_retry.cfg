\* An outage in the middle of a backlog import.
CONSTANTS
    None = None
    b1 = b1
    w1 = w1
    Interactive = {}
    Backlog = {b1}
    Workers = {w1}
    Outages = TRUE
    Refusals = FALSE
    Replacements = FALSE
    Crashes = FALSE
    SlowWork = FALSE
    Batches <- SomeBatches
SPECIFICATION FairSpec
PROPERTIES EveryOperationCompletes
