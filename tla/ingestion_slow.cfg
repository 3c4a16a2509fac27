\* Leases expire while their holder is still at work.
CONSTANTS
    None = None
    b1 = b1
    i1 = i1
    w1 = w1
    w2 = w2
    Interactive = {i1}
    Backlog = {b1}
    Workers = {w1, w2}
    Outages = FALSE
    Refusals = TRUE
    Replacements = TRUE
    Crashes = FALSE
    SlowWork = TRUE
    Batches <- SomeBatches
SPECIFICATION Spec
PROPERTIES PersistsThenAcks
