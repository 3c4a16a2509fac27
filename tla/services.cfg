\* The services beside the ones that have a run of their own; of the feed, its
\* batches alone, with interrupted publishes and replays.
CONSTANTS
    None = none
    NoAnswer = noAnswer
    Parties = {q1, q2}
    Ids = {1}
    MaxVersion = 1
    MaxStamp = 3
    Batches = {b1, b2, b3}
    MaxItems = 1
    LegacyTraffic = FALSE
    Interrupts = TRUE
SPECIFICATION ServicesSpec
INVARIANTS Typed DecisionsHold BatchIsKept CommandsHold  ResultsHold ModelsHold
PROPERTIES DecisionIsKept RetiredIsNotExported BatchAckIsFinal
SYMMETRY Symmetry
CHECK_DEADLOCK FALSE
