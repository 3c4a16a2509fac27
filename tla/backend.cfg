\* The legacy snapshot under interrupted publishes, with a batch beside it; and
\* what the backend takes from and hands to other programs.
CONSTANTS
    None = none
    Ids = {1, 2}
    MaxVersion = 2
    MaxStamp = 2
    Batches = {b1}
    MaxItems = 1
    LegacyTraffic = TRUE
    Interrupts = TRUE
    MaxFaults = 1
    AccountNames = {"ann", "bob"}
    AccountRequests = {q1, q2}
    MispEvents = {"e1"}
    MispAttributes = {"a1", "a2"}
    MispRequests = {q1, q2}
    MispMaxRequests = 2
    ImportExports = {"x1", "x2"}
    ImportRecords = {"r1", "r2"}
    ImportRequests = {q1, q2}
    ImportItems <- ItemsOfExports
    ImportMaxRequests = 2
    ImportMaxRewrites = 1
    SensorAddresses = {"a1"}
    SensorPullers = {q1, q2}
    SensorIdle = 1
    SensorLimit = 2
    SensorMaxLog = 3
    SensorMaxTime = 3
    FeedSnapshots <- SnapshotsServed
    FeedBatches = {"b1"}
    FeedBatchItems <- BatchesServed
    FeedPageSize = 1
    FeedMaxPages = 2
    FeedMaxStamp = 3
SPECIFICATION BackendSpec
INVARIANTS Typed UnackedIsProtected StoredIsTrue
PROPERTIES AckCoversSeen SnapshotIsRetained AdminRemains RepeatIsIdempotent
SYMMETRY Symmetry
CHECK_DEADLOCK FALSE
