------------------------------ MODULE MCBackend ------------------------------
(***************************************************************************)
(* What the backend takes from and hands to other programs, for model      *)
(* checking: the review exports it imports, the sensor's log it pulls, the *)
(* feed it reads and the events it delivers to MISP, beside the accounts   *)
(* that may ask for all this.  A behaviour takes up one of them, which is  *)
(* chosen at the start: they share no state.  The legacy snapshot of the   *)
(* Gateway's feed is the one that this module extends.                     *)
(***************************************************************************)
EXTENDS GatewayFeed, Sequences
LOCAL INSTANCE TLC

CONSTANTS None, MaxFaults,
    AccountNames, AccountRequests,
    MispEvents, MispAttributes, MispRequests, MispMaxRequests,
    ImportExports, ImportRecords, ImportRequests, ImportItems(_, _),
    ImportMaxRequests, ImportMaxRewrites,
    SensorAddresses, SensorPullers, SensorIdle, SensorLimit, SensorMaxLog,
    SensorMaxTime,
    FeedSnapshots, FeedBatches, FeedBatchItems, FeedPageSize, FeedMaxPages, FeedMaxStamp

VARIABLES
    service,    \* what this behaviour takes up
    faults,
    accountUsers, accountRequest, accountOvertaken,
    mispEvent, mispMisp, mispReq, mispAudit, mispStarted,
    importEdition, importRaw, importRuns, importReq, importAudit, importStored,
    importStarted,
    sensorLog, sensorWhole, sensorCursor, sensorRaw, sensorRows, sensorPull,
    sensorLate,
    feedFile, feedKnown, feedCache, feedEtag, feedOps, feedRead, feedStamp,
    feedDelivered

Users == INSTANCE BackendAccounts WITH
    Names <- AccountNames, Requests <- AccountRequests, users <- accountUsers,
    request <- accountRequest, overtaken <- accountOvertaken

Misp == INSTANCE MispDelivery WITH
    Events <- MispEvents, Attributes <- MispAttributes, Requests <- MispRequests,
    MaxRequests <- MispMaxRequests, event <- mispEvent, misp <- mispMisp,
    req <- mispReq, audit <- mispAudit, started <- mispStarted

Import == INSTANCE ReviewImport WITH
    Exports <- ImportExports, Records <- ImportRecords, Requests <- ImportRequests,
    Items <- ImportItems, MaxRequests <- ImportMaxRequests,
    MaxRewrites <- ImportMaxRewrites, edition <- importEdition, raw <- importRaw,
    runs <- importRuns, req <- importReq, audit <- importAudit,
    stored <- importStored, started <- importStarted

Sessions == INSTANCE SensorSessions WITH
    Addresses <- SensorAddresses, Pullers <- SensorPullers, Idle <- SensorIdle,
    Limit <- SensorLimit, MaxLog <- SensorMaxLog, MaxTime <- SensorMaxTime,
    log <- sensorLog, whole <- sensorWhole, cursor <- sensorCursor,
    raw <- sensorRaw, rows <- sensorRows, pull <- sensorPull, late <- sensorLate

Reading == INSTANCE FeedRead WITH
    Snapshots <- FeedSnapshots, Batches <- FeedBatches, BatchItems <- FeedBatchItems,
    PageSize <- FeedPageSize, MaxPages <- FeedMaxPages, MaxStamp <- FeedMaxStamp,
    file <- feedFile, known <- feedKnown, cache <- feedCache, etag <- feedEtag,
    ops <- feedOps, read <- feedRead, stamp <- feedStamp, delivered <- feedDelivered

\* What the feed may serve, and of what.
FeedServed == FeedSnapshots \cup {FeedBatchItems[b] : b \in FeedBatches}
FeedValues == UNION {{s[k] : k \in DOMAIN s} : s \in FeedServed}

\* For TLC: what is in an edition of the exports that are imported, and what
\* the feed serves, the snapshot and a batch.
ItemsOfExports(x, n) == IF x = "x1" THEN {<<"r1", 1>>, <<"r2", n>>} ELSE {<<"r1", 2>>}
SnapshotsServed      == {<<"i1", "i2">>}
BatchesServed        == [b \in {"b1"} |-> <<"i2", "i3">>]

accountVars == <<accountUsers, accountRequest, accountOvertaken>>
mispVars == <<mispEvent, mispMisp, mispReq, mispAudit, mispStarted>>
importVars == <<importEdition, importRaw, importRuns, importReq, importAudit,
                importStored, importStarted>>
sensorVars == <<sensorLog, sensorWhole, sensorCursor, sensorRaw, sensorRows,
                sensorPull, sensorLate>>
feedVars == <<feedFile, feedKnown, feedCache, feedEtag, feedOps, feedRead,
              feedStamp, feedDelivered>>

\* The bounds are numbers, the records of an export are finitely many and have
\* a content, the items of a feed are sequences, and what is not there is none
\* of what may be.
ASSUME BackendAssumption ==
    /\ {MaxFaults, MispMaxRequests, ImportMaxRequests, ImportMaxRewrites} \subseteq Nat
    /\ {SensorIdle, SensorLimit, SensorMaxLog, SensorMaxTime} \subseteq Nat
    /\ {FeedMaxPages, FeedMaxStamp} \subseteq Nat /\ FeedPageSize \in Nat \ {0}
    /\ IsFiniteSet(AccountNames) /\ None \notin AccountNames
    /\ \A row \in Users!Row : row # None
    /\ \A held \in SUBSET MispAttributes : held # None
    /\ \A x \in ImportExports : \A n \in 1..ImportMaxRewrites + 1 :
          /\ IsFiniteSet(ImportItems(x, n))
          /\ ImportItems(x, n) \subseteq ImportRecords \X (Nat \ {0})
    /\ Reading!Snapshot \notin FeedBatches /\ None \notin Reading!Bodies
    /\ \A s \in FeedServed : s \in Seq(FeedValues)

Services == {"feed", "accounts", "misp", "import", "sessions", "feedread"}

BackendInit ==
    /\ service \in Services /\ Init
    /\ Users!Init /\ Misp!Init /\ Import!Init /\ Sessions!Init /\ Reading!Init
    /\ service # "sessions" => sensorWhole
    /\ service # "misp" => \A e \in MispEvents : mispEvent[e] = None

BackendNext ==
    \/ /\ service = "feed" /\ Next
       /\ UNCHANGED <<service, faults, accountVars, mispVars, importVars,
                     sensorVars, feedVars>>
    \/ /\ service = "accounts" /\ Users!Next
       /\ UNCHANGED <<service, vars, faults, mispVars, importVars,
                     sensorVars, feedVars>>
    \/ /\ service = "misp" /\ Misp!Next
       /\ UNCHANGED <<service, vars, accountVars, importVars, sensorVars,
                     feedVars>>
    \/ /\ service = "import" /\ Import!Next
       /\ UNCHANGED <<service, vars, accountVars, mispVars, sensorVars,
                     feedVars>>
    \/ /\ service = "sessions" /\ Sessions!Next
       /\ UNCHANGED <<service, vars, accountVars, mispVars, importVars,
                     feedVars>>
    \/ /\ service = "feedread" /\ Reading!Next
       /\ UNCHANGED <<service, vars, accountVars, mispVars, importVars,
                     sensorVars>>

allVars == <<service, faults, vars, accountVars, mispVars, importVars, sensorVars,
             feedVars>>

BackendSpec == BackendInit /\ [][BackendNext]_allVars

\* For TLC, with the same two requests in each service: none tells them apart.
Symmetry == Permutations(AccountRequests)

-----------------------------------------------------------------------------
\* Every variable has its type.
Typed ==
    /\ TypeOK /\ Users!TypeOK /\ Misp!TypeOK /\ Import!TypeOK /\ Sessions!TypeOK
    /\ Reading!TypeOK

\* Once there was an administrator, there is one; unless a request took the last
\* one away that had counted another, whom a request beside it had taken away.
AdminRemains == Users!AdminRemains

\* What was said to be done was done: what the audit log calls delivered is in
\* MISP, a run imported one edition of its export and all of it, what was
\* acknowledged at the Gateway is what was imported, and an alert that the
\* cursor has passed is stored and in a session, if that was not stored over.
StoredIsTrue ==
    /\ Misp!DeliveredIsStored
    /\ Import!ImportsOneEdition
    /\ Import!CompletedRunStored
    /\ Reading!AckedIsTheBody
    /\ Sessions!PassedIsInASession

\* What an earlier delivery left in MISP is no reason for one to fail.
RepeatIsIdempotent == Misp!RepeatIsIdempotent
=============================================================================
