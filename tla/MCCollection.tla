----------------------------- MODULE MCCollection ---------------------------
(***************************************************************************)
(* The collector for model checking: its jobs, and what its sources keep   *)
(* between two collections. A behaviour takes up one of them, which is     *)
(* chosen at the start: they share no state.                               *)
(***************************************************************************)
EXTENDS CollectionJobs, Naturals, FiniteSets

CONSTANTS
    NvdRecords, NvdPageSize, NvdMaxPages, NvdMaxClock,  \* the vulnerability database
    RssEntries, RssMaxEdition,                          \* the feed
    SocialLast, SocialBlank, SocialPageSize,            \* the channel or search
    SocialMaxPages, SocialMaxItems,
    MaxFaults                                           \* of any of them

\* A page has room for something and a collection reads at least one; there is
\* a first edition of the feed.
ASSUME SourcesAssumption ==
    /\ IsFiniteSet(NvdRecords)
    /\ {NvdPageSize, NvdMaxPages, RssMaxEdition, SocialPageSize, SocialMaxPages} \subseteq Nat \ {0}
    /\ {NvdMaxClock, SocialLast, SocialMaxItems, MaxFaults} \subseteq Nat

VARIABLES
    service,    \* what this behaviour takes up
    faults,
    nvdKind, nvdClock, nvdModified, nvdSaved, nvdRun, nvdCollected, nvdSlipped,
    nvdSkipped,
    rssFeed, rssStore, rssRun, rssDelivered, rssLost, rssFailed, rssSpoiled,
    socialKind, socialNewest, socialCheckpoint, socialKnown, socialRun,
    socialCut

Advisory == INSTANCE AdvisoryWindow WITH
    Records <- NvdRecords, PageSize <- NvdPageSize, MaxPages <- NvdMaxPages,
    MaxClock <- NvdMaxClock, kind <- nvdKind, clock <- nvdClock,
    modified <- nvdModified, saved <- nvdSaved, run <- nvdRun,
    collected <- nvdCollected, slipped <- nvdSlipped, skipped <- nvdSkipped

Feed == INSTANCE FeedCollection WITH
    Entries <- RssEntries, MaxEdition <- RssMaxEdition,
    feed <- rssFeed, store <- rssStore, run <- rssRun,
    delivered <- rssDelivered, lost <- rssLost, failed <- rssFailed,
    spoiled <- rssSpoiled

Social == INSTANCE SocialCheckpoint WITH
    Last <- SocialLast, Blank <- SocialBlank, PageSize <- SocialPageSize,
    MaxPages <- SocialMaxPages, MaxItems <- SocialMaxItems,
    kind <- socialKind, newest <- socialNewest,
    checkpoint <- socialCheckpoint, known <- socialKnown, run <- socialRun,
    cut <- socialCut

nvdVars == <<nvdKind, nvdClock, nvdModified, nvdSaved, nvdRun, nvdCollected,
             nvdSlipped, nvdSkipped>>
rssVars == <<rssFeed, rssStore, rssRun, rssDelivered, rssLost, rssFailed,
             rssSpoiled>>
socialVars == <<socialKind, socialNewest, socialCheckpoint, socialKnown,
                socialRun, socialCut>>

Services == {"jobs", "advisory", "feed", "social"}

ServicesInit ==
    /\ service \in Services
    /\ Init /\ Advisory!Init /\ Feed!Init /\ Social!Init
    /\ service # "social" => socialKind = "channel"
    /\ service # "advisory" => nvdKind = "index"

ServicesNext ==
    \/ /\ service = "jobs" /\ Next
       /\ UNCHANGED <<service, nvdVars, rssVars, socialVars, faults>>
    \/ /\ service = "advisory" /\ Advisory!Next
       /\ UNCHANGED <<service, vars, rssVars, socialVars>>
    \/ /\ service = "feed" /\ Feed!Next
       /\ UNCHANGED <<service, vars, nvdVars, socialVars>>
    \/ /\ service = "social" /\ Social!Next
       /\ UNCHANGED <<service, vars, nvdVars, rssVars>>

allVars == <<service, faults, vars, nvdVars, rssVars, socialVars>>

\* The fairness of each service, for a behaviour that takes it up.
ServicesFairness ==
    /\ Fairness
    /\ WF_nvdVars(service = "advisory" /\ Advisory!Begin)
    /\ WF_nvdVars(service = "advisory" /\ Advisory!ReadPage)
    /\ WF_nvdVars(service = "advisory" /\ Advisory!Finish)

ServicesSpec == ServicesInit /\ [][ServicesNext]_allVars /\ ServicesFairness

-----------------------------------------------------------------------------
\* Every variable has its type, in each of the services.
Typed == TypeOK /\ Advisory!TypeOK /\ Feed!TypeOK /\ Social!TypeOK

\* What the state of a source has passed was dealt with: the checkpoint of a
\* vulnerability database, the validators of a feed, the last message of a
\* channel.
CheckpointsAreHonest ==
    Advisory!CheckpointCovers /\ Feed!NothingIsPassedOver /\ Social!CheckpointIsHonest

\* Every version of a vulnerability record is collected in the end.
ChangesAreCollected == Advisory!ChangesAreCollected

\* No record of a feed is in the files of two collections.
HandedOverOnce == Feed!HandedOverOnce
=============================================================================
