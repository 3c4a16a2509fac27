---------------------------- MODULE GatewayFeed ----------------------------
(***************************************************************************)
(* The external feed of the VPS Gateway (infra/vps/gateway/app.py): the    *)
(* legacy snapshot that publishers merge into, the immutable batches that  *)
(* replaced it, and the one delivery file, external_feed_delivery.json,    *)
(* that both protocols write.                                              *)
(*                                                                         *)
(* A handler holds app.state.write_lock and does not await while it        *)
(* touches the files, so a request is one step.  The exception is a        *)
(* publish: it replaces two files one after the other, and the process may *)
(* stop (or the second write may raise) in between.  Nothing here survives *)
(* in memory, so a restart changes no variable.                            *)
(*                                                                         *)
(* Abstractions.  An item's content and its collected_at are one number,   *)
(* later contents being collected later.  A SHA-256 checkpoint is the      *)
(* content it digests.  Every item weighs one unit of the capacity.  A     *)
(* rejected request (4xx) changes nothing and is not a step.               *)
(***************************************************************************)
EXTENDS Integers, FiniteSets

CONSTANTS
    Ids,            \* external_id values: naturals, their order is the string order
    MaxVersion,     \* contents an item may have: 1..MaxVersion
    MaxStamp,       \* generated_at values of an envelope: 1..MaxStamp
    Batches,        \* complete export identities (job, run, dataset digest)
    MaxItems,       \* max_feed_items
    LegacyTraffic,  \* some publisher or reader still uses the legacy snapshot
    Interrupts      \* a publish may stop between its two file replacements

ASSUME ConstantsAssumption ==
    /\ Ids \subseteq Nat /\ IsFiniteSet(Ids)
    /\ MaxVersion \in Nat \ {0} /\ MaxStamp \in Nat \ {0}
    /\ MaxItems \in Nat
    /\ LegacyTraffic \in BOOLEAN /\ Interrupts \in BOOLEAN

VARIABLES
    snapshot,   \* external_feed.json: its generated_at and its items
    delivery,   \* external_feed_delivery.json, schema "v1" or "v2"
    batchFile,  \* external_feed_batches/<key>.json: the stamp it was written with, 0 if none
    seen,       \* what the legacy reader last received: the ETag and the items
    acked,      \* the <<id, version>> pairs an accepted acknowledgement covered
    receipt     \* the checkpoint a publisher of the batch was answered, 0 if none

vars == <<snapshot, delivery, batchFile, seen, acked, receipt>>

Version == 1..MaxVersion
Stamp   == 1..MaxStamp
Items   == [Ids -> 0..MaxVersion]           \* 0: the item is absent
Empty   == [i \in Ids |-> 0]
Held(items) == {i \in Ids : items[i] # 0}

Snapshot   == [gen : 0..MaxStamp, items : Items]
NoSnapshot == [gen |-> 0, items |-> Empty]  \* the file does not exist
Exists(s)  == s.gen # 0

Entry   == [status : {"none", "pending", "acknowledged"}, checkpoint : 0..MaxStamp]
NoEntry == [status |-> "none", checkpoint |-> 0]
NoEntries == [b \in Batches |-> NoEntry]

\* One file, two schemas.  The fields of the other schema are at their zero.
Delivery == [schema  : {"absent", "v1", "v2"},
             etag    : Snapshot,    \* v1 snapshot_etag, v2 legacy_backlog.checkpoint
             unacked : SUBSET Ids,  \* v1 unacknowledged_ids, v2 legacy_backlog.protected_ids
             entries : [Batches -> Entry]]
NoDelivery == [schema |-> "absent", etag |-> NoSnapshot, unacked |-> {}, entries |-> NoEntries]

\* What _write_feed_delivery_state leaves in the file.
DeliveryV1(etag, unacked) ==
    [schema |-> "v1", etag |-> etag, unacked |-> unacked, entries |-> NoEntries]

---------------------------------------------------------------------------
(* What the files mean to the code that reads them.                        *)

\* Mutation: the state is believed whatever snapshot it was written for.
LoadDeliveryState_AnyEtag(s, d) ==
    IF d.schema = "v1" THEN d.unacked \cap Held(s.items) ELSE Held(s.items)

\* _load_feed_delivery_state: a missing, stale or v2 state protects every item.
LoadDeliveryState(s, d) ==
    IF d.schema = "v1" /\ d.etag = s
    THEN d.unacked \cap Held(s.items)
    ELSE Held(s.items)

Protected == LoadDeliveryState(snapshot, delivery)

\* Mutation: every batch request starts from an empty state.
LoadBatchState_Fresh ==
    [schema |-> "v2", etag |-> NoSnapshot, unacked |-> {}, entries |-> NoEntries]

\* _load_batch_state: a state that is not v2 is read as an empty set of batches
\* beside a backlog that refers to the snapshot; no protected id means all of them.
LoadBatchState ==
    IF delivery.schema = "v2" THEN delivery
    ELSE LET known == IF delivery.schema = "v1" /\ delivery.etag = snapshot
                      THEN delivery.unacked ELSE {}
         IN  [schema  |-> "v2", etag |-> snapshot, entries |-> NoEntries,
              unacked |-> IF ~Exists(snapshot) THEN {}
                          ELSE IF known # {} THEN known ELSE Held(snapshot.items)]

\* _known_feed_checkpoint for the snapshot, or else the digest of the file.
KnownCheckpoint ==
    IF delivery.schema # "absent" /\ Exists(delivery.etag) THEN delivery.etag ELSE snapshot

---------------------------------------------------------------------------
(* The legacy snapshot.                                                    *)

\* Mutation: the incoming items replace the snapshot.
Merge_Replaces(old, new) == new

Merge(old, new) == [i \in Ids |-> IF new[i] # 0 THEN new[i] ELSE old[i]]
Touched(old, new) == {i \in Ids : new[i] # 0 /\ new[i] # old[i]}

\* _retention_key: oldest collected_at first, the identity breaks ties.
Older(items, i, j) ==
    items[i] < items[j] \/ (items[i] = items[j] /\ i < j)

\* The ids the merge drops: as many as exceed the capacity, oldest first, and
\* never a protected one.  Without enough of them the publish is a 413.
IsPruned(pruned, items, protected) ==
    LET candidates == Held(items) \ protected
        excess     == Cardinality(Held(items)) - MaxItems
    IN  /\ pruned \subseteq candidates
        /\ Cardinality(pruned) = IF excess > 0 THEN excess ELSE 0
        /\ \A i \in pruned, j \in candidates \ pruned : Older(items, i, j)

Retain(items, pruned) == [i \in Ids |-> IF i \in pruned THEN 0 ELSE items[i]]

\* publish_external_feed without an identity: _merge_feed_snapshot, the new
\* snapshot, then the v1 state over whatever the delivery file held.
PublishLegacy(incoming, gen, done) ==
    /\ LegacyTraffic /\ Cardinality(Held(incoming)) <= MaxItems
    /\ LET protected == Protected \cup Touched(snapshot.items, incoming)
           merged    == Merge(snapshot.items, incoming)
       IN  \E pruned \in SUBSET Ids :
             /\ IsPruned(pruned, merged, protected)
             /\ snapshot' = [gen |-> gen, items |-> Retain(merged, pruned)]
             /\ IF done THEN delivery' = DeliveryV1(snapshot', protected \cap Held(snapshot'.items))
                        ELSE UNCHANGED delivery
    /\ UNCHANGED <<batchFile, seen, acked, receipt>>

\* Mutation: any checkpoint the reader was given will do.
IsCurrent_Any(checkpoint) == Exists(checkpoint)

\* The checkpoint is compared with the digest of the file, not with the state.
IsCurrent(checkpoint) == Exists(snapshot) /\ checkpoint = snapshot

AreKnown(ids) == ids \subseteq Held(snapshot.items)

Remaining(ids) == Protected \ ids

\* _acknowledge_feed_delivery.  A restricted acknowledgement names some ids, a
\* complete one names them all; the v1 state replaces the delivery file.
AckLegacy(checkpoint, ids) ==
    /\ LegacyTraffic
    /\ IsCurrent(checkpoint) /\ AreKnown(ids)
    /\ delivery' = DeliveryV1(snapshot, Remaining(ids))
    /\ acked' = acked \cup {<<i, snapshot.items[i]>> : i \in ids}
    /\ UNCHANGED <<snapshot, batchFile, seen, receipt>>

\* external_feed with If-None-Match: 304, and the reader keeps what it has.
NotModified == KnownCheckpoint = seen.etag

\* external_feed without an identity, answered 200.  The worker looks for work
\* with the ETag it saved, and imports what it found without one.
FetchLegacy(conditional) ==
    /\ LegacyTraffic
    /\ Exists(snapshot) /\ conditional => ~NotModified
    /\ seen' = [etag |-> KnownCheckpoint, items |-> snapshot.items]
    /\ UNCHANGED <<snapshot, delivery, batchFile, acked, receipt>>

---------------------------------------------------------------------------
(* Immutable batches.                                                      *)

IsNewBatch(b) == LoadBatchState.entries[b].status = "none"

\* Mutation: a replayed publish makes the batch pending again.
RepublishBatch_Reopens(b) ==
    /\ ~IsNewBatch(b)
    /\ receipt' = [receipt EXCEPT ![b] = LoadBatchState.entries[b].checkpoint]
    /\ delivery' = [LoadBatchState EXCEPT !.entries[b].status = "pending"]
    /\ UNCHANGED <<snapshot, batchFile, seen, acked>>

\* _publish_batch of an identity that is known: the stored checkpoint is the answer.
RepublishBatch(b) ==
    /\ ~IsNewBatch(b)
    /\ receipt' = [receipt EXCEPT ![b] = LoadBatchState.entries[b].checkpoint]
    /\ UNCHANGED <<snapshot, delivery, batchFile, seen, acked>>

\* _publish_batch of a new identity: the batch file, then the v2 state.
PublishBatch(b, gen, done) ==
    /\ IsNewBatch(b)
    /\ batchFile' = [batchFile EXCEPT ![b] = gen]
    /\ IF done
       THEN /\ delivery' = [LoadBatchState EXCEPT
                              !.entries[b] = [status |-> "pending", checkpoint |-> gen]]
            /\ receipt' = [receipt EXCEPT ![b] = gen]
       ELSE UNCHANGED <<delivery, receipt>>
    /\ UNCHANGED <<snapshot, seen, acked>>

\* _acknowledge_batch of the whole batch; a partial one is refused.
AckBatch(b, checkpoint) ==
    /\ ~IsNewBatch(b)
    /\ LoadBatchState.entries[b].checkpoint = checkpoint
    /\ delivery' = [LoadBatchState EXCEPT !.entries[b].status = "acknowledged"]
    /\ UNCHANGED <<snapshot, batchFile, seen, acked, receipt>>

---------------------------------------------------------------------------
Init ==
    /\ snapshot = NoSnapshot
    /\ delivery = NoDelivery
    /\ batchFile = [b \in Batches |-> 0]
    /\ seen = [etag |-> NoSnapshot, items |-> Empty]
    /\ acked = {}
    /\ receipt = [b \in Batches |-> 0]

Outcomes == IF Interrupts THEN BOOLEAN ELSE {TRUE}

Next ==
    \/ \E incoming \in Items, gen \in Stamp, done \in Outcomes : PublishLegacy(incoming, gen, done)
    \/ \E ids \in SUBSET Ids : AckLegacy(seen.etag, ids)
    \/ \E conditional \in BOOLEAN : FetchLegacy(conditional)
    \/ \E b \in Batches : RepublishBatch(b)
    \/ \E b \in Batches, gen \in Stamp, done \in Outcomes : PublishBatch(b, gen, done)
    \/ \E b \in Batches : receipt[b] # 0 /\ AckBatch(b, receipt[b])

Spec == Init /\ [][Next]_vars

---------------------------------------------------------------------------
TypeOK ==
    /\ snapshot \in Snapshot
    /\ delivery \in Delivery
    /\ batchFile \in [Batches -> 0..MaxStamp]
    /\ seen \in [etag : Snapshot, items : Items]
    /\ acked \subseteq Ids \X Version
    /\ receipt \in [Batches -> 0..MaxStamp]

\* A v1 state that left an item of its snapshot out of unacknowledged_ids did
\* so because that very content was acknowledged, whichever snapshot is on disk.
StateIsHonest ==
    delivery.schema = "v1" =>
        \A i \in Held(delivery.etag.items) \ delivery.unacked :
            <<i, delivery.etag.items[i]>> \in acked

\* _merge_feed_snapshot "without evicting unacknowledged records", the state it
\* relies on: an item of the snapshot whose content nobody acknowledged is
\* protected, through interrupted publishes and through the switch of schema.
UnackedIsProtected ==
    \A i \in Held(snapshot.items) :
        <<i, snapshot.items[i]>> \notin acked => i \in Protected

\* The same promise as a step: an item leaves the snapshot only after the
\* content it leaves with was acknowledged.
EvictedWasAcked ==
    [][\A i \in Ids : snapshot.items[i] # 0 /\ snapshot'.items[i] = 0
                         => <<i, snapshot.items[i]>> \in acked]_vars

\* A reader that holds the snapshot its checkpoint names acknowledges the
\* contents it was given, and no others: an acknowledgement that arrives after
\* the snapshot has changed is refused.
AckCoversSeen ==
    [][seen.items = seen.etag.items
         => \A pair \in acked' \ acked : seen.items[pair[1]] = pair[2]]_vars

\* infra/vps/README.md: "An identical External Feed returns HTTP 304".  A 304
\* is only given to a reader that has what the snapshot holds.
NotModifiedIsIdentical ==
    LegacyTraffic /\ Exists(snapshot) /\ NotModified => seen.items = snapshot.items

\* docs/api/external_feed_contract.md: "The Gateway stores each identity as an
\* immutable batch and never merges another export into it".  A publisher that
\* was answered finds the batch, with the checkpoint it was given, for ever.
BatchIsKept ==
    \A b \in Batches : receipt[b] # 0 =>
        /\ delivery.schema = "v2"
        /\ delivery.entries[b].status # "none"
        /\ delivery.entries[b].checkpoint = receipt[b]
        /\ batchFile[b] = receipt[b]

\* An acknowledged batch is never delivered again: a replayed publish of its
\* identity leaves the acknowledgement and the checkpoint in place.
BatchAckIsFinal ==
    [][\A b \in Batches : delivery.entries[b].status = "acknowledged"
                            => delivery'.entries[b] = delivery.entries[b]]_vars

\* The merged snapshot implements a feed that loses nothing unacknowledged,
\* through publishes, interruptions, acknowledgements and the batches beside it.
SnapshotFeed == INSTANCE RetainedFeed WITH
    Keys <- Ids, Values <- Version, None <- 0,
    held <- snapshot.items, acked <- acked

SnapshotIsRetained == SnapshotFeed!Spec

=============================================================================
