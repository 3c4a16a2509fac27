-------------------------- MODULE GatewayFeedProofs --------------------------
(***************************************************************************)
(* What GatewayFeed guarantees for every set of ids, versions and batches. *)
(*                                                                         *)
(* The capacity arithmetic plays no part: the argument only uses that a    *)
(* pruned id is not a protected one (PrunedIsUnprotected).  The retention  *)
(* of unacknowledged items rests on StateIsHonest, which speaks of the     *)
(* snapshot the v1 state was written for, so that a publish that replaces  *)
(* the snapshot and stops leaves it untouched.  Batches are a table of     *)
(* their own, which only legacy traffic overwrites.                        *)
(***************************************************************************)
EXTENDS GatewayFeed, TLAPS

USE DEF Version, Stamp

\* _merge_feed_snapshot takes its victims among the safe candidates only.
LEMMA PrunedIsUnprotected ==
    ASSUME NEW pruned, NEW items, NEW protected, IsPruned(pruned, items, protected)
    PROVE  pruned \subseteq Held(items) \ protected
BY DEF IsPruned

\* What the two kinds of writes leave in the delivery file is well formed.
LEMMA WritesTyped ==
    /\ NoEntries \in [Batches -> Entry]
    /\ \A etag \in Snapshot, unacked \in SUBSET Ids : DeliveryV1(etag, unacked) \in Delivery
BY ConstantsAssumption DEF NoEntries, NoEntry, Entry, DeliveryV1, Delivery

\* The readings of the delivery file stay within the types of the model.
LEMMA ReadingsTyped ==
    ASSUME TypeOK
    PROVE  /\ Protected \subseteq Held(snapshot.items)
           /\ Held(snapshot.items) \subseteq Ids
           /\ LoadBatchState \in Delivery
           /\ KnownCheckpoint \in Snapshot
<1>1. Protected \subseteq Held(snapshot.items)
  BY DEF Protected, LoadDeliveryState
<1>2. Held(snapshot.items) \subseteq Ids
  BY DEF Held
<1>3. LoadBatchState \in Delivery
  <2> DEFINE known == IF delivery.schema = "v1" /\ delivery.etag = snapshot
                      THEN delivery.unacked ELSE {}
             unacked == IF ~Exists(snapshot) THEN {}
                        ELSE IF known # {} THEN known ELSE Held(snapshot.items)
  <2>1. unacked \in SUBSET Ids
    BY <1>2 DEF TypeOK, Delivery
  <2>2. [schema |-> "v2", etag |-> snapshot, entries |-> NoEntries, unacked |-> unacked] \in Delivery
    BY <2>1, WritesTyped DEF TypeOK, Delivery
  <2>3. QED
    BY <2>2 DEF LoadBatchState, TypeOK
<1>4. KnownCheckpoint \in Snapshot
  BY DEF TypeOK, KnownCheckpoint, Delivery
<1>5. QED
  BY <1>1, <1>2, <1>3, <1>4

\* Every value the model stores has the type the code gives it.
THEOREM Typing == Spec => []TypeOK
<1>1. Init => TypeOK
  BY ConstantsAssumption DEF Init, TypeOK, NoSnapshot, NoDelivery, Snapshot, Delivery,
     Items, Empty, NoEntries, NoEntry, Entry
<1>2. TypeOK /\ [Next]_vars => TypeOK'
  <2> SUFFICES ASSUME TypeOK, [Next]_vars PROVE TypeOK'
    OBVIOUS
  <2>0. /\ Protected \subseteq Ids
        /\ LoadBatchState \in Delivery
        /\ KnownCheckpoint \in Snapshot
    BY ReadingsTyped
  <2>1. ASSUME NEW incoming \in Items, NEW gen \in Stamp, NEW done \in Outcomes,
               PublishLegacy(incoming, gen, done)
        PROVE  TypeOK'
    <3> DEFINE protected == Protected \cup Touched(snapshot.items, incoming)
               merged    == Merge(snapshot.items, incoming)
    <3>1. PICK pruned \in SUBSET Ids :
             /\ snapshot' = [gen |-> gen, items |-> Retain(merged, pruned)]
             /\ delivery' \in {delivery, DeliveryV1(snapshot', protected \cap Held(snapshot'.items))}
      BY <2>1 DEF PublishLegacy
    <3>2. merged \in Items
      BY DEF Merge, Items, TypeOK, Snapshot
    <3>3. snapshot' \in Snapshot
      BY <3>1, <3>2, ConstantsAssumption DEF Retain, Items, Snapshot
    <3>4. protected \subseteq Ids
      BY <2>0 DEF Touched
    <3> HIDE DEF protected, merged
    <3>5. delivery' \in Delivery
      BY <3>1, <3>3, <3>4, WritesTyped DEF TypeOK
    <3>6. QED
      BY <2>1, <3>3, <3>5 DEF PublishLegacy, TypeOK
  <2>2. ASSUME NEW ids \in SUBSET Ids, AckLegacy(seen.etag, ids)
        PROVE  TypeOK'
    <3>1. ids \subseteq Held(snapshot.items)
      BY <2>2 DEF AckLegacy, AreKnown
    <3>2. acked' \subseteq Ids \X Version
      BY <2>2, <3>1 DEF AckLegacy, TypeOK, Held, Snapshot, Items
    <3>3. delivery' \in Delivery
      BY <2>0, <2>2, WritesTyped DEF AckLegacy, Remaining, TypeOK
    <3>4. QED
      BY <2>2, <3>2, <3>3 DEF AckLegacy, TypeOK
  <2>3. ASSUME NEW conditional \in BOOLEAN, FetchLegacy(conditional)
        PROVE  TypeOK'
    BY <2>0, <2>3 DEF FetchLegacy, TypeOK, Snapshot
  <2>4. ASSUME NEW b \in Batches, RepublishBatch(b)
        PROVE  TypeOK'
    BY <2>0, <2>4 DEF RepublishBatch, TypeOK, Delivery, Entry
  <2>5. ASSUME NEW b \in Batches, NEW gen \in Stamp, NEW done \in Outcomes,
               PublishBatch(b, gen, done)
        PROVE  TypeOK'
    <3>1. gen \in 0..MaxStamp
      BY <2>5, ConstantsAssumption
    <3>2. [LoadBatchState EXCEPT !.entries[b] = [status |-> "pending", checkpoint |-> gen]]
            \in Delivery
      BY <2>0, <3>1 DEF Delivery, Entry
    <3>3. QED
      BY <2>5, <3>1, <3>2 DEF PublishBatch, TypeOK
  <2>6. ASSUME NEW b \in Batches, AckBatch(b, receipt[b])
        PROVE  TypeOK'
    <3>1. [LoadBatchState EXCEPT !.entries[b].status = "acknowledged"] \in Delivery
      BY <2>0 DEF Delivery, Entry
    <3>2. QED
      BY <2>6, <3>1 DEF AckBatch, TypeOK
  <2>7. CASE UNCHANGED vars
    BY <2>7 DEF vars, TypeOK
  <2>8. QED
    BY <2>1, <2>2, <2>3, <2>4, <2>5, <2>6, <2>7 DEF Next
<1>3. QED
  BY <1>1, <1>2, PTL DEF Spec

---------------------------------------------------------------------------
(* Retention of the legacy snapshot.                                       *)

\* An honest state protects what nobody acknowledged: when it was written for
\* this snapshot it says so itself, and otherwise everything is protected.
LEMMA HonestyProtects == StateIsHonest => UnackedIsProtected
BY DEF StateIsHonest, UnackedIsProtected, Protected, LoadDeliveryState

\* What a merge does to one item of the snapshot.
LEMMA MergeOfOne ==
    ASSUME NEW old \in Items, NEW new \in Items, NEW pruned \in SUBSET Ids, NEW i \in Ids
    PROVE  LET kept == Retain(Merge(old, new), pruned) IN
           /\ kept \in Items
           /\ kept[i] # 0 /\ i \notin Touched(old, new) => kept[i] = old[i]
           /\ kept[i] = 0 /\ old[i] # 0 => i \in pruned
<1> DEFINE kept == Retain(Merge(old, new), pruned)
<1>1. kept = [j \in Ids |-> IF j \in pruned THEN 0 ELSE IF new[j] # 0 THEN new[j] ELSE old[j]]
  BY DEF Retain, Merge
<1>2. kept \in Items
  BY <1>1, ConstantsAssumption DEF Items
<1>3. kept[i] # 0 /\ i \notin Touched(old, new) => kept[i] = old[i]
  BY <1>1 DEF Touched
<1>4. kept[i] = 0 /\ old[i] # 0 => i \in pruned
  BY <1>1
<1>5. QED
  BY <1>2, <1>3, <1>4

\* Interrupted publishes, schema switches and acknowledgements keep it honest.
LEMMA HonestyStep == TypeOK /\ StateIsHonest /\ [Next]_vars => StateIsHonest'
<1> SUFFICES ASSUME TypeOK, StateIsHonest, [Next]_vars PROVE StateIsHonest'
  OBVIOUS
<1>0. UnackedIsProtected
  BY HonestyProtects
<1>1. ASSUME NEW incoming \in Items, NEW gen \in Stamp, NEW done \in Outcomes,
             PublishLegacy(incoming, gen, done)
      PROVE  StateIsHonest'
  <2> DEFINE touched == Touched(snapshot.items, incoming)
             merged  == Merge(snapshot.items, incoming)
  <2>1. PICK pruned \in SUBSET Ids :
           /\ snapshot' = [gen |-> gen, items |-> Retain(merged, pruned)]
           /\ IF done THEN delivery' = DeliveryV1(snapshot',
                                (Protected \cup touched) \cap Held(snapshot'.items))
                      ELSE delivery' = delivery
    BY <1>1 DEF PublishLegacy
  <2>2. acked' = acked
    BY <1>1 DEF PublishLegacy
  <2>3. CASE ~done
    BY <2>1, <2>2, <2>3 DEF StateIsHonest
  <2>4. CASE done
    <3>1. /\ delivery'.etag.items = Retain(merged, pruned)
          /\ delivery'.unacked = (Protected \cup touched) \cap Held(Retain(merged, pruned))
      BY <2>1, <2>4 DEF DeliveryV1
    <3>2. ASSUME NEW i \in Held(Retain(merged, pruned)), i \notin Protected, i \notin touched
          PROVE  <<i, Retain(merged, pruned)[i]>> \in acked
      <4>1. i \in Ids /\ Retain(merged, pruned)[i] # 0
        BY <3>2 DEF Held
      <4>2. Retain(merged, pruned)[i] = snapshot.items[i]
        BY <4>1, <3>2, MergeOfOne DEF TypeOK, Snapshot
      <4>3. i \in Held(snapshot.items)
        BY <4>1, <4>2 DEF Held
      <4>4. QED
        BY <1>0, <3>2, <4>2, <4>3 DEF UnackedIsProtected
    <3> HIDE DEF touched, merged
    <3>3. QED
      BY <2>2, <3>1, <3>2 DEF StateIsHonest
  <2>5. QED
    BY <2>3, <2>4
<1>2. ASSUME NEW ids \in SUBSET Ids, AckLegacy(seen.etag, ids)
      PROVE  StateIsHonest'
  <2>1. /\ delivery'.etag.items = snapshot.items
        /\ delivery'.unacked = Protected \ ids
        /\ acked' = acked \cup {<<i, snapshot.items[i]>> : i \in ids}
    BY <1>2 DEF AckLegacy, DeliveryV1, Remaining
  <2>2. QED
    BY <1>0, <2>1 DEF StateIsHonest, UnackedIsProtected
<1>3. ASSUME NEW conditional \in BOOLEAN, FetchLegacy(conditional)
      PROVE  StateIsHonest'
  BY <1>3 DEF FetchLegacy, StateIsHonest
<1>4. ASSUME NEW b \in Batches, RepublishBatch(b)
      PROVE  StateIsHonest'
  BY <1>4 DEF RepublishBatch, StateIsHonest
<1>5. ASSUME NEW b \in Batches, NEW gen \in Stamp, NEW done \in Outcomes,
             PublishBatch(b, gen, done)
      PROVE  StateIsHonest'
  <2>1. LoadBatchState.schema = "v2"
    BY DEF LoadBatchState
  <2>2. delivery'.schema = "v2" \/ UNCHANGED <<delivery, acked>>
    BY <1>5, <2>1, ReadingsTyped DEF PublishBatch, Delivery
  <2>3. QED
    BY <2>2 DEF StateIsHonest
<1>6. ASSUME NEW b \in Batches, AckBatch(b, receipt[b])
      PROVE  StateIsHonest'
  <2>1. LoadBatchState.schema = "v2"
    BY DEF LoadBatchState
  <2>2. delivery'.schema = "v2"
    BY <1>6, <2>1, ReadingsTyped DEF AckBatch, Delivery
  <2>3. QED
    BY <2>2 DEF StateIsHonest
<1>7. CASE UNCHANGED vars
  BY <1>7 DEF vars, StateIsHonest
<1>8. QED
  BY <1>1, <1>2, <1>3, <1>4, <1>5, <1>6, <1>7 DEF Next

\* Whatever was interrupted or migrated, an item whose content nobody
\* acknowledged is protected when the next merge looks for room.
THEOREM Retention == Spec => [](StateIsHonest /\ UnackedIsProtected)
<1>1. Init => StateIsHonest
  BY DEF Init, NoDelivery, StateIsHonest
<1>2. QED
  BY <1>1, HonestyStep, HonestyProtects, Typing, PTL DEF Spec

\* The merge empties the slot of an item only if it pruned an unprotected one.
LEMMA PublishEvicts ==
    ASSUME TypeOK, UnackedIsProtected,
           NEW incoming \in Items, NEW gen \in Stamp, NEW done \in Outcomes,
           PublishLegacy(incoming, gen, done),
           NEW i \in Ids, snapshot.items[i] # 0, snapshot'.items[i] = 0
    PROVE  <<i, snapshot.items[i]>> \in acked
<1> DEFINE protected == Protected \cup Touched(snapshot.items, incoming)
           merged    == Merge(snapshot.items, incoming)
<1>1. PICK pruned \in SUBSET Ids :
         /\ IsPruned(pruned, merged, protected)
         /\ snapshot' = [gen |-> gen, items |-> Retain(merged, pruned)]
  BY DEF PublishLegacy
<1>2. i \in pruned
  BY <1>1, MergeOfOne DEF TypeOK, Snapshot
<1>3. i \notin Protected
  BY <1>1, <1>2, PrunedIsUnprotected
<1>4. QED
  BY <1>3 DEF UnackedIsProtected, Held

\* Only a publish changes the snapshot.
LEMMA SnapshotChanges ==
    ASSUME [Next]_vars
    PROVE  \/ snapshot' = snapshot
           \/ \E incoming \in Items, gen \in Stamp, done \in Outcomes :
                 PublishLegacy(incoming, gen, done) /\ acked' = acked
BY DEF Next, vars, PublishLegacy, AckLegacy, FetchLegacy, RepublishBatch, PublishBatch, AckBatch

\* No step drops a content before its acknowledgement, at any capacity.
THEOREM Eviction == Spec => EvictedWasAcked
<1> DEFINE Kept == \A i \in Ids : snapshot.items[i] # 0 /\ snapshot'.items[i] = 0
                                    => <<i, snapshot.items[i]>> \in acked
<1>1. TypeOK /\ UnackedIsProtected /\ [Next]_vars => Kept
  <2> SUFFICES ASSUME TypeOK, UnackedIsProtected, [Next]_vars,
                      NEW i \in Ids, snapshot.items[i] # 0, snapshot'.items[i] = 0
               PROVE  <<i, snapshot.items[i]>> \in acked
    OBVIOUS
  <2>1. CASE snapshot' = snapshot
    BY <2>1
  <2>2. ASSUME NEW incoming \in Items, NEW gen \in Stamp, NEW done \in Outcomes,
               PublishLegacy(incoming, gen, done)
        PROVE  <<i, snapshot.items[i]>> \in acked
    BY <2>2, PublishEvicts
  <2>3. QED
    BY <2>1, <2>2, SnapshotChanges
<1>2. QED
  BY <1>1, Typing, Retention, PTL DEF Spec, EvictedWasAcked


---------------------------------------------------------------------------
(* The snapshot implements the retained feed.                              *)

\* Every publish, interrupted or not, is an abstract publish that forgets only
\* acknowledged contents; every acknowledgement is an abstract one; the other
\* steps leave the feed alone.
THEOREM Refinement == Spec => SnapshotIsRetained
<1>1. Init => SnapshotFeed!Init
  BY DEF Init, SnapshotFeed!Init, NoSnapshot, Empty
<1>2. TypeOK /\ TypeOK' /\ UnackedIsProtected /\ [Next]_vars
        => [SnapshotFeed!Next]_(SnapshotFeed!feed)
  <2> SUFFICES ASSUME TypeOK, TypeOK', UnackedIsProtected, [Next]_vars
               PROVE  SnapshotFeed!Next \/ UNCHANGED <<snapshot.items, acked>>
    BY DEF SnapshotFeed!feed
  <2>1. ASSUME NEW incoming \in Items, NEW gen \in Stamp, NEW done \in Outcomes,
               PublishLegacy(incoming, gen, done)
        PROVE  SnapshotFeed!Publish
    <3>1. snapshot'.items \in [Ids -> Version \cup {0}]
      BY ConstantsAssumption DEF TypeOK, Snapshot, Items
    <3>2. ASSUME NEW i \in Ids, snapshot'.items[i] = 0, snapshot.items[i] # 0
          PROVE  <<i, snapshot.items[i]>> \in acked
      BY <2>1, <3>2, PublishEvicts
    <3>3. acked' = acked
      BY <2>1 DEF PublishLegacy
    <3>4. QED
      BY <3>1, <3>2, <3>3 DEF SnapshotFeed!Publish
  <2>2. ASSUME NEW ids \in SUBSET Ids, AckLegacy(seen.etag, ids)
        PROVE  SnapshotFeed!Acknowledge
    <3>1. ids \in SUBSET {i \in Ids : snapshot.items[i] # 0}
      BY <2>2 DEF AckLegacy, AreKnown, Held
    <3>2. QED
      BY <2>2, <3>1 DEF AckLegacy, SnapshotFeed!Acknowledge
  <2>3. ASSUME NEW conditional \in BOOLEAN, FetchLegacy(conditional)
        PROVE  UNCHANGED <<snapshot.items, acked>>
    BY <2>3 DEF FetchLegacy
  <2>4. ASSUME NEW b \in Batches, RepublishBatch(b)
        PROVE  UNCHANGED <<snapshot.items, acked>>
    BY <2>4 DEF RepublishBatch
  <2>5. ASSUME NEW b \in Batches, NEW gen \in Stamp, NEW done \in Outcomes,
               PublishBatch(b, gen, done)
        PROVE  UNCHANGED <<snapshot.items, acked>>
    BY <2>5 DEF PublishBatch
  <2>6. ASSUME NEW b \in Batches, AckBatch(b, receipt[b])
        PROVE  UNCHANGED <<snapshot.items, acked>>
    BY <2>6 DEF AckBatch
  <2>7. CASE UNCHANGED vars
    BY <2>7 DEF vars
  <2>8. QED
    BY <2>1, <2>2, <2>3, <2>4, <2>5, <2>6, <2>7 DEF Next, SnapshotFeed!Next
<1>3. QED
  BY <1>1, <1>2, Typing, Retention, PTL DEF Spec, SnapshotIsRetained, SnapshotFeed!Spec

---------------------------------------------------------------------------
(* Batches, where nothing else writes the delivery file.                   *)

\* An entry and the file it names agree, and an answered publisher's too.
EntriesAgree ==
    \A b \in Batches :
        /\ delivery.entries[b].status # "none" =>
              /\ delivery.schema = "v2"
              /\ delivery.entries[b].checkpoint = batchFile[b]
        /\ receipt[b] # 0 =>
              /\ delivery.entries[b].status # "none"
              /\ receipt[b] = batchFile[b]

\* A batch request sees the batches the delivery file records, and no others.
LEMMA LoadedEntries ==
    ASSUME TypeOK, EntriesAgree, NEW b \in Batches
    PROVE  /\ LoadBatchState.schema = "v2"
           /\ \/ LoadBatchState.entries[b] = delivery.entries[b]
              \/ /\ LoadBatchState.entries[b].status = "none"
                 /\ delivery.entries[b].status = "none"
<1>1. CASE delivery.schema = "v2"
  BY <1>1 DEF LoadBatchState
<1>2. CASE delivery.schema # "v2"
  BY <1>2 DEF EntriesAgree, LoadBatchState, NoEntries, NoEntry
<1>3. QED
  BY <1>1, <1>2

\* Interrupted publishes, replays and acknowledgements keep them in agreement.
LEMMA AgreementStep ==
    ASSUME ~LegacyTraffic, TypeOK, EntriesAgree, [Next]_vars
    PROVE  EntriesAgree'
<1>1. ASSUME NEW b \in Batches, RepublishBatch(b)
      PROVE  EntriesAgree'
  <2>1. LoadBatchState.entries[b] = delivery.entries[b]
    BY <1>1, LoadedEntries DEF RepublishBatch, IsNewBatch
  <2>2. receipt' = [receipt EXCEPT ![b] = delivery.entries[b].checkpoint]
    BY <1>1, <2>1 DEF RepublishBatch
  <2>3. delivery.entries[b].status # "none"
    BY <1>1, <2>1 DEF RepublishBatch, IsNewBatch
  <2>4. QED
    BY <1>1, <2>2, <2>3 DEF RepublishBatch, EntriesAgree, TypeOK
<1>2. ASSUME NEW b \in Batches, NEW gen \in Stamp, NEW done \in Outcomes,
             PublishBatch(b, gen, done)
      PROVE  EntriesAgree'
  <2>1. delivery.entries[b].status = "none"
    BY <1>2, LoadedEntries DEF PublishBatch, IsNewBatch
  <2>2. receipt[b] = 0
    BY <2>1 DEF EntriesAgree
  <2>3. batchFile' = [batchFile EXCEPT ![b] = gen]
    BY <1>2 DEF PublishBatch
  <2>4. CASE UNCHANGED <<delivery, receipt>>
    BY <2>1, <2>2, <2>3, <2>4 DEF EntriesAgree, TypeOK
  <2>5. CASE /\ delivery' = [LoadBatchState EXCEPT
                                !.entries[b] = [status |-> "pending", checkpoint |-> gen]]
             /\ receipt' = [receipt EXCEPT ![b] = gen]
    <3>1. /\ delivery'.schema = "v2"
          /\ delivery'.entries[b] = [status |-> "pending", checkpoint |-> gen]
          /\ \A c \in Batches \ {b} : delivery'.entries[c] = LoadBatchState.entries[c]
      BY <2>5, LoadedEntries, ReadingsTyped DEF Delivery
    <3>2. ASSUME NEW c \in Batches
          PROVE  /\ delivery'.entries[c].status # "none" =>
                       /\ delivery'.schema = "v2"
                       /\ delivery'.entries[c].checkpoint = batchFile'[c]
                 /\ receipt'[c] # 0 =>
                       /\ delivery'.entries[c].status # "none"
                       /\ receipt'[c] = batchFile'[c]
      <4>1. CASE c = b
        BY <2>3, <2>5, <3>1, <4>1 DEF TypeOK
      <4>2. CASE c # b
        BY <2>3, <2>5, <3>1, <4>2, LoadedEntries DEF TypeOK, EntriesAgree
      <4>3. QED
        BY <4>1, <4>2
    <3>3. QED
      BY <3>2 DEF EntriesAgree
  <2>6. QED
    BY <1>2, <2>4, <2>5 DEF PublishBatch
<1>3. ASSUME NEW b \in Batches, AckBatch(b, receipt[b])
      PROVE  EntriesAgree'
  <2>1. /\ delivery'.schema = "v2"
        /\ delivery'.entries[b].status = "acknowledged"
        /\ delivery'.entries[b].checkpoint = LoadBatchState.entries[b].checkpoint
        /\ \A c \in Batches \ {b} : delivery'.entries[c] = LoadBatchState.entries[c]
    BY <1>3, LoadedEntries, ReadingsTyped DEF AckBatch, Delivery, Entry
  <2>2. LoadBatchState.entries[b] = delivery.entries[b]
    BY <1>3, LoadedEntries DEF AckBatch, IsNewBatch
  <2>3. UNCHANGED <<batchFile, receipt>> /\ delivery.entries[b].status # "none"
    BY <1>3, <2>2 DEF AckBatch, IsNewBatch
  <2>4. ASSUME NEW c \in Batches
        PROVE  /\ delivery'.entries[c].status # "none" =>
                     /\ delivery'.schema = "v2"
                     /\ delivery'.entries[c].checkpoint = batchFile'[c]
               /\ receipt'[c] # 0 =>
                     /\ delivery'.entries[c].status # "none"
                     /\ receipt'[c] = batchFile'[c]
    BY <2>1, <2>2, <2>3, LoadedEntries DEF EntriesAgree
  <2>5. QED
    BY <2>4 DEF EntriesAgree
<1>4. CASE UNCHANGED vars
  BY <1>4 DEF vars, EntriesAgree
<1>5. QED
  BY <1>1, <1>2, <1>3, <1>4 DEF Next, PublishLegacy, AckLegacy, FetchLegacy

\* In a deployment whose publishers and readers all name identities, a batch
\* and the checkpoint its publisher was given are there for good.
THEOREM Keeping ==
    ASSUME ~LegacyTraffic
    PROVE  Spec => []BatchIsKept
<1>1. Init => EntriesAgree
  BY DEF Init, EntriesAgree, NoDelivery, NoEntries, NoEntry
<1>2. TypeOK /\ EntriesAgree /\ [Next]_vars => EntriesAgree'
  BY AgreementStep
<1>3. EntriesAgree => BatchIsKept
  BY DEF EntriesAgree, BatchIsKept
<1>4. QED
  BY <1>1, <1>2, <1>3, Typing, PTL DEF Spec

\* What was acknowledged stays so: a replayed publish, an interrupted one, and
\* the requests of other batches leave the entry alone.
THEOREM BatchAcksAreFinal ==
    ASSUME ~LegacyTraffic
    PROVE  Spec => BatchAckIsFinal
<1>1. Init => EntriesAgree
  BY DEF Init, EntriesAgree, NoDelivery, NoEntries, NoEntry
<1>2. TypeOK /\ EntriesAgree /\ [Next]_vars => EntriesAgree'
  BY AgreementStep
<1>3. TypeOK /\ EntriesAgree /\ [Next]_vars =>
        [\A b \in Batches : delivery.entries[b].status = "acknowledged"
                              => delivery'.entries[b] = delivery.entries[b]]_vars
  <2> SUFFICES ASSUME TypeOK, EntriesAgree, [Next]_vars,
                      NEW c \in Batches, delivery.entries[c].status = "acknowledged"
               PROVE  delivery'.entries[c] = delivery.entries[c]
    OBVIOUS
  <2>1. LoadBatchState.entries[c] = delivery.entries[c]
    BY LoadedEntries
  <2>2. ASSUME NEW b \in Batches, NEW gen \in Stamp, NEW done \in Outcomes,
               PublishBatch(b, gen, done)
        PROVE  delivery'.entries[c] = delivery.entries[c]
    <3>1. b # c
      BY <2>1, <2>2 DEF PublishBatch, IsNewBatch
    <3>2. \/ delivery' = delivery
          \/ delivery' = [LoadBatchState EXCEPT
                            !.entries[b] = [status |-> "pending", checkpoint |-> gen]]
      BY <2>2 DEF PublishBatch
    <3> QED
      BY <2>1, <3>1, <3>2, ReadingsTyped DEF Delivery
  <2>3. ASSUME NEW b \in Batches, AckBatch(b, receipt[b])
        PROVE  delivery'.entries[c] = delivery.entries[c]
    BY <2>1, <2>3, ReadingsTyped DEF AckBatch, Delivery, Entry
  <2>4. ASSUME NEW b \in Batches, RepublishBatch(b)
        PROVE  delivery'.entries[c] = delivery.entries[c]
    BY <2>4 DEF RepublishBatch
  <2>5. CASE UNCHANGED vars
    BY <2>5 DEF vars
  <2> QED
    BY <2>2, <2>3, <2>4, <2>5 DEF Next, PublishLegacy, AckLegacy, FetchLegacy
<1> QED
  BY <1>1, <1>2, <1>3, Typing, PTL DEF Spec, BatchAckIsFinal

---------------------------------------------------------------------------
(* Readers.                                                                *)

\* An acknowledgement is compared with the snapshot on disk: it covers what the
\* reader was given, or it is refused.
THEOREM AcksCoverWhatWasSeen == Spec => AckCoversSeen
<1>1. TypeOK /\ [Next]_vars =>
        [seen.items = seen.etag.items
           => \A pair \in acked' \ acked : seen.items[pair[1]] = pair[2]]_vars
  <2> SUFFICES ASSUME [Next]_vars, seen.items = seen.etag.items, NEW pair \in acked' \ acked
               PROVE  seen.items[pair[1]] = pair[2]
    OBVIOUS
  <2>1. ASSUME NEW ids \in SUBSET Ids, AckLegacy(seen.etag, ids)
        PROVE  seen.items[pair[1]] = pair[2]
    <3>1. seen.items = snapshot.items
      BY <2>1 DEF AckLegacy, IsCurrent
    <3>2. pair \in {<<i, snapshot.items[i]>> : i \in ids}
      BY <2>1 DEF AckLegacy
    <3> QED
      BY <3>1, <3>2
  <2>2. CASE acked' = acked
    BY <2>2
  <2> QED
    BY <2>1, <2>2 DEF Next, vars, PublishLegacy, FetchLegacy, RepublishBatch, PublishBatch, AckBatch
<1> QED
  BY <1>1, Typing, PTL DEF Spec, AckCoversSeen

=============================================================================
