-------------------------- MODULE ExternalIngestion --------------------------
(***************************************************************************)
(* The durable ingestion operations of the Central Backend                 *)
(* (backend/app/services/external_ingestion_service.py).  A worker claims  *)
(* an operation under a lease and takes it through publish, import, commit *)
(* and acknowledgement, one database transaction at a time.                *)
(*                                                                         *)
(* A worker's session keeps the row it loaded (expire_on_commit=False), so *)
(* a commit writes the columns that differ from that copy and leaves the   *)
(* others to whoever wrote them last; a rollback forgets the copy.         *)
(*                                                                         *)
(* Abstractions.  The records of an operation are its batches, and an      *)
(* offset counts batches.  A Gateway checkpoint is the operation it        *)
(* identifies.  "partial" is "completed": they differ by a count of failed *)
(* records.  A drain file is a claim that is not made.                     *)
(***************************************************************************)
EXTENDS Integers, Sequences, FiniteSets

CONSTANTS
    Interactive,    \* operations created from a completed job (priority 100)
    Backlog,        \* operations adopted from a legacy snapshot (priority 0)
    Batches,        \* the processing batches of each operation
    Workers,        \* worker threads, one per backend process
    Outages,        \* a request or transaction may fail and succeed later
    Refusals,       \* an upstream may refuse for good (4xx, broken contract)
    Replacements,   \* legacy publishers still replace the snapshot
    Crashes,        \* a worker may stop anywhere
    SlowWork,       \* a lease may expire while its holder is still at work
    None            \* no operation

Ops == Interactive \cup Backlog

ASSUME ConstantsAssumption ==
    /\ Interactive \cap Backlog = {} /\ None \notin Ops
    /\ IsFiniteSet(Workers)
    /\ Batches \in [Ops -> Nat]
    /\ {Outages, Refusals, Replacements, Crashes, SlowWork} \subseteq BOOLEAN

VARIABLES
    row,        \* the operation's row: state, stage, processed_offset
    claim,      \* its claim_token and lease_expires_at
    created,    \* the order of created_at
    stored,     \* batches of the operation durable in PostgreSQL
    job,        \* the operation a worker is processing
    pc,         \* where in process() it is
    view,       \* the row as the worker's session last knew it
    received,   \* exports the Gateway has as batches
    snapshot,   \* the legacy snapshot the Gateway serves
    acked,      \* operations whose records the Gateway need not keep
    overtaken   \* backlog batches committed while the operation was ready

vars == <<row, claim, created, stored, job, pc, view, received, snapshot, acked, overtaken>>
worker  == <<job, pc, view>>
gateway == <<received, snapshot, acked>>

State == {"absent", "queued", "published", "central_importing", "committed",
          "acknowledging", "completed", "failed_retryable", "failed_terminal"}
Resumable == {"queued", "published", "central_importing", "committed", "acknowledging"}
Stage == {"export_ready", "published", "central_importing", "persisting", "committed",
          "acknowledging", "completed"}
Row    == [state : State, stage : Stage, offset : Nat]
Absent == [state |-> "absent", stage |-> "export_ready", offset |-> 0]
Idle   == {"idle", "adopting"}
Place  == {"publishing", "published", "fetching", "persisting", "yielding",
           "imported", "acknowledging", "acknowledged", "releasing"}

TypeOK ==
    /\ row \in [Ops -> Row] /\ \A o \in Ops : row[o].offset <= Batches[o]
    /\ claim \in [Ops -> {"free", "leased", "expired"}]
    /\ created \in Seq(Ops)
    /\ stored \in [Ops -> Nat] /\ \A o \in Ops : stored[o] <= Batches[o]
    /\ job \in [Workers -> Ops \cup {None}] /\ pc \in [Workers -> Place \cup Idle]
    /\ view \in [Workers -> Row]
    /\ \A w \in Workers : pc[w] \in Idle <=> job[w] = None
    /\ \A w \in Workers : job[w] # None => view[w].offset <= Batches[job[w]]
    /\ received \subseteq Interactive
    /\ snapshot \in Backlog \cup {None}
    /\ acked \subseteq Ops
    /\ overtaken \in [Interactive -> 0..(Cardinality(Workers) + 1)]

Init ==
    /\ row = [o \in Ops |-> Absent] /\ claim = [o \in Ops |-> "free"]
    /\ created = <<>> /\ stored = [o \in Ops |-> 0]
    /\ job = [w \in Workers |-> None] /\ pc = [w \in Workers |-> "idle"]
    /\ view = [w \in Workers |-> Absent]
    /\ received = {} /\ acked = {}
    /\ snapshot \in Backlog \cup {None}
    /\ overtaken = [i \in Interactive |-> 0]

-----------------------------------------------------------------------------
(* Commands and the world outside the workers. *)

\* create_or_resume for a completed job with an export.
Create(o) ==
    /\ o \in Interactive /\ row[o] = Absent
    /\ row' = [row EXCEPT ![o].state = "queued"]
    /\ created' = Append(created, o)
    /\ UNCHANGED <<claim, stored, worker, gateway, overtaken>>

\* Mutation: a stage that is not listed starts the import again.
RetryState_Reimports(stage) ==
    IF stage \in {"committed", "central_importing", "published"} THEN stage
    ELSE IF stage = "acknowledging" THEN "central_importing" ELSE "queued"

\* _retry_state
RetryState(stage) ==
    IF stage \in {"acknowledging", "committed", "central_importing", "published"}
    THEN stage ELSE "queued"

\* The retry endpoint.
Retry(o) ==
    /\ row[o].state = "failed_retryable"
    /\ row' = [row EXCEPT ![o].state = RetryState(row[o].stage)]
    /\ UNCHANGED <<claim, created, stored, worker, gateway, overtaken>>

\* A legacy publisher replaces the snapshot, perhaps by one whose operation is
\* outside the set of operations (a bound): None.
ReplaceSnapshot(o) ==
    /\ Replacements
    /\ o \in Backlog => row[o] = Absent
    /\ o # snapshot
    /\ snapshot' = o
    /\ UNCHANGED <<row, claim, created, stored, worker, received, acked, overtaken>>

\* Time passes the lease of an operation.
ExpireLease(o) ==
    /\ claim[o] = "leased"
    /\ SlowWork \/ \A w \in Workers : job[w] # o
    /\ claim' = [claim EXCEPT ![o] = "expired"]
    /\ UNCHANGED <<row, created, stored, worker, gateway, overtaken>>

-----------------------------------------------------------------------------
(* _claim_next and _ensure_gateway_operation. *)

\* Mutation: the claim of a worker that stopped is never taken over.
IsAvailable_Unclaimed(o) == row[o].state \in Resumable /\ claim[o] = "free"

\* Mutation: a lease does not keep others from claiming.
IsAvailable_Leased(o) == row[o].state \in Resumable

IsAvailable(o) == row[o].state \in Resumable /\ claim[o] # "leased"

\* Priority first, then the order of creation.
Precedes(o, p) ==
    \/ o \in Interactive /\ p \in Backlog
    \/ /\ o \in Interactive <=> p \in Interactive
       /\ \E i, j \in DOMAIN created : i < j /\ created[i] = o /\ created[j] = p

\* Where process() enters for the state it finds.
EntryPoint(state) ==
    CASE state = "queued" -> "publishing"
      [] state \in {"published", "central_importing"} -> "published"
      [] OTHER -> "imported"

Claim(w, o) ==
    /\ pc[w] = "idle"
    /\ IsAvailable(o)
    /\ \A p \in Ops \ {o} : IsAvailable(p) => Precedes(o, p)
    /\ claim' = [claim EXCEPT ![o] = "leased"]
    /\ job' = [job EXCEPT ![w] = o]
    /\ pc' = [pc EXCEPT ![w] = EntryPoint(row[o].state)]
    /\ view' = [view EXCEPT ![w] = row[o]]
    /\ overtaken' = [i \in Interactive |-> IF i = o THEN 0 ELSE overtaken[i]]
    /\ UNCHANGED <<row, created, stored, gateway>>

\* With nothing to claim, a worker asks the Gateway for its snapshot.
Look(w) ==
    /\ pc[w] = "idle"
    /\ \A p \in Ops : ~IsAvailable(p)
    /\ pc' = [pc EXCEPT ![w] = "adopting"]
    /\ UNCHANGED <<row, claim, created, stored, job, view, gateway, overtaken>>

\* The snapshot is adopted once.
Adopt(w, o) ==
    /\ pc[w] = "adopting" /\ snapshot = o /\ row[o] = Absent
    /\ row' = [row EXCEPT ![o].state = "published", ![o].stage = "published"]
    /\ created' = Append(created, o)
    /\ pc' = [pc EXCEPT ![w] = "idle"]
    /\ UNCHANGED <<claim, stored, job, view, gateway, overtaken>>

\* There is no snapshot, it is known already, or it cannot be fetched.
AdoptNothing(w) ==
    /\ pc[w] = "adopting"
    /\ ~Outages => \A o \in Backlog : snapshot = o => row[o] # Absent
    /\ pc' = [pc EXCEPT ![w] = "idle"]
    /\ UNCHANGED <<row, claim, created, stored, job, view, gateway, overtaken>>

-----------------------------------------------------------------------------
(* process(), one transaction or request at a time. *)

\* A commit of the session: only the columns that changed are written.
Written(current, old, new) ==
    [state  |-> IF new.state = old.state THEN current.state ELSE new.state,
     stage  |-> IF new.stage = old.stage THEN current.stage ELSE new.stage,
     offset |-> IF new.offset = old.offset THEN current.offset ELSE new.offset]

Commit(w, new, next) ==
    /\ row' = [row EXCEPT ![job[w]] = Written(@, view[w], new)]
    /\ view' = [view EXCEPT ![w] = new]
    /\ pc' = [pc EXCEPT ![w] = next]
    /\ UNCHANGED <<created, job>>

At(w, place) == pc[w] = place

\* _publish_exact_export.  Only a real export can be read from the control
\* service; publishing it again changes nothing at the Gateway.
Publish(w) ==
    /\ At(w, "publishing") /\ job[w] \in Interactive
    /\ received' = received \cup {job[w]}
    /\ Commit(w, [view[w] EXCEPT !.state = "published", !.stage = "published"], "published")
    /\ UNCHANGED <<claim, stored, snapshot, acked, overtaken>>

\* Mutation: a resumed import starts from the first batch.
StartImport_FromZero(w) ==
    /\ At(w, "published")
    /\ Commit(w, [state |-> "central_importing", stage |-> "central_importing", offset |-> 0],
              "fetching")
    /\ UNCHANGED <<claim, stored, gateway, overtaken>>

StartImport(w) ==
    /\ At(w, "published")
    /\ Commit(w, [view[w] EXCEPT !.state = "central_importing", !.stage = "central_importing"],
              "fetching")
    /\ UNCHANGED <<claim, stored, gateway, overtaken>>

\* The Gateway still serves the records under the expected checkpoint.
IsServed(o) == o \in received \/ o = snapshot

Fetch(w) ==
    /\ At(w, "fetching") /\ IsServed(job[w])
    /\ pc' = [pc EXCEPT ![w] = "persisting"]
    /\ UNCHANGED <<row, claim, created, stored, job, view, gateway, overtaken>>

AtLeast(a, b) == IF a > b THEN a ELSE b

\* Mutation: a backlog operation keeps its claim for all its batches.
AfterBatch_NoYield(o, offset) == "persisting"

\* max_batches = 1 for the backlog.
AfterBatch(o, offset) ==
    IF o \in Backlog /\ offset < Batches[o] THEN "yielding" ELSE "persisting"

Overtaking(o) ==
    overtaken' = [i \in Interactive |->
                    IF o \in Backlog /\ IsAvailable(i) /\ overtaken[i] <= Cardinality(Workers)
                    THEN overtaken[i] + 1 ELSE overtaken[i]]

\* Mutation: the offset is committed before the records, which may then fail.
PersistBatch_OffsetFirst(w) ==
    LET offset == view[w].offset + 1
    IN  /\ At(w, "persisting") /\ offset <= Batches[job[w]]
        /\ stored' \in {stored, [stored EXCEPT ![job[w]] = AtLeast(@, offset)]}
        /\ Commit(w, [view[w] EXCEPT !.stage = "persisting", !.offset = offset],
                  AfterBatch(job[w], offset))
        /\ Overtaking(job[w])
        /\ UNCHANGED <<claim, gateway>>

\* The records and the offset of a batch are one transaction.
PersistBatch(w) ==
    LET offset == view[w].offset + 1
    IN  /\ At(w, "persisting") /\ offset <= Batches[job[w]]
        /\ stored' = [stored EXCEPT ![job[w]] = AtLeast(@, offset)]
        /\ Commit(w, [view[w] EXCEPT !.stage = "persisting", !.offset = offset],
                  AfterBatch(job[w], offset))
        /\ Overtaking(job[w])
        /\ UNCHANGED <<claim, gateway>>

Leave(w) ==
    /\ job' = [job EXCEPT ![w] = None]
    /\ pc' = [pc EXCEPT ![w] = "idle"]
    /\ view' = [view EXCEPT ![w] = Absent]

\* processing_complete is False: the claim is released between two batches.
\* The row already says central_importing and persisting.
Yield(w) ==
    /\ At(w, "yielding")
    /\ claim' = [claim EXCEPT ![job[w]] = "free"]
    /\ Leave(w)
    /\ UNCHANGED <<row, created, stored, gateway, overtaken>>

\* No batch is left.
IsImported(w) == view[w].offset = Batches[job[w]]

FinishImport(w) ==
    /\ At(w, "persisting") /\ IsImported(w)
    /\ Commit(w, [view[w] EXCEPT !.state = "committed", !.stage = "committed"], "imported")
    /\ UNCHANGED <<claim, stored, gateway, overtaken>>

StartAck(w) ==
    /\ At(w, "imported")
    /\ Commit(w, [view[w] EXCEPT !.state = "acknowledging", !.stage = "acknowledging"],
              "acknowledging")
    /\ UNCHANGED <<claim, stored, gateway, overtaken>>

\* acknowledge_external_feed: the request, and what it records of the answer.
Acknowledge(w) ==
    /\ At(w, "acknowledging") /\ IsServed(job[w])
    /\ acked' = acked \cup {job[w]}
    /\ pc' = [pc EXCEPT ![w] = "acknowledged"]
    /\ UNCHANGED <<row, claim, created, stored, job, view, received, snapshot, overtaken>>

Complete(w) ==
    /\ At(w, "acknowledged")
    /\ Commit(w, [view[w] EXCEPT !.state = "completed", !.stage = "completed"], "releasing")
    /\ UNCHANGED <<claim, stored, gateway, overtaken>>

\* _release_claim, whoever holds the claim by now.
Release(w) ==
    /\ At(w, "releasing")
    /\ claim' = [claim EXCEPT ![job[w]] = "free"]
    /\ Leave(w)
    /\ UNCHANGED <<row, created, stored, gateway, overtaken>>

\* An exception inside process(): rollback, then _fail on a fresh row.
Fail(w, state) ==
    /\ job[w] # None
    /\ row' = [row EXCEPT ![job[w]].state = state]
    /\ claim' = [claim EXCEPT ![job[w]] = "free"]
    /\ Leave(w)
    /\ UNCHANGED <<created, stored, gateway, overtaken>>

\* An upstream or the database is out of reach.
FailForNow(w) == Outages /\ Fail(w, "failed_retryable")

\* The Gateway no longer knows the checkpoint to acknowledge (409).
FailOnConflict(w) ==
    /\ At(w, "acknowledging") /\ ~IsServed(job[w])
    /\ Fail(w, "failed_retryable")

\* A ValueError or another 4xx: an answer that breaks the contract, a legacy
\* snapshot that is not the adopted one, an export that was never made.
FailForGood(w) ==
    /\ \/ Refusals /\ pc[w] \in {"publishing", "fetching", "acknowledging"}
       \/ At(w, "publishing") /\ job[w] \in Backlog
       \/ At(w, "fetching") /\ ~IsServed(job[w])
    /\ Fail(w, "failed_terminal")

\* The process stops.  A worker thread starts with the next one.
Crash(w) ==
    /\ Crashes /\ job[w] # None
    /\ Leave(w)
    /\ UNCHANGED <<row, claim, created, stored, gateway, overtaken>>

-----------------------------------------------------------------------------

Process(w) ==
    \/ Publish(w) \/ StartImport(w) \/ Fetch(w) \/ PersistBatch(w) \/ Yield(w)
    \/ FinishImport(w) \/ StartAck(w) \/ Acknowledge(w) \/ Complete(w) \/ Release(w)
    \/ FailOnConflict(w) \/ FailForGood(w)

Adopting(w) == AdoptNothing(w) \/ \E o \in Backlog : Adopt(w, o)

Next ==
    \/ \E o \in Ops : Create(o) \/ Retry(o) \/ ExpireLease(o)
    \/ \E o \in Backlog \cup {None} : ReplaceSnapshot(o)
    \/ \E w \in Workers :
          \/ \E o \in Ops : Claim(w, o)
          \/ Look(w) \/ Adopting(w)
          \/ Process(w) \/ FailForNow(w) \/ Crash(w)

Spec == Init /\ [][Next]_vars

\* Workers keep working and claiming, time passes leases, and whoever asked for
\* an operation retries it.  Outages and crashes come to an end.
Fairness ==
    /\ \A w \in Workers : WF_vars(Process(w)) /\ WF_vars(Adopting(w))
    /\ WF_vars(\E w \in Workers, o \in Ops : Claim(w, o))
    /\ \A o \in Ops : WF_vars(Retry(o)) /\ WF_vars(ExpireLease(o))
    /\ <>[][\A w \in Workers : ~FailForNow(w) /\ ~Crash(w)]_vars

FairSpec == Spec /\ Fairness

-----------------------------------------------------------------------------
(* Properties. *)

\* The Gateway is told to forget records only after all of them are durable,
\* through crashes, retries, and leases that expire under their holder.
AckedIsPersisted == \A o \in acked : stored[o] = Batches[o]

\* What the offset skips on resumption is durable.
OffsetIsPersisted == \A o \in Ops : row[o].offset <= stored[o]

\* Whatever workers, leases and retries do, the Gateway sees the promise of
\* PersistThenAck: durable in order and without a gap, then acknowledged.
Promise == INSTANCE PersistThenAck
PersistsThenAcks == Promise!Spec

\* A resumed import never commits a batch again, and never skips one.
ResumesWhereItStopped ==
    \A w \in Workers : pc[w] \in {"fetching", "persisting"} => view[w].offset = stored[job[w]]

\* One operation is processed by one worker at a time.
OneWorkerEach ==
    \A v, w \in Workers : job[v] # None /\ job[v] = job[w] => v = w

\* A ready interactive operation waits for no more backlog batches than there
\* are workers: the ones in flight when it became ready.
BacklogGivesWay == \A i \in Interactive : overtaken[i] <= Cardinality(Workers)

\* An operation whose records are committed never goes back to import them:
\* a retry resumes at the acknowledgement.
CommittedIsFinal ==
    [][\A o \in Ops : row[o].stage \in {"committed", "acknowledging"}
            => row'[o].stage \in {"committed", "acknowledging", "completed"}]_vars

\* Whoever polls an operation sees it end: completed, or refused for good.
EveryOperationEnds ==
    \A o \in Ops : row[o].state # "absent" ~> row[o].state \in {"completed", "failed_terminal"}

\* As long as nothing refuses it, an operation ends completed.
EveryOperationCompletes ==
    \A o \in Ops : row[o].state # "absent" ~> row[o].state = "completed"
=============================================================================
