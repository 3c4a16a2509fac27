---------------------------- MODULE ReviewExports ----------------------------
(***************************************************************************)
(* Exports and review decisions of the collector.  The exporter            *)
(* (export/final_dataset.py) publishes a run as a dataset, a review file   *)
(* and a manifest, and adds the run to a state file.  Collection jobs call *)
(* it from their threads; so does a review decision                        *)
(* (LocalReviewService.decide, integration/local.py), which keeps its      *)
(* decisions in the same state file.  Decisions exclude each other; nothing*)
(* excludes a decision and a collection.                                   *)
(*                                                                         *)
(* Abstraction.  An entry is one version of a record, with the identity    *)
(* and the rank that the deduplication gives it.  The entries that it      *)
(* keeps are valid.  A run is written by the process it belongs to.  At    *)
(* most MaxFaults writes fail or processes restart, there are MaxRuns runs *)
(* and a decision is not asked for after MaxSaves saves (bounds).          *)
(***************************************************************************)
EXTENDS Naturals, Sequences, SequencesExt

CONSTANTS
    Entries,        \* [record, content, identity, rank]: versions of records
    Batches,        \* [accepted, review]: what collections bring
    MaxRuns,
    Absent,         \* a file, a decision or a value that is not there
    MaxFaults, MaxSaves

Runs      == 1..MaxRuns
Collector == "collector"
Reviewer  == "reviewer"
Procs     == {Collector, Reviewer}

VARIABLES
    dataset, review,    \* [Runs -> entries]: the files of a run
    manifest,           \* [Runs -> entries]: the dataset whose digest it states
    newest,             \* the runs that have a review file, by its time
    file,               \* export_runs.json: the decisions; nothing reads its runs
    saves,              \* how often it was written: its modification time
    job,                \* [Procs -> the export a thread is making]
    held,               \* [Procs -> the state it loaded and has not saved yet]
    at, key, choice,    \* a decision: where it is, what it decides
    previous,           \* the decision as it will be saved
    listing,            \* a page of reviews being made
    cache,              \* LocalReviewService._snapshot_key and _value
    answered,           \* history: what a client was last told of an entry
    dropped,            \* history: entries whose decision a stale state was saved over
    faults

files    == <<dataset, review, manifest, newest>>
store    == <<file, saves>>
threads  == <<job, held>>
decision == <<at, key, choice, previous>>
pages    == <<listing, cache>>
told     == <<answered, dropped>>
vars     == <<files, store, threads, decision, pages, told, faults>>

Undecided == [choice |-> Absent, run |-> Absent, source |-> Absent, state |-> Absent]
NoJob     == [run |-> Absent, accepted |-> {}, review |-> {}, step |-> "idle"]
NoPage    == [step |-> "idle", signature |-> Absent, entries |-> {}, rejected |-> {}]

Steps  == {"idle", "dataset", "review", "manifest", "load", "save", "made"}
Stages == {"idle", "find", "export", "failed", "done"}

TypeOK ==
    /\ dataset \in [Runs -> SUBSET Entries \cup {Absent}]
    /\ review \in [Runs -> SUBSET Entries \cup {Absent}]
    /\ manifest \in [Runs -> SUBSET Entries \cup {Absent}]
    /\ newest \in Seq(Runs)
    /\ \A e \in Entries :
          /\ file[e].choice \in {"approved", "rejected", Absent}
          /\ file[e].state \in {"pending_export", "completed", "processing_failed", Absent}
          /\ file[e].run \in Runs \cup {Absent}
    /\ \A p \in Procs : job[p].step \in Steps /\ job[p].run \in Runs \cup {Absent}
    /\ at \in Stages /\ key \in Entries \cup {Absent}
    /\ answered \in [Entries -> {"approved", "rejected", Absent}]
    /\ dropped \subseteq Entries
    /\ saves \in Nat /\ faults \in 0..MaxFaults

Init ==
    /\ dataset = [r \in Runs |-> Absent] /\ review = dataset /\ manifest = dataset
    /\ newest = <<>> /\ saves = 0
    /\ file = [e \in Entries |-> Undecided]
    /\ job = [p \in Procs |-> NoJob] /\ held = [p \in Procs |-> Absent]
    /\ at = "idle" /\ key = Absent /\ choice = Absent /\ previous = Undecided
    /\ listing = NoPage /\ cache = NoPage
    /\ answered = [e \in Entries |-> Absent] /\ dropped = {} /\ faults = 0

Fault == faults < MaxFaults /\ faults' = faults + 1

-----------------------------------------------------------------------------
(* The state file: load_json and save_json of a whole value.               *)

\* JsonStateManager.load: what another holds will be saved over this.
Load(p) == held' = [held EXCEPT ![p] = file]

\* Mutation: a decision that exports nothing is not written.
Save_Exported(p, value) ==
    /\ file' = [e \in Entries |-> IF value[e].run = Absent THEN Undecided ELSE value[e]]
    /\ saves' = saves + 1
    /\ held' = [held EXCEPT ![p] = Absent]

Save(p, value) ==
    /\ file' = value /\ saves' = saves + 1
    /\ held' = [held EXCEPT ![p] = Absent]

-----------------------------------------------------------------------------
(* ExternalDatasetExporter.export.                                         *)

\* generate_run_id is unique: a new run is one that nothing uses.
Names(s, r) == s # Absent /\ \E e \in Entries : s[e].run = r
Used(r) ==
    \/ dataset[r] # Absent \/ \E p \in Procs : job[p].run = r
    \/ Names(file, r) \/ previous.run = r \/ \E p \in Procs : Names(held[p], r)

IsNew(r) == ~Used(r) /\ \A x \in Runs : x < r => Used(x)

\* _deduplicate: of the entries with one identity the one of least rank stays.
Same(e, f) == e.identity = f.identity
Merge(entries) ==
    {e \in entries : \A f \in entries : Same(e, f) => e.rank <= f.rank}

\* A collection job, or a manual operation, exports what it collected.
Collect(r, batch) ==
    /\ job[Collector] = NoJob /\ IsNew(r)
    /\ job' = [job EXCEPT ![Collector] = [run |-> r, accepted |-> batch.accepted,
                                          review |-> batch.review, step |-> "dataset"]]
    /\ UNCHANGED <<files, store, held, decision, pages, told, faults>>

Goes(p, step) == job' = [job EXCEPT ![p].step = step]

WriteDataset(p) ==
    /\ job[p].step = "dataset" /\ Goes(p, "review")
    /\ dataset' = [dataset EXCEPT ![job[p].run] = Merge(job[p].accepted)]
    /\ UNCHANGED <<review, manifest, newest, store, held, decision, pages, told, faults>>

WriteReview(p) ==
    /\ job[p].step = "review" /\ Goes(p, "manifest")
    /\ review' = [review EXCEPT ![job[p].run] = job[p].review]
    /\ newest' = Append(SelectSeq(newest, LAMBDA r : r # job[p].run), job[p].run)
    /\ UNCHANGED <<dataset, manifest, store, held, decision, pages, told, faults>>

WriteManifest(p) ==
    /\ job[p].step = "manifest" /\ Goes(p, "load")
    /\ manifest' = [manifest EXCEPT ![job[p].run] = Merge(job[p].accepted)]
    /\ UNCHANGED <<dataset, review, newest, store, held, decision, pages, told, faults>>

LoadRuns(p) ==
    /\ job[p].step = "load" /\ Goes(p, "save") /\ Load(p)
    /\ UNCHANGED <<files, store, decision, pages, told, faults>>

\* The job of a collection is over; a decision goes on.  What was decided since
\* the state was loaded is lost.
SaveRuns(p) ==
    LET lost == {e \in Entries : file[e] # held[p][e]} IN
    /\ job[p].step = "save"
    /\ Save(p, held[p])
    /\ job' = [job EXCEPT ![p] = IF p = Collector THEN NoJob ELSE [@ EXCEPT !.step = "made"]]
    /\ dropped' = dropped \cup lost /\ listing' = [listing EXCEPT !.rejected = @ \ lost]
    /\ UNCHANGED <<files, decision, cache, answered, faults>>

\* A write raises: a collection reports it, a decision records it.
ExportFails(p) ==
    /\ job[p].step \in Steps \ {"idle", "made"} /\ Fault
    /\ job' = [job EXCEPT ![p] = NoJob] /\ held' = [held EXCEPT ![p] = Absent]
    /\ at' = IF p = Reviewer THEN "failed" ELSE at
    /\ UNCHANGED <<files, store, key, choice, previous, pages, told>>

-----------------------------------------------------------------------------
(* LocalReviewService.decide, one at a time.                               *)

OtherVersionDecided(s, e) ==
    \E f \in Entries : f.record = e.record /\ f # e /\ s[f] # Undecided

Leave == at' = "idle" /\ key' = Absent /\ choice' = Absent /\ previous' = Undecided

Answer(e, d) == answered' = [answered EXCEPT ![e] = d] /\ dropped' = dropped \ {e} /\ Leave

\* review_already_decided, for any other decision.
Agrees(e, d) == file[e].choice \in {d, Absent}

\* The state is loaded.  A completed decision is told again.
Ask(e, d) ==
    /\ at = "idle" /\ saves < MaxSaves
    /\ ~OtherVersionDecided(file, e)
    /\ Agrees(e, d)
    /\ IF file[e].state = "completed"
       THEN Answer(e, d) /\ UNCHANGED held
       ELSE /\ at' = "find" /\ key' = e /\ choice' = d /\ Load(Reviewer)
            /\ previous' = file[e] /\ UNCHANGED told
    /\ UNCHANGED <<files, store, job, pages, faults>>

Mentions(r, e) == \E f \in review[r] : f.record = e.record
Latest(s) == s[Len(s)]

\* The review file that is asked: the one of the decision, or the newest that
\* has the record.
SourceOf(e) ==
    LET known == SelectSeq(newest, LAMBDA r : Mentions(r, e))
    IN  CASE previous # Undecided -> previous.source
          [] known # <<>>         -> Latest(known)
          [] OTHER                -> Absent

Reviewed(source) == IF source = Absent THEN {} ELSE review[source]

\* review_not_found, review_content_changed: nothing is written.
Refuse ==
    /\ at = "find"
    /\ key \notin Reviewed(SourceOf(key))
    /\ Leave
    /\ held' = [held EXCEPT ![Reviewer] = Absent]
    /\ UNCHANGED <<files, store, job, pages, told, faults>>

\* What a validated manifest gives to read, run_accepted.
Readable(r) == manifest[r] # Absent /\ dataset[r] = manifest[r]
RunAccepted(r) == IF Readable(r) THEN dataset[r] ELSE {}

\* What an approval exports: the accepted entries of its source and its own;
\* the other entries under review stay so.
Approval(d) ==
    [run |-> d.run, accepted |-> RunAccepted(d.source) \cup {key},
     review |-> review[d.source] \ {key}, step |-> "dataset"]

\* A new decision is saved with the run its export will have.
Persist(r) ==
    LET source == SourceOf(key)
        d == [choice |-> choice, run |-> r, source |-> source,
              state |-> IF choice = "approved" THEN "pending_export" ELSE "completed"]
    IN  /\ at = "find" /\ previous = Undecided
        /\ key \in Reviewed(source)
        /\ r \in IF choice = "approved" THEN {x \in Runs : IsNew(x)} ELSE {Absent}
        /\ Save(Reviewer, [held[Reviewer] EXCEPT ![key] = d])
        /\ IF choice = "approved"
           THEN /\ at' = "export" /\ job' = [job EXCEPT ![Reviewer] = Approval(d)]
                /\ previous' = d /\ UNCHANGED <<key, choice, told>>
           ELSE Answer(key, choice) /\ UNCHANGED job
        /\ UNCHANGED <<files, pages, faults>>

\* An approval that was interrupted or failed exports again, as the same run.
Retry ==
    /\ at = "find" /\ previous # Undecided /\ key \in review[previous.source]
    /\ at' = "export" /\ job' = [job EXCEPT ![Reviewer] = Approval(previous)]
    /\ held' = [held EXCEPT ![Reviewer] = Absent]
    /\ UNCHANGED <<files, store, key, choice, previous, pages, told, faults>>

\* Mutation: the dataset is not looked at again.
IsExported_Assumed == TRUE

\* approved_record_not_exported: the approved entry lost to one of its identity.
IsExported == key \in dataset[job[Reviewer].run]

Check ==
    /\ at = "export" /\ job[Reviewer].step = "made"
    /\ at' = IF IsExported THEN "done" ELSE "failed"
    /\ job' = [job EXCEPT ![Reviewer] = NoJob]
    /\ UNCHANGED <<files, store, held, key, choice, previous, pages, told, faults>>

LoadOutcome ==
    /\ at \in {"done", "failed"} /\ held[Reviewer] = Absent /\ Load(Reviewer)
    /\ UNCHANGED <<files, store, job, decision, pages, told, faults>>

\* The outcome goes into a state that was loaded again.  A failure is told as
\* "saved, but to be retried".
SaveOutcome ==
    LET was == IF at = "failed" /\ held[Reviewer][key] # Undecided
               THEN held[Reviewer][key] ELSE previous
        d   == [was EXCEPT !.state = IF at = "done" THEN "completed" ELSE "processing_failed"]
    IN  /\ at \in {"done", "failed"} /\ held[Reviewer] # Absent
        /\ Save(Reviewer, [held[Reviewer] EXCEPT ![key] = d])
        /\ Answer(key, choice)
        /\ UNCHANGED <<files, job, pages, faults>>

-----------------------------------------------------------------------------
(* LocalReviewService.latest: a page is made from a snapshot that is kept  *)
(* under the signature of the files it was made from.                      *)

Published == {r \in Runs : manifest[r] # Absent}

\* _snapshot_signature
Signature == <<saves, newest, Published>>

Rejected(f) == {e \in Entries : f[e].choice = "rejected"}

OpenPage ==
    /\ listing.step = "idle"
    /\ listing' = [step |-> IF cache.signature = Signature THEN "served" ELSE "files",
                   signature |-> Signature, rejected |-> Rejected(file),
                   entries |-> IF cache.signature = Signature THEN cache.entries ELSE {}]
    /\ UNCHANGED <<files, store, threads, decision, cache, told, faults>>

\* The pending work is the union of the review files, if a run is readable.
ReadReviews ==
    /\ listing.step = "files"
    /\ listing' = [listing EXCEPT
          !.step = "state",
          !.entries = IF \E r \in Runs : Readable(r)
                      THEN UNION {review[r] : r \in ToSet(newest)} ELSE {}]
    /\ UNCHANGED <<files, store, threads, decision, cache, told, faults>>

\* _snapshot keeps its value under the signature it took first.
ReadDecisions ==
    /\ listing.step = "state"
    /\ LET page == [listing EXCEPT !.step = "served", !.entries = @ \ Rejected(file)]
       IN  /\ listing' = page
           /\ cache' = [NoPage EXCEPT !.signature = page.signature, !.entries = page.entries]
    /\ UNCHANGED <<files, store, threads, decision, told, faults>>

ClosePage ==
    /\ listing.step = "served" /\ listing' = NoPage
    /\ UNCHANGED <<files, store, threads, decision, cache, told, faults>>

-----------------------------------------------------------------------------
\* The collector stops and starts again: its files are what is left.
Restart ==
    /\ Fault
    /\ job' = [p \in Procs |-> NoJob] /\ held' = [p \in Procs |-> Absent]
    /\ Leave /\ listing' = NoPage /\ cache' = NoPage
    /\ UNCHANGED <<files, store, told>>

Write(p) ==
    \/ WriteDataset(p) \/ WriteReview(p) \/ WriteManifest(p)
    \/ LoadRuns(p) \/ SaveRuns(p) \/ ExportFails(p)

Next ==
    \/ \E r \in Runs, batch \in Batches : Collect(r, batch)
    \/ \E p \in Procs : Write(p)
    \/ \E e \in Entries, d \in {"approved", "rejected"} : Ask(e, d)
    \/ \E r \in Runs \cup {Absent} : Persist(r)
    \/ Refuse \/ Retry \/ Check \/ LoadOutcome \/ SaveOutcome
    \/ OpenPage \/ ReadReviews \/ ReadDecisions \/ ClosePage
    \/ Restart

Spec == Init /\ [][Next]_vars

-----------------------------------------------------------------------------
(* Properties.                                                             *)

\* A decision a client was told of is never answered otherwise: not after a
\* failure, not after a restart, not because a collection was exported at the
\* same time (decide's decision_persisted; review_already_decided); unless an
\* export that had loaded the state before it was decided saved it afterwards.
DecisionIsKept ==
    [][\A e \in Entries :
          answered[e] # Absent => answered'[e] = answered[e] \/ e \in dropped]_vars

\* An approval that counts as completed can be read from the run that the
\* decision names, whatever else that export merged it with, however often it
\* was retried, and although the state is loaded and saved as a whole.
CompletedIsExported ==
    \A e \in Entries :
        LET d == file[e]
        IN  d.choice = "approved" /\ d.state = "completed" => e \in RunAccepted(d.run)

\* A page that was begun after a record was rejected does not offer it again,
\* although pages are served from a snapshot (_snapshot_signature), unless the
\* rejection was saved over in the meantime: listing.rejected has the others.
PageIsCurrent ==
    listing.step = "served" => listing.entries \cap listing.rejected = {}
=============================================================================
