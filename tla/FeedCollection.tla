---------------------------- MODULE FeedCollection ----------------------------
(***************************************************************************)
(* One collection of a feed or a listing (LocalCanonicalSourceExecutor in  *)
(* integration/local.py over rss_connector.py and cert_connector.py).  The *)
(* state of the source is read, the feed is asked for with the ETag it had,*)
(* every entry is processed and compared with the hash it had, the state   *)
(* is saved, and then the records are saved and go to the export.          *)
(*                                                                         *)
(* Abstraction.  The ETag of the feed is its edition.  A version of an     *)
(* entry is the edition it appeared in and the article behind it is part of*)
(* it; the record of an entry has the hash of its version.  Accepted and   *)
(* reviewed records are not told apart, nor is the window of days and items*)
(* an entry has to be in.  MaxEdition and MaxFaults are bounds.            *)
(***************************************************************************)
EXTENDS Naturals, FiniteSets

CONSTANTS Entries, MaxEdition, MaxFaults

VARIABLES
    feed,       \* the edition, and the version of each entry in it (0: not listed)
    store,      \* the state file: etag and the hash of each entry
    run,        \* a collection: its step, its state, what it read, what it made
    delivered,  \* history: the records that were handed over
    lost,       \* history: recorded in the state, and gone with a collection
    failed,     \* history: versions whose processing failed
    spoiled,    \* history: editions whose answer could not be parsed
    faults

vars    == <<feed, store, run, delivered, lost, failed, spoiled, faults>>
history == <<delivered, lost, failed, spoiled>>

Nothing  == [e \in Entries |-> 0]
Empty    == [etag |-> 0, hash |-> Nothing]
Idle     == [step |-> "idle", state |-> Empty, edition |-> 0, body |-> Nothing,
             left |-> {}, out |-> {}]
Listed   == {e \in Entries : feed.version[e] # 0}
Versions == Entries \X (1..MaxEdition)

TypeOK ==
    /\ feed.edition \in 1..MaxEdition /\ feed.version \in [Entries -> 0..feed.edition]
    /\ store.etag \in 0..feed.edition /\ store.hash \in [Entries -> 0..feed.edition]
    /\ run.step \in {"idle", "fetch", "process", "save", "files"}
    /\ run.left \subseteq Entries
    /\ run.out \cup delivered \cup lost \cup failed \subseteq Versions
    /\ spoiled \subseteq 1..MaxEdition /\ faults \in 0..MaxFaults

Init ==
    /\ feed = [edition |-> 1, version |-> Nothing] /\ store = Empty /\ run = Idle
    /\ delivered = {} /\ lost = {} /\ failed = {} /\ spoiled = {} /\ faults = 0

Fault == faults < MaxFaults /\ faults' = faults + 1

-----------------------------------------------------------------------------
\* An entry appears or changes, or leaves the feed.
Publish(e, listed) ==
    /\ feed.edition < MaxEdition
    /\ feed' = [edition |-> feed.edition + 1,
                version |-> [feed.version EXCEPT ![e] = IF listed THEN feed.edition + 1 ELSE 0]]
    /\ feed'.version # feed.version
    /\ UNCHANGED <<store, run, history, faults>>

\* execute up to the request.  "force" forgets the source, not its entries.
Begin(force) ==
    /\ run.step = "idle"
    /\ run' = [Idle EXCEPT !.step = "fetch",
                           !.state = IF force THEN [store EXCEPT !.etag = 0] ELSE store]
    /\ UNCHANGED <<feed, store, history, faults>>

RequestFails ==
    /\ run.step = "fetch" /\ Fault /\ run' = [run EXCEPT !.step = "save"]
    /\ UNCHANGED <<feed, store, history>>

NotModified ==
    /\ run.step = "fetch" /\ run.state.etag = feed.edition
    /\ run' = [run EXCEPT !.step = "save"]
    /\ UNCHANGED <<feed, store, history, faults>>

\* The ETag is kept before the answer is looked at.
Answered(step, entries) ==
    /\ run.step = "fetch" /\ run.state.etag # feed.edition
    /\ run' = [run EXCEPT !.step = step, !.state.etag = feed.edition,
                          !.edition = feed.edition, !.body = feed.version, !.left = entries]
    /\ UNCHANGED <<feed, store, delivered, lost, failed>>

Fetched == Answered("process", Listed) /\ UNCHANGED <<spoiled, faults>>

InvalidFeed ==
    /\ Answered("save", {}) /\ Fault /\ spoiled' = spoiled \cup {feed.edition}

\* previous_hash = record_hash.
IsUnchanged(e) == run.state.hash[e] = run.body[e]

\* _process_entry; the hash is recorded with the record.
Process(e) ==
    /\ run.step = "process" /\ e \in run.left
    /\ run' = [run EXCEPT
          !.left = @ \ {e}, !.state.hash[e] = run.body[e],
          !.out = IF IsUnchanged(e) THEN @ ELSE @ \cup {<<e, run.body[e]>>}]
    /\ UNCHANGED <<feed, store, history, faults>>

\* item_processing_failed: the other entries go on.
EntryFails(e) ==
    /\ run.step = "process" /\ e \in run.left /\ Fault
    /\ run' = [run EXCEPT !.left = @ \ {e}]
    /\ failed' = failed \cup {<<e, run.body[e]>>}
    /\ UNCHANGED <<feed, store, delivered, lost, spoiled>>

\* Mutation: only the hashes of what was handed over now are kept.
Saved_OutOnly == [run.state EXCEPT !.hash =
    [e \in Entries |-> IF \E v \in Versions : v \in run.out /\ v[1] = e THEN run.body[e] ELSE 0]]

\* manager.save: the whole state.
Saved == run.state

SaveState ==
    /\ run.step = "save" \/ (run.step = "process" /\ run.left = {})
    /\ store' = Saved /\ run' = [run EXCEPT !.step = "files"]
    /\ UNCHANGED <<feed, history, faults>>

\* The files of the run, its result and its export.
HandOver ==
    /\ run.step = "files" /\ run' = Idle /\ delivered' = delivered \cup run.out
    /\ UNCHANGED <<feed, store, lost, failed, spoiled, faults>>

\* The collector stops, or a step raises.  What the state has and no file has
\* will be taken for unchanged.
Dies ==
    /\ run.step # "idle" /\ Fault /\ run' = Idle
    /\ lost' = IF run.step = "files" THEN lost \cup run.out ELSE lost
    /\ UNCHANGED <<feed, store, delivered, failed, spoiled>>

Next ==
    \/ \E e \in Entries, listed \in BOOLEAN : Publish(e, listed)
    \/ \E force \in BOOLEAN : Begin(force)
    \/ RequestFails \/ NotModified \/ Fetched \/ InvalidFeed
    \/ \E e \in Entries : Process(e) \/ EntryFails(e)
    \/ SaveState \/ HandOver \/ Dies

Spec == Init /\ [][Next]_vars

\* The timer starts a collection again and again; a collection goes on.
Fairness ==
    /\ WF_vars(Begin(FALSE)) /\ WF_vars(NotModified \/ Fetched)
    /\ WF_vars(SaveState \/ \E e \in Entries : Process(e)) /\ WF_vars(HandOver)

FairSpec == Spec /\ Fairness

-----------------------------------------------------------------------------
(* Properties.                                                             *)

\* What the feed would answer with "not modified" has been dealt with: each of
\* its entries was handed over, or is one of the losses the code has by design
\* (its processing failed, the edition could not be parsed, or the collector
\* stopped between the state and the files).
NothingIsPassedOver ==
    store.etag = feed.edition /\ run.step = "idle" /\ store.etag \notin spoiled =>
        \A e \in Listed : <<e, feed.version[e]>> \in delivered \cup lost \cup failed

\* "A stage may be skipped only if ... the prior stage execution completed
\* successfully" (docs/external_sources_master_prompt.md:298): an entry whose
\* processing failed is processed again while the feed still has it.
FailedIsRetried ==
    \A e \in Entries, v \in 1..MaxEdition :
        <<e, v>> \in failed ~> feed.version[e] # v \/ <<e, v>> \in delivered \cup lost

\* A record is handed over only once: nothing is in two collections' files.
HandedOverOnce == [][run.step = "files" /\ run'.step = "idle" => run.out \cap delivered = {}]_vars
=============================================================================
