----------------------------- MODULE ManualSources -----------------------------
(***************************************************************************)
(* Manual sources that are listings (manual_source_service.py, and the sink*)
(* and the export of integration/local.py).  A job reads the state file,   *)
(* crawls the listing, retires the records of what left it, visits what it *)
(* lists, writes back the whole state it read, and exports what the sink   *)
(* has accepted.  Jobs run beside each other, also for the same listing,   *)
(* and roots are enabled, disabled and removed meanwhile.                  *)
(*                                                                         *)
(* Abstraction.  A root is the page of a listing.  A child's record is its *)
(* content and the listing it was processed for, the two the hash covers   *)
(* that can differ; its entity tag is its content.  The hashes of rules and*)
(* models do not change.  The calls of the sink for one listing, or for one*)
(* child, are one step.  MaxChanges bounds the changes of the web and the  *)
(* commands; MaxFaults the deaths of a job.                                *)
(***************************************************************************)
EXTENDS Naturals, FiniteSets

CONSTANTS Listings, Children, Contents, Relevant, Workers, MaxChanges, MaxFaults, None

Records == Contents \X Listings

VARIABLES
    web,       \* what each listing lists, and the content of each child
    file,      \* manual_sources.json: roots, known_sub_links, etag and hash of a child
    accepted,  \* the sink's checkpoint: the accepted record of a child
    dataset,   \* the records of the newest dataset, by child
    job,       \* what a worker is doing, with the state it has read
    snapshot,  \* history: the links of the last crawl that found the listing changed, or was forced
    late,      \* history: what a job accepted after a later crawl that did not list it
    changes, faults

vars == <<web, file, accepted, dataset, job, snapshot, late, changes, faults>>

NoJob == [step |-> "none", root |-> None, force |-> FALSE, state |-> None,
          links |-> {}, left |-> {}, material |-> FALSE, read |-> None]

NoRecord == [c \in Children |-> None]

TypeOK ==
    /\ web.lists \in [Listings -> SUBSET Children] /\ web.content \in [Children -> Contents]
    /\ file.root \in [Listings -> {"none", "active", "disabled", "removed"}]
    /\ file.known \in [Listings -> SUBSET Children]
    /\ file.etag \in [Children -> Contents \cup {None}]
    /\ {file.hash, accepted, dataset} \subseteq [Children -> Records \cup {None}]
    /\ \A w \in Workers :
        /\ job[w].step \in {"none", "queued", "crawl", "children", "export", "write"}
        /\ job[w].left \subseteq job[w].links
    /\ snapshot \in [Listings -> SUBSET Children] /\ late \subseteq Children
    /\ changes \in 0..MaxChanges /\ faults \in 0..MaxFaults

Init ==
    /\ web \in [lists : {[l \in Listings |-> Children]},
                content : {[c \in Children |-> CHOOSE k \in Relevant : TRUE]}]
    /\ file = [root |-> [l \in Listings |-> "none"], known |-> [l \in Listings |-> {}],
               etag |-> NoRecord, hash |-> NoRecord]
    /\ accepted = NoRecord /\ dataset = NoRecord /\ job = [w \in Workers |-> NoJob]
    /\ snapshot = [l \in Listings |-> {}] /\ late = {} /\ changes = 0 /\ faults = 0

Change == changes < MaxChanges /\ changes' = changes + 1

-----------------------------------------------------------------------------
(* The web and the commands.                                               *)

Relist(l, c) ==
    /\ Change
    /\ web' = [web EXCEPT !.lists[l] = IF c \in @ THEN @ \ {c} ELSE @ \cup {c}]
    /\ UNCHANGED <<file, accepted, dataset, job, snapshot, late, faults>>

Rewrite(c, k) ==
    /\ Change /\ web.content[c] # k /\ web' = [web EXCEPT !.content[c] = k]
    /\ UNCHANGED <<file, accepted, dataset, job, snapshot, late, faults>>

\* set_tracked_root_enabled.
SetEnabled(l, enabled) ==
    /\ Change /\ file.root[l] \in {"active", "disabled"}
    /\ file' = [file EXCEPT !.root[l] = IF enabled THEN "active" ELSE "disabled"]
    /\ UNCHANGED <<web, accepted, dataset, job, snapshot, late, faults>>

\* remove_tracked_root.
Remove(l) ==
    /\ Change /\ file.root[l] \in {"active", "disabled"}
    /\ file' = [file EXCEPT !.root[l] = "removed"]
    /\ UNCHANGED <<web, accepted, dataset, job, snapshot, late, faults>>

\* _manual_job: a URL is submitted, or a root that is active rechecked.
Queue(w, l, force) ==
    /\ job[w].step = "none" /\ (force => file.root[l] = "active")
    /\ job' = [job EXCEPT ![w] = [NoJob EXCEPT !.step = "queued", !.root = l, !.force = force]]
    /\ UNCHANGED <<web, file, accepted, dataset, snapshot, late, changes, faults>>

-----------------------------------------------------------------------------
(* A job.                                                                  *)

\* _register_tracked_root: also a root that was disabled or removed.
Registered(l) == [file EXCEPT !.root[l] = "active"]

\* add_manual_source registers the root, also for a recheck; a forced one only
\* reads the state.
Begin(w) ==
    LET j == job[w]
        state == IF j.force THEN file ELSE Registered(j.root)
    IN  /\ j.step = "queued" /\ file' = state
        /\ job' = [job EXCEPT ![w].step = "crawl", ![w].state = state]
        /\ UNCHANGED <<web, accepted, dataset, snapshot, late, changes, faults>>

\* The crawl failed, or the listing has not changed: the state is written back.
NoCrawl(w, unchanged) ==
    LET j == job[w]
    IN  /\ j.step = "crawl"
        /\ IF unchanged
           THEN /\ ~j.force /\ j.state.known[j.root] = web.lists[j.root]
                /\ web.lists[j.root] # {} /\ file' = j.state
           ELSE UNCHANGED file
        /\ job' = [job EXCEPT ![w] = NoJob]
        /\ UNCHANGED <<web, accepted, dataset, snapshot, late, changes, faults>>

\* Mutation: only what the state file knew of is retired.
Gone_KnownOnly(l, known, current) == known \ current

\* What the listing no longer has: of what the state file knew, and of what the
\* sink has accepted for it (reconcile_listing).
Gone(l, known, current) ==
    (known \ current)
        \cup {c \in Children \ current : accepted[c] # None /\ accepted[c][2] = l}

\* _process_listing up to the children.
CrawlListing(w) ==
    LET j == job[w]
        current == web.lists[j.root]
        gone == {c \in Gone(j.root, j.state.known[j.root], current) : accepted[c] # None}
    IN  /\ j.step = "crawl"
        /\ accepted' = [c \in Children |-> IF c \in gone THEN None ELSE accepted[c]]
        /\ job' = [job EXCEPT ![w].step = "children", ![w].links = current,
                              ![w].left = current, ![w].material = gone # {}]
        /\ snapshot' = [snapshot EXCEPT ![j.root] = current]
        /\ late' = {c \in late : accepted[c] # None /\ accepted[c][2] # j.root}
        /\ UNCHANGED <<web, file, dataset, changes, faults>>

\* mark_seen: a record that is still accepted belongs to this listing now.
Seen(w, c) ==
    IF job[w].state.hash[c] # None /\ accepted[c] # None
    THEN [accepted EXCEPT ![c] = <<@[1], job[w].root>>] ELSE accepted

\* Another job has crawled the listing since, and did not find the child.
Late(w, c) == late' = IF c \in snapshot[job[w].root] THEN late ELSE late \cup {c}

\* The answer to the conditional request for a child the listing had.
Unchanged(w, c) ==
    /\ c \in job[w].state.known[job[w].root] /\ job[w].state.etag[c] = web.content[c]

\* The child is unchanged, or cannot be read.
PassChild(w, c) ==
    /\ job[w].step = "children" /\ c \in job[w].left
    /\ IF Unchanged(w, c) THEN UNCHANGED faults ELSE faults < MaxFaults /\ faults' = faults + 1
    /\ accepted' = Seen(w, c) /\ job' = [job EXCEPT ![w].left = @ \ {c}]
    /\ Late(w, c) /\ UNCHANGED <<web, file, dataset, snapshot, changes>>

\* The sink keeps what is accepted, and drops what no longer is.
Sunk(c, record) == [accepted EXCEPT ![c] = IF record[1] \in Relevant THEN record ELSE None]

\* _process_article and the sink: a record like the one before is left alone.
VisitChild(w, c) ==
    LET j == job[w]
        record == <<web.content[c], j.root>>
        same == j.state.hash[c] = record
    IN  /\ j.step = "children" /\ c \in j.left /\ ~Unchanged(w, c)
        /\ accepted' = IF same THEN Seen(w, c) ELSE Sunk(c, record)
        /\ job' = [job EXCEPT
              ![w].left = @ \ {c}, ![w].material = @ \/ ~same,
              ![w].state = [@ EXCEPT !.etag[c] = web.content[c], !.hash[c] = record]]
        /\ Late(w, c) /\ UNCHANGED <<web, file, dataset, snapshot, changes, faults>>

\* The state that was read is written back whole.
SaveState(w) ==
    LET j == job[w]
    IN  /\ j.step = "children" /\ j.left = {}
        /\ file' = [j.state EXCEPT !.known[j.root] = j.links]
        /\ job' = [job EXCEPT ![w] = IF j.material THEN [NoJob EXCEPT !.step = "export"] ELSE NoJob]
        /\ UNCHANGED <<web, accepted, dataset, snapshot, late, changes, faults>>

\* ExportingManualSourceService._run: what is accepted, and its dataset.
ReadAccepted(w) ==
    /\ job[w].step = "export"
    /\ job' = [job EXCEPT ![w].step = "write", ![w].read = accepted]
    /\ UNCHANGED <<web, file, accepted, dataset, snapshot, late, changes, faults>>

Export(w) ==
    /\ job[w].step = "write" /\ dataset' = job[w].read /\ job' = [job EXCEPT ![w] = NoJob]
    /\ UNCHANGED <<web, file, accepted, snapshot, late, changes, faults>>

\* A step raises, the export fails, or the collector stops.
Dies(w) ==
    /\ job[w].step # "none" /\ faults < MaxFaults /\ faults' = faults + 1
    /\ job' = [job EXCEPT ![w] = NoJob]
    /\ UNCHANGED <<web, file, accepted, dataset, snapshot, late, changes>>

Next ==
    \/ \E l \in Listings, c \in Children : Relist(l, c)
    \/ \E c \in Children, k \in Contents : Rewrite(c, k)
    \/ \E l \in Listings, enabled \in BOOLEAN : SetEnabled(l, enabled)
    \/ \E l \in Listings : Remove(l)
    \/ \E w \in Workers, l \in Listings, force \in BOOLEAN : Queue(w, l, force)
    \/ \E w \in Workers : Begin(w) \/ CrawlListing(w) \/ SaveState(w)
    \/ \E w \in Workers, unchanged \in BOOLEAN : NoCrawl(w, unchanged)
    \/ \E w \in Workers, c \in Children : PassChild(w, c) \/ VisitChild(w, c)
    \/ \E w \in Workers : ReadAccepted(w) \/ Export(w) \/ Dies(w)

Spec == Init /\ [][Next]_vars

-----------------------------------------------------------------------------
(* Properties.                                                             *)

\* "Retired records ... cannot re-enter a future dataset"
\* (docs/architecture/external_sources_manual_url_delivery.md:15): a dataset
\* has no record of a listing that the listing's last crawl did not list.
\* Unless the record was retired after the job had read what is accepted, or a
\* job that had crawled the listing before accepted it afterwards: of a job
\* that runs alone, and of what it reads later, it is true.
RetiredIsNotExported ==
    [][\A w \in Workers : job[w].step = "write" /\ job'[w].step = "none" /\ faults' = faults =>
          \A c \in Children : dataset'[c] # None =>
              c \in snapshot[dataset'[c][2]] \/ accepted[c] = None \/ c \in late]_vars

\* "The latest ranked child set is the active snapshot for a listing" (the same
\* page): what it lists, was read, and is relevant, is accepted.
ListedIsActive ==
    faults = 0 /\ (\A w \in Workers : job[w].step \in {"none", "queued"}) =>
        \A l \in Listings : \A c \in file.known[l] :
            file.hash[c] # None /\ file.hash[c][1] \in Relevant => accepted[c] # None
=============================================================================
