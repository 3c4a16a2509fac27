---------------------------- MODULE ReviewLifecycle ----------------------------
(***************************************************************************)
(* Reviews as the users of the backend see them (api/v1/router.py): the    *)
(* page of open reviews is put together from several pages of the          *)
(* collector (LocalReviewService.latest), its lifecycle, and what the      *)
(* database of the backend has: the events of imported records and the     *)
(* audit entries of decisions.  A decision goes to the collector, which    *)
(* exports an approved record, and then to the import of that export.      *)
(*                                                                         *)
(* Abstraction.  A version of a record is listed once, in the order of the *)
(* newest first.  The export of an approval is made or fails with the      *)
(* decision, an import stores its record or fails (ReviewExports and       *)
(* ReviewImport have the steps of both).  At most MaxFaults steps fail and *)
(* MaxPages pages are made (bounds).                                       *)
(***************************************************************************)
EXTENDS Naturals, Sequences, SequencesExt

CONSTANTS
    Versions,     \* [record, content]
    Requests, None,
    PageSize,     \* 50 records in a page of the collector
    MaxFaults, MaxPages

VARIABLES
    listed,    \* the versions of the review files, the newest first
    decision,  \* the collector's decisions, with the state of the export
    events,    \* the records that the backend has an event of
    audited,   \* [record -> the processing state of its last audit entry]
    req,       \* the decisions that users ask for
    page,      \* a page of reviews being made, with what was so at its begin
    pages, faults

vars == <<listed, decision, events, audited, req, page, pages, faults>>

Records   == {v.record : v \in Versions}
Undecided == [choice |-> None, export |-> None]
Idle      == [step |-> "idle", version |-> None, choice |-> None]
NoPage    == [step |-> "idle", seen |-> <<>>, offset |-> 0, states |-> <<>>, shown |-> <<>>,
              due |-> {}, approved |-> {}, failed |-> {}, rejected |-> {}, moved |-> FALSE]

TypeOK ==
    /\ ToSet(listed) \subseteq Versions /\ IsInjective(listed)
    /\ \A v \in Versions :
          /\ decision[v].choice \in {"approved", "rejected", None}
          /\ decision[v].export \in {"ready", "failed", None}
    /\ events \subseteq Records
    /\ audited \in [Records -> {"completed", "failed", None}]
    /\ \A q \in Requests : req[q].step \in {"idle", "sent", "import", "failed", "completed"}
    /\ page.step \in {"idle", "reading", "lifecycle", "project", "done"}
    /\ pages \in 0..MaxPages /\ faults \in 0..MaxFaults

Init ==
    /\ listed = <<>> /\ decision = [v \in Versions |-> Undecided] /\ events = {}
    /\ audited = [r \in Records |-> None] /\ req = [q \in Requests |-> Idle]
    /\ page = NoPage /\ pages = 0 /\ faults = 0

Fault == faults < MaxFaults /\ faults' = faults + 1

-----------------------------------------------------------------------------
(* The collector.                                                          *)

\* The snapshot of reviews: what was rejected is left out.
Open == SelectSeq(listed, LAMBDA v : decision[v].choice # "rejected")

\* A page that is being read sees the snapshot move.
Moved == [page EXCEPT !.moved = page.moved \/ page.step = "reading"]

Collect(v) ==
    /\ v \notin ToSet(listed)
    /\ listed' = <<v>> \o listed /\ page' = Moved
    /\ UNCHANGED <<decision, events, audited, req, pages, faults>>

\* A version of a record is accepted by a collection, and imported.
Accept(r) ==
    /\ events' = events \cup {r} /\ r \notin events
    /\ UNCHANGED <<listed, decision, audited, req, page, pages, faults>>

OtherIsDecided(v) ==
    \E w \in Versions \ {v} : w.record = v.record /\ decision[w].choice # None

\* The version of the newest review file that has the record.
IsNewest(v) ==
    LET same == SelectSeq(listed, LAMBDA w : w.record = v.record)
    IN same # <<>> /\ Head(same) = v

\* A version decided before is read again from the file it was found in.
MayDecide(v, choice) ==
    /\ ~OtherIsDecided(v)
    /\ decision[v].choice \in {None, choice}
    /\ decision[v].choice # None \/ IsNewest(v)

\* RawState of lifecycle().
RawState(v) ==
    CASE decision[v].choice = "rejected" -> "rejected"
      [] decision[v].choice = None       -> "pending_review"
      [] decision[v].export = "failed"   -> "processing_failed"
      [] OTHER                           -> "approved_processing"

-----------------------------------------------------------------------------
(* A decision of a user.                                                   *)

Ask(q, v, choice) ==
    /\ req[q].step = "idle"
    /\ req' = [req EXCEPT ![q] = [step |-> "sent", version |-> v, choice |-> choice]]
    /\ UNCHANGED <<listed, decision, events, audited, page, pages, faults>>

Refuse(q) ==
    /\ req[q].step = "sent" /\ ~MayDecide(req[q].version, req[q].choice)
    /\ req' = [req EXCEPT ![q] = Idle]
    /\ UNCHANGED <<listed, decision, events, audited, page, pages, faults>>

\* decide: an approval is exported, once more if its export had failed.
Decide(q) ==
    LET v == req[q].version IN
    /\ req[q].step = "sent" /\ MayDecide(v, req[q].choice)
    /\ decision' = [decision EXCEPT ![v] =
           [choice |-> req[q].choice, export |-> IF req[q].choice = "approved" THEN "ready" ELSE None]]
    /\ req' = [req EXCEPT ![q].step = IF req[q].choice = "approved" THEN "import" ELSE "completed"]
    /\ page' = IF req[q].choice = "rejected" THEN Moved ELSE page
    /\ UNCHANGED <<listed, events, audited, pages, faults>>

\* The decision is saved; the backend has an error, and writes no audit entry.
ExportFails(q) ==
    LET v == req[q].version IN
    /\ req[q].step = "sent" /\ req[q].choice = "approved" /\ MayDecide(v, "approved") /\ Fault
    /\ decision[v].export # "ready"
    /\ decision' = [decision EXCEPT ![v] = [choice |-> "approved", export |-> "failed"]]
    /\ req' = [req EXCEPT ![q] = Idle]
    /\ UNCHANGED <<listed, events, audited, page, pages>>

\* sync_external_run.
Import(q) ==
    /\ req[q].step = "import"
    /\ events' = events \cup {req[q].version.record}
    /\ req' = [req EXCEPT ![q].step = "completed"]
    /\ UNCHANGED <<listed, decision, audited, page, pages, faults>>

ImportFails(q) ==
    /\ req[q].step = "import" /\ Fault
    /\ req' = [req EXCEPT ![q].step = "failed"]
    /\ UNCHANGED <<listed, decision, events, audited, page, pages>>

Audit(q) ==
    /\ req[q].step \in {"failed", "completed"}
    /\ audited' = [audited EXCEPT ![req[q].version.record] = req[q].step]
    /\ req' = [req EXCEPT ![q] = Idle]
    /\ UNCHANGED <<listed, decision, events, page, pages, faults>>

\* The answer of the collector is lost, or the backend stops.
Dies(q) ==
    /\ req[q].step # "idle" /\ Fault /\ req' = [req EXCEPT ![q] = Idle]
    /\ UNCHANGED <<listed, decision, events, audited, page, pages>>

-----------------------------------------------------------------------------
(* The page of open reviews.                                               *)

Begin ==
    /\ page.step \in {"idle", "done"} /\ pages < MaxPages /\ pages' = pages + 1
    /\ page' = [NoPage EXCEPT !.step = "reading",
           !.due = {v \in ToSet(Open) : v.record \notin events},
           !.approved = {v \in ToSet(Open) : decision[v].choice = "approved"},
           !.failed = {v \in ToSet(Open) : audited[v.record] = "failed"},
           !.rejected = {v \in Versions : decision[v].choice = "rejected"}]
    /\ UNCHANGED <<listed, decision, events, audited, req, faults>>

ReadPage ==
    LET upTo == IF page.offset + PageSize > Len(Open) THEN Len(Open) ELSE page.offset + PageSize
        part == IF page.offset >= Len(Open) THEN <<>> ELSE SubSeq(Open, page.offset + 1, upTo)
        next == page.offset + Len(part)
    IN
    /\ page.step = "reading"
    /\ page' = [page EXCEPT
           !.seen = page.seen \o
               [i \in DOMAIN part |-> [version |-> part[i], status |-> RawState(part[i])]],
           !.offset = next,
           !.step = IF part = <<>> \/ next >= Len(Open) THEN "lifecycle" ELSE "reading"]
    /\ UNCHANGED <<listed, decision, events, audited, req, pages, faults>>

ReadLifecycle ==
    /\ page.step = "lifecycle"
    /\ page' = [page EXCEPT !.step = "project", !.states =
           [v \in {w \in Versions : w \in ToSet(listed) \/ decision[w].choice # None} |-> RawState(v)]]
    /\ UNCHANGED <<listed, decision, events, audited, req, pages, faults>>

\* _project_review_lifecycle: by the record, not by the version.
Projected(v) ==
    IF v.record \in events THEN "processed"
    ELSE IF audited[v.record] = "failed" THEN "processing_failed"
    ELSE page.states[v]

Project ==
    LET shown == SelectSeq(page.seen, LAMBDA e : Projected(e.version) \notin {"processed", "rejected"})
    IN
    /\ page.step = "project"
    /\ page' = [page EXCEPT !.step = "done", !.shown =
           [i \in DOMAIN shown |->
               [version |-> shown[i].version,
                status |-> IF Projected(shown[i].version) = "pending_review" THEN shown[i].status
                           ELSE Projected(shown[i].version)]]]
    /\ UNCHANGED <<listed, decision, events, audited, req, pages, faults>>

Next ==
    \/ \E v \in Versions : Collect(v)
    \/ \E r \in Records : Accept(r)
    \/ \E q \in Requests :
        \/ \E v \in ToSet(listed), choice \in {"approved", "rejected"} : Ask(q, v, choice)
        \/ Refuse(q) \/ Decide(q) \/ ExportFails(q) \/ Import(q) \/ ImportFails(q)
        \/ Audit(q) \/ Dies(q)
    \/ Begin \/ ReadPage \/ ReadLifecycle \/ Project

Spec == Init /\ [][Next]_vars

-----------------------------------------------------------------------------
(***************************************************************************)
(* A page has every version that was open when it was begun, that nobody   *)
(* rejected meanwhile and of whose record there is still no event, each    *)
(* once; and an approval whose import failed as one that failed, so that   *)
(* it can be repeated.  It has none that was rejected before it was begun. *)
(* This is not so while a new review or a rejection moves the pages of the *)
(* collector under it.                                                     *)
(***************************************************************************)
OpenIsOffered ==
    LET shown == {page.shown[i].version : i \in DOMAIN page.shown}
        status(v) == (CHOOSE e \in ToSet(page.shown) : e.version = v).status
    IN page.step = "done" =>
        /\ page.rejected \cap shown = {}
        /\ ~page.moved =>
            /\ IsInjective([i \in DOMAIN page.shown |-> page.shown[i].version])
            /\ \A v \in page.due :
                decision[v].choice # "rejected" /\ v.record \notin events =>
                    /\ v \in shown
                    /\ v \in page.approved => status(v) # "pending_review"
                    /\ v \in page.failed /\ audited[v.record] = "failed" =>
                           status(v) = "processing_failed"
=============================================================================
