--------------------------- MODULE AdvisoryWindow ----------------------------
(***************************************************************************)
(* Incremental collection of a vulnerability database                      *)
(* (vulnerability_connector.py).  A collection asks for what was modified  *)
(* since the checkpoint, page by page; after MaxPages pages it keeps a     *)
(* continuation and the next collection goes on from there.  The checkpoint*)
(* advances with the last page.  NVD's continuation is an index into a     *)
(* window that is computed anew; GitHub's is the URL of the next page.     *)
(*                                                                         *)
(* Abstraction.  A record is known by its last modification; no two are    *)
(* modified at the same time.  The database lists them by it.  Two         *)
(* collections are never so far apart that the window is cut (120 days).   *)
(* MaxClock and MaxFaults are bounds.                                      *)
(***************************************************************************)
EXTENDS Naturals, FiniteSets

CONSTANTS Records, PageSize, MaxPages, MaxClock, MaxFaults

VARIABLES
    kind,       \* what the database keeps of a window: "index" (NVD), "url" (GitHub)
    clock,
    modified,   \* [Records -> time], 0: not published
    saved,      \* the state file: checkpoint, and the continuation of a window
    run,        \* a collection: its window, where it is in it, what it has
    collected,  \* history: the versions that were handed over
    slipped,    \* history: versions that moved in front of an open continuation
    skipped,    \* history: times that the checkpoint passed and no window reached
    faults

vars == <<kind, clock, modified, saved, run, collected, slipped, skipped, faults>>

Window(from, to, index) == [from |-> from, to |-> to, index |-> index]
NoWindow == Window(0, 0, 0)
Idle     == [step |-> "idle", window |-> NoWindow, end |-> 0, pages |-> 0, got |-> {}]
Version(r) == <<r, modified[r]>>

TypeOK ==
    /\ kind \in {"index", "url"} /\ clock \in 0..MaxClock /\ modified \in [Records -> 0..clock]
    /\ saved.checkpoint \in 0..clock /\ saved.next.to \in 0..clock
    /\ saved.next.index \in 0..Cardinality(Records)
    /\ run.step \in {"idle", "page", "more", "whole"} /\ run.end \in 0..clock
    /\ run.pages \in 0..MaxPages
    /\ run.got \cup collected \cup slipped \subseteq Records \X (1..MaxClock)
    /\ skipped \subseteq 1..clock /\ faults \in 0..MaxFaults

Init ==
    /\ kind \in {"index", "url"} /\ clock = 0 /\ modified = [r \in Records |-> 0]
    /\ saved = [checkpoint |-> 0, next |-> NoWindow]
    /\ run = Idle /\ collected = {} /\ slipped = {}
    /\ skipped = {} /\ faults = 0

Fault == faults < MaxFaults /\ faults' = faults + 1

-----------------------------------------------------------------------------
\* The database's answer to a window, and the place of a record in it: it is
\* listed by time of modification, from place 0 on.
InWindow(w) ==
    {r \in Records : modified[r] # 0 /\ w.from <= modified[r] /\ modified[r] <= w.to}

Place(r, w) == Cardinality({s \in InWindow(w) : modified[s] < modified[r]})

Page(w) ==
    {r \in InWindow(w) : w.index <= Place(r, w) /\ Place(r, w) < w.index + PageSize}

\* What was on a page.
Passed(w) == {r \in InWindow(w) : Place(r, w) < w.index}

\* Where the pages have got to: of this collection, of the one after it, and of
\* the one that would follow if it failed.  A URL stays at the window it is of.
UpToNow(w) ==
    IF kind = "url" THEN w ELSE [w EXCEPT !.from = saved.checkpoint, !.to = clock]

Open ==
    {UpToNow(saved.next)} \cup
    (IF run.step \in {"page", "more"} THEN {run.window, UpToNow(run.window)} ELSE {})

\* The first record that was not on a page, if r was on one.
MovesUp(r, w) ==
    {Version(s) : s \in {s \in InWindow(w) : r \in Passed(w) /\ Place(s, w) = w.index}}

\* A record changes.  One that was on a page already leaves its place, and the
\* first that was not moves up to a page that is not asked for again.
Modify(r) ==
    /\ clock < MaxClock /\ clock' = clock + 1
    /\ modified' = [modified EXCEPT ![r] = clock']
    /\ slipped' = slipped \cup UNION {MovesUp(r, w) : w \in Open}
    /\ UNCHANGED <<kind, saved, run, collected, skipped, faults>>

\* Mutation: the index of a continuation is forgotten.
Resumed_FromStart == Window(saved.checkpoint, clock, 0)

\* _window up to now, from the index that was kept; or the URL that was kept.
Resumed ==
    IF kind = "url" /\ saved.next # NoWindow THEN saved.next
    ELSE Window(saved.checkpoint, clock, saved.next.index)

Begin ==
    /\ run.step = "idle"
    /\ run' = [Idle EXCEPT !.step = "page", !.window = Resumed, !.end = clock]
    /\ UNCHANGED <<kind, clock, modified, saved, collected, slipped, skipped, faults>>

\* The page is empty, or reaches the total.
IsLast(w) == Page(w) = {} \/ w.index + Cardinality(Page(w)) >= Cardinality(InWindow(w))

ReadPage ==
    LET w == run.window
    IN  /\ run.step = "page"
        /\ run' = [run EXCEPT
              !.got = @ \cup {Version(r) : r \in Page(w)},
              !.window.index = @ + Cardinality(Page(w)), !.pages = @ + 1,
              !.step = IF IsLast(w) THEN "whole"
                       ELSE IF run.pages + 1 = MaxPages THEN "more" ELSE "page"]
        /\ UNCHANGED <<kind, clock, modified, saved, collected, slipped, skipped, faults>>

\* Mutation: the checkpoint advances at the page limit too.
State_Always == [checkpoint |-> run.end, next |-> NoWindow]

\* A continuation is kept at the page limit; the checkpoint waits for the last
\* page, and moves to the time at which this collection began.
State ==
    IF run.step = "more" THEN [saved EXCEPT !.next = run.window]
    ELSE [checkpoint |-> run.end, next |-> NoWindow]

\* The state is saved, and what was observed is handed over.
Finish ==
    /\ run.step \in {"more", "whole"}
    /\ saved' = State /\ collected' = collected \cup run.got /\ run' = Idle
    /\ skipped' = skipped \cup (IF run.step = "whole" THEN run.window.to + 1..run.end ELSE {})
    /\ UNCHANGED <<kind, clock, modified, slipped, faults>>

\* A request fails, or the collector stops: what this collection had is gone,
\* the state is the one it began with.
Fail ==
    /\ run.step # "idle" /\ Fault /\ run' = Idle
    /\ UNCHANGED <<kind, clock, modified, saved, collected, slipped, skipped>>

Next ==
    \/ \E r \in Records : Modify(r)
    \/ Begin \/ ReadPage \/ Finish \/ Fail

Spec == Init /\ [][Next]_vars

\* Collections are started again and again, and go on.
Fairness == WF_vars(Begin) /\ WF_vars(ReadPage) /\ WF_vars(Finish)

FairSpec == Spec /\ Fairness

-----------------------------------------------------------------------------
(* Properties.                                                             *)

\* Why a version may not have been collected: the database moved it up while a
\* window was open; or it was modified after the window of the URL that was
\* kept, and before the collection began that read the last page of it.
PassedOver(r) == Version(r) \in slipped \/ (kind = "url" /\ modified[r] \in skipped)

\* What the checkpoint has passed was collected, however many collections and
\* failures the window took, if it was not passed over ("A window checkpoint
\* advances only when its final page succeeds",
\* docs/architecture/external_sources_vulnerability_delivery.md:14).
CheckpointCovers ==
    \A r \in Records :
        0 < modified[r] /\ modified[r] <= saved.checkpoint =>
            Version(r) \in collected \/ PassedOver(r)

\* However often collections were cut at their page limit or failed: once the
\* database comes to rest (MaxClock), what it has is collected, if it was not
\* passed over.
ChangesAreCollected ==
    []<>(\A r \in Records : modified[r] # 0 => Version(r) \in collected \/ PassedOver(r))
=============================================================================
