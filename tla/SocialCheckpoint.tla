--------------------------- MODULE SocialCheckpoint ---------------------------
(***************************************************************************)
(* What a social source has been read up to (telegram_connector.py and     *)
(* hackernews_connector.py on social_common.py).  Both walk back from the  *)
(* newest message, at most MaxPages pages.  A channel's cursor is the      *)
(* oldest message of the page before, and its checkpoint is the newest     *)
(* message seen.  A search asks for what is newer than its checkpoint, page*)
(* by number, and its checkpoint is the newest story it produced.          *)
(*                                                                         *)
(* Abstraction.  Messages are numbered in the order they appear, do not    *)
(* change and are not withdrawn; the messages of Blank have nothing to     *)
(* collect.  The item hashes say which were produced before.  MaxFaults is *)
(* a bound.                                                                *)
(***************************************************************************)
EXTENDS Naturals, FiniteSets, FiniteSetsExt

CONSTANTS Last, Blank, PageSize, MaxPages, MaxItems, MaxFaults

Messages == 1..Last

VARIABLES
    kind,       \* "channel" (Telegram) or "search" (Hacker News)
    newest,     \* the newest message there is
    checkpoint, \* checkpoint_message_id, checkpoint_created_at_i
    known,      \* the messages with a recorded hash
    run,        \* a collection
    cut,        \* history: what a limit of the walk left out
    faults

vars == <<kind, newest, checkpoint, known, run, cut, faults>>

Idle == [step |-> "idle", page |-> 0, before |-> 0, seen |-> {}, done |-> {},
         items |-> {}, error |-> FALSE, bounded |-> FALSE]

TypeOK ==
    /\ kind \in {"channel", "search"}
    /\ newest \in 0..Last /\ checkpoint \in 0..Last /\ known \cup cut \subseteq Messages
    /\ run.step \in {"idle", "page", "end", "limit", "failed"} /\ run.page \in 0..MaxPages
    /\ run.before \in 0..(Last + 1) /\ run.items \subseteq run.done
    /\ run.done \subseteq run.seen /\ run.seen \subseteq Messages
    /\ faults \in 0..MaxFaults

Init ==
    /\ kind \in {"channel", "search"} /\ newest = 0 /\ checkpoint = 0
    /\ known = {} /\ run = Idle /\ cut = {} /\ faults = 0

Fault == faults < MaxFaults /\ faults' = faults + 1

Highest(n, S) == {m \in S : Cardinality({x \in S : x > m}) < n}

-----------------------------------------------------------------------------
Appear ==
    /\ newest < Last /\ newest' = newest + 1
    /\ UNCHANGED <<kind, checkpoint, known, run, cut, faults>>

Begin ==
    /\ run.step = "idle" /\ run' = [Idle EXCEPT !.step = "page", !.before = Last + 1]
    /\ UNCHANGED <<kind, newest, checkpoint, known, cut, faults>>

\* The stories of the search: newer than the checkpoint.
Hits == {m \in 1..newest : m > checkpoint}

Page ==
    IF kind = "channel" THEN Highest(PageSize, {m \in 1..newest : m < run.before})
    ELSE Highest(PageSize, Hits \ Highest(run.page * PageSize, Hits))

\* How many more items a collection of the channel takes.
Room == IF kind = "channel" THEN MaxItems - Cardinality(run.items) ELSE Last

New == {m \in Page \ (run.seen \cup Blank) : m > checkpoint}

\* What is processed of a page if "bad" fail: from the oldest on, as long as
\* there is room.  One that fails or was produced before takes none.
Taken(bad) ==
    {m \in New : Cardinality({x \in New \ (known \cup bad) : x < m}) < Room}

Oldest == Min(Page)

\* The walk of a channel ends: the limit of items, nothing there, the checkpoint
\* reached, nothing added.  That of a search: the last page there is.
IsOver(items, added) ==
    IF kind = "channel" THEN
        \/ Cardinality(items) >= MaxItems \/ Page \subseteq run.seen
        \/ Oldest <= checkpoint \/ added = {}
    ELSE (run.page + 1) * PageSize >= Cardinality(Hits)

\* Does it leave out a message that is newer than the checkpoint?
LeavesOut(bad, items, added) ==
    /\ kind = "channel"
    /\ \/ New # Taken(bad)
       \/ /\ Page # {} /\ Oldest > checkpoint
          /\ Cardinality(items) >= MaxItems \/ added = {} \/ run.page + 1 = MaxPages

\* The messages of a page, of which those of "bad" fail.
ReadPage(bad) ==
    LET added == Taken(bad) \ bad
        items == run.items \cup (added \ known)
    IN  /\ run.step = "page" /\ bad \subseteq Taken(bad)
        /\ IF bad = {} THEN UNCHANGED faults ELSE Fault
        /\ known' = known \cup added
        /\ run' = [run EXCEPT
              !.page = @ + 1, !.seen = @ \cup Page, !.done = @ \cup added, !.items = items,
              !.error = @ \/ bad # {}, !.bounded = @ \/ LeavesOut(bad, items, added),
              !.before = IF Page = {} THEN @ ELSE Oldest,
              !.step = IF IsOver(items, added) THEN "end"
                       ELSE IF run.page + 1 = MaxPages THEN "limit" ELSE "page"]
        /\ UNCHANGED <<kind, newest, checkpoint, cut>>

RequestFails ==
    /\ run.step = "page" /\ Fault /\ run' = [run EXCEPT !.step = "failed"]
    /\ UNCHANGED <<kind, newest, checkpoint, known, cut>>

\* No error; and a search must have come to its last page.
Advances ==
    ~run.error /\ (run.step = "end" \/ (run.step = "limit" /\ kind = "channel"))

\* The newest message seen, or the newest story that was produced.
ReadUpTo ==
    LET passed == IF kind = "channel" THEN run.seen ELSE run.items
    IN  Max(passed \cup {checkpoint})

\* The state is saved with what was handed over.
Finish ==
    /\ run.step \in {"end", "limit", "failed"}
    /\ checkpoint' = IF Advances THEN ReadUpTo ELSE checkpoint
    /\ cut' = IF Advances /\ run.bounded
              THEN cut \cup {m \in (checkpoint + 1)..ReadUpTo : m \notin run.done} ELSE cut
    /\ run' = Idle
    /\ UNCHANGED <<kind, newest, known, faults>>

Next ==
    \/ Appear \/ Begin \/ RequestFails \/ Finish
    \/ \E bad \in SUBSET Messages : ReadPage(bad)

Spec == Init /\ [][Next]_vars

-----------------------------------------------------------------------------
(* Properties.                                                             *)

\* What the checkpoint has passed was produced, had nothing to collect, or was
\* left out by a limit (the pages, the items, or a page without anything new).
CheckpointIsHonest ==
    \A m \in Messages : m <= checkpoint => m \in known \cup Blank \cup cut
=============================================================================
