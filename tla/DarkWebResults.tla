---------------------------- MODULE DarkWebResults ----------------------------
(***************************************************************************)
(* What scans of dark web watches find (dark_web_watch_service.py,         *)
(* dark_web_discovery.py).  A scan of a discovery watch takes what a       *)
(* search engine names, and the sources that were promoted from earlier    *)
(* results; any other scan walks the pages of the registered sources.      *)
(* What matches becomes a result of the watch, and an alert when it is new *)
(* or has changed, in one transaction at the end.  DarkWebScheduler says   *)
(* when scans run.                                                         *)
(*                                                                         *)
(* Abstraction.  A page has one of a few contents, some of which match a   *)
(* watch.  A time is the number of the scan.  MaxScans and MaxFaults are   *)
(* bounds; a fault is a change of a page, a failed request or a disabled   *)
(* watch.                                                                  *)
(***************************************************************************)
EXTENDS Naturals, FiniteSets, FiniteSetsExt

CONSTANTS
    Watches, Discovery,   \* watches; those that ask a search engine
    Pages, Contents,
    Matching,             \* [watch -> the contents that match its keywords]
    MaxResults,           \* results that a watch keeps
    MaxCandidates,        \* pages that a scan of a discovery watch looks at
    MaxScans, MaxFaults

VARIABLES
    site,      \* what the pages have
    enabled,   \* watches: enabled
    count,     \* watches: result_count
    results,   \* rows of results
    alerts,    \* rows of alerts
    sources,   \* discovered_sources: their state
    scan,      \* the scan of a watch
    scans, faults

vars == <<site, enabled, count, results, alerts, sources, scan, scans, faults>>

Idle == [step |-> "idle", tracked |-> {}, looked |-> {}, matches |-> {}, named |-> {}]

TypeOK ==
    /\ site \in [Pages -> Contents] /\ enabled \in [Watches -> BOOLEAN]
    /\ \A r \in results : r.watch \in Watches /\ r.content \in Contents /\ r.seen \in 1..MaxScans
    /\ \A r, s \in results : r.id = s.id => r = s
    /\ \A a \in alerts : a.type \in {"new_match", "content_changed"}
    /\ sources \in [Watches \X Pages -> {"absent", "enabled", "disabled", "archived"}]
    /\ \A w \in Watches : scan[w].step \in {"idle", "look", "commit", "done"}
    /\ scans \in 0..MaxScans /\ faults \in 0..MaxFaults

Init ==
    /\ site \in [Pages -> Contents] /\ enabled = [w \in Watches |-> TRUE]
    /\ count = [w \in Watches |-> 0] /\ results = {} /\ alerts = {}
    /\ sources = [s \in Watches \X Pages |-> "absent"]
    /\ scan = [w \in Watches |-> Idle] /\ scans = 0 /\ faults = 0

Fault == faults < MaxFaults /\ faults' = faults + 1

Rows(w) == {r \in results : r.watch = w}

-----------------------------------------------------------------------------
(* A scan.                                                                 *)

\* A row is found by its page; of a discovery watch, by its content as well.
Key(w, m) == IF w \in Discovery THEN m ELSE [page |-> m.page]

\* The hash that is its primary key.
Id(w, m) == IF w \in Discovery THEN [match |-> m, of |-> Matching[w]] ELSE [match |-> m]

Tracked(w) == {p \in Pages : sources[w, p] = "enabled"}

Begin(w) ==
    /\ scan[w].step \in {"idle", "done"} /\ scans < MaxScans /\ scans' = scans + 1
    /\ enabled[w]
    /\ scan' = [scan EXCEPT ![w] = [Idle EXCEPT !.step = "look",
                   !.tracked = IF w \in Discovery THEN Tracked(w) ELSE {}]]
    /\ UNCHANGED <<site, enabled, count, results, alerts, sources, faults>>

\* The search engine's pages come first and leave what room there is; a plain
\* scan walks all pages.
Looked(w, named) ==
    IF w \notin Discovery THEN {Pages}
    ELSE LET room == MaxCandidates - Cardinality(named)
             more == scan[w].tracked \ named
         IN {named \cup S : S \in kSubset(IF Cardinality(more) < room THEN Cardinality(more) ELSE room, more)}

\* Pages that cannot be read make the scan partial, no more.
Look(w, named, unread) ==
    /\ scan[w].step = "look"
    /\ IF w \in Discovery THEN TRUE ELSE named = {} /\ unread # Pages
    /\ Cardinality(named) <= MaxCandidates
    /\ IF unread = {} THEN UNCHANGED faults ELSE Fault
    /\ \E looked \in Looked(w, named) :
           scan' = [scan EXCEPT ![w].step = "commit", ![w].looked = looked, ![w].named = named,
               ![w].matches = {m \in [page : looked \ unread, content : Contents] :
                                  m.content = site[m.page] /\ m.content \in Matching[w]}]
    /\ UNCHANGED <<site, enabled, count, results, alerts, sources, scans>>

\* The search engine fails: the sources alone are looked at, if there are any.
\* A plain scan fails if no page can be read.
LookFails(w) ==
    /\ scan[w].step = "look" /\ Fault
    /\ scan' = [scan EXCEPT ![w] =
           IF scan[w].tracked = {} THEN Idle
           ELSE [scan[w] EXCEPT !.step = "commit", !.looked = scan[w].tracked,
                   !.matches = {m \in [page : scan[w].tracked, content : Contents] :
                                   m.content = site[m.page] /\ m.content \in Matching[w]}]]
    /\ UNCHANGED <<site, enabled, count, results, alerts, sources, scans>>

-----------------------------------------------------------------------------
(* commit_scan.                                                            *)

RowOf(w, m) == {r \in Rows(w) : r.key = Key(w, m)}
News(w)     == {m \in scan[w].matches : RowOf(w, m) = {}}
Changed(w)  == {m \in scan[w].matches \ News(w) : \A r \in RowOf(w, m) : r.content # m.content}

NewRow(w, m) == [watch |-> w, key |-> Key(w, m), id |-> Id(w, m), page |-> m.page,
                 content |-> m.content, seen |-> scans]

\* What the rows are before the oldest are deleted.
Merged(w) ==
    {r \in results : r.watch # w}
      \cup {IF \E m \in scan[w].matches : r.key = Key(w, m)
            THEN [r EXCEPT !.seen = scans,
                           !.content = (CHOOSE m \in scan[w].matches : r.key = Key(w, m)).content]
            ELSE r : r \in Rows(w)}
      \cup {NewRow(w, m) : m \in News(w)}

\* Mutation: an alert is known by its result alone.
Known_ByResult(a) == \E b \in alerts : b.watch = a.watch /\ b.result = a.result

\* INSERT OR IGNORE.
Known(a) == \E b \in alerts : b.watch = a.watch /\ b.result = a.result /\ b.content = a.content

Alert(w, id, m, type) ==
    [watch |-> w, result |-> id, content |-> m.content, type |-> type, read |-> FALSE]

Raised(w) ==
    {a \in {Alert(w, Id(w, m), m, "new_match") : m \in News(w)}
             \cup {Alert(w, (CHOOSE r \in RowOf(w, m) : TRUE).id, m, "content_changed") : m \in Changed(w)} :
        ~Known(a)}

\* The primary key is not of the watch: another watch may have found the page.
IsTaken(w) == \E m \in News(w) : \E r \in results : r.id = Id(w, m)

\* A row that an alert is about cannot be deleted, and there is one about each.
IsFull(w) == Cardinality({r \in Merged(w) : r.watch = w}) > MaxResults

Commit(w) ==
    /\ scan[w].step = "commit" /\ enabled[w] /\ ~IsTaken(w) /\ ~IsFull(w)
    /\ results' = Merged(w) /\ alerts' = alerts \cup Raised(w)
    /\ count' = [count EXCEPT ![w] = Cardinality({r \in Merged(w) : r.watch = w})]
    /\ scan' = [scan EXCEPT ![w].step = "done"]
    /\ UNCHANGED <<site, enabled, sources, scans, faults>>

\* The watch was disabled meanwhile, or a constraint is violated.
CommitFails(w) ==
    /\ scan[w].step = "commit" /\ (~enabled[w] \/ IsTaken(w) \/ IsFull(w))
    /\ scan' = [scan EXCEPT ![w] = Idle]
    /\ UNCHANGED <<site, enabled, count, results, alerts, sources, scans, faults>>

-----------------------------------------------------------------------------
(* The other commands.                                                     *)

Change(p, c) ==
    /\ site[p] # c /\ Fault /\ site' = [site EXCEPT ![p] = c]
    /\ UNCHANGED <<enabled, count, results, alerts, sources, scan, scans>>

SetEnabled(w) ==
    /\ (enabled[w] => Fault) /\ (~enabled[w] => UNCHANGED faults)
    /\ enabled' = [enabled EXCEPT ![w] = ~enabled[w]]
    /\ UNCHANGED <<site, count, results, alerts, sources, scan, scans>>

\* A result of a discovery watch is promoted, its source registered or revived.
Promote(r) ==
    /\ r.watch \in Discovery /\ sources[r.watch, r.page] # "enabled"
    /\ sources' = [sources EXCEPT ![r.watch, r.page] = "enabled"]
    /\ UNCHANGED <<site, enabled, count, results, alerts, scan, scans, faults>>

SetSource(s, state) ==
    /\ sources[s] \in {"enabled", "disabled"} \ {state}
    /\ sources' = [sources EXCEPT ![s] = state]
    /\ UNCHANGED <<site, enabled, count, results, alerts, scan, scans, faults>>

MarkRead(a) ==
    /\ ~a.read /\ alerts' = (alerts \ {a}) \cup {[a EXCEPT !.read = TRUE]}
    /\ UNCHANGED <<site, enabled, count, results, sources, scan, scans, faults>>

Next ==
    \/ \E w \in Watches :
        \/ Begin(w) \/ LookFails(w) \/ Commit(w) \/ CommitFails(w) \/ SetEnabled(w)
        \/ \E named, unread \in SUBSET Pages : Look(w, named, unread)
    \/ \E p \in Pages, c \in Contents : Change(p, c)
    \/ \E r \in results : Promote(r)
    \/ \E s \in Watches \X Pages, state \in {"enabled", "disabled", "archived"} : SetSource(s, state)
    \/ \E a \in alerts : MarkRead(a)

Spec == Init /\ [][Next]_vars

-----------------------------------------------------------------------------
(***************************************************************************)
(* What a watch shows was announced: every result, as it is, has its       *)
(* alert, and every alert is about a result of the same watch.  A result   *)
(* is new once.  The number of results is the one that is shown.           *)
(***************************************************************************)
ResultsAreAlerted ==
    /\ \A r \in results : \E a \in alerts :
           a.watch = r.watch /\ a.result = r.id /\ a.content = r.content
    /\ \A a \in alerts : \E r \in results : r.id = a.result /\ r.watch = a.watch
    /\ \A a, b \in alerts : a.result = b.result /\ a.type = "new_match" /\ b.type = "new_match" => a = b
    /\ \A w \in Watches : count[w] = Cardinality(Rows(w))

(***************************************************************************)
(* A finished scan has looked at every source that was promoted and not    *)
(* disabled or archived when it began, if the search engine left room for  *)
(* them.                                                                   *)
(***************************************************************************)
TrackedAreLookedAt ==
    \A w \in Discovery :
        /\ scan[w].step = "done"
        /\ Cardinality(scan[w].named \cup scan[w].tracked) <= MaxCandidates
        => scan[w].tracked \subseteq scan[w].looked

ResultsHold == ResultsAreAlerted /\ TrackedAreLookedAt
=============================================================================
