--------------------------- MODULE ControlCommands ---------------------------
(***************************************************************************)
(* Commands of the backend to the collector: router.py asks the client     *)
(* (external_control_client.py), which sends the command once, with an     *)
(* idempotency key; the collector (integration/api.py) answers from the    *)
(* keys it remembers, or starts a job or changes a source; the backend     *)
(* checks the answer and writes its audit log.                             *)
(*                                                                         *)
(* Abstraction.  A command is its kind and what it is on; a collection of  *)
(* one source is what its own route starts.  Of an answer about a job the  *)
(* model has the names that its result and its summaries have, and the     *)
(* collection methods they state.  Only scans use a key the client chose;  *)
(* for the others it is made up.  A request takes the first free number.   *)
(* MaxRequests and MaxFaults are bounds.                                   *)
(***************************************************************************)
EXTENDS Naturals, Sequences

CONSTANTS
    Seeded, Enabled,    \* the sources of the registry; those enabled in it
    Roots, Promoted,    \* manual sources; onion sources promoted from results
    Watches,
    Methods,            \* [source -> the collection method it states]
    Canonical,          \* EXTERNAL_COLLECTION_METHODS
    Requests,           \* the calls in flight at once, numbered
    Keys, None,
    MaxRequests, MaxFaults

VARIABLES
    listed,    \* the collector's list of sources
    jobs,      \* its jobs, those included that a restart forgot; history: beside
    keys,      \* InMemoryIdempotencyStore: <<scope, key>> and the job
    boot,      \* how often the collector started
    req,       \* requests of the backend
    audit,     \* its audit log
    told,      \* history: what users were told was accepted
    collected, \* history: the source a job collected, and its state then
    sent, faults

vars == <<listed, jobs, keys, boot, req, audit, told, collected, sent, faults>>

Sources  == Seeded \cup Roots \cup Promoted
Kinds    == {"collect", "scan", "all", "manual", "enable", "disable", "delete"}
Commands == {c \in [kind : Kinds, on : SUBSET (Sources \cup Watches)] :
                \/ c.kind = "collect" /\ c.on \subseteq Sources /\ c.on # {}
                \/ c.kind = "scan" /\ \E w \in Watches : c.on = {w}
                \/ c.kind \in {"all", "manual"} /\ c.on = {}
                \/ c.kind \in {"enable", "disable", "delete"} /\ \E s \in Sources : c.on = {s}}
NoCommand == [kind |-> None, on |-> {}]
Idle      == [step |-> "idle", command |-> NoCommand, key |-> None, job |-> 0, waiting |-> FALSE]
Told(r)   == [command |-> r.command, key |-> r.key, job |-> r.job]
Only(S)   == CHOOSE s \in S : TRUE

TypeOK ==
    /\ listed \in [Sources -> {"enabled", "disabled", "removed"}]
    /\ \A j \in DOMAIN jobs : /\ jobs[j].state \in {"queued", "ended", "lost"}
                              /\ jobs[j].command \in Commands
    /\ \A k \in keys : k.job \in DOMAIN jobs
    /\ \A q \in Requests :
        /\ req[q].step \in {"idle", "sent", "started", "replied", "refused", "audit"}
        /\ req[q].job \in 0..Len(jobs)
    /\ sent \in 0..MaxRequests /\ faults \in 0..MaxFaults

Init ==
    /\ listed = [s \in Sources |-> IF s \in Seeded \ Enabled THEN "disabled" ELSE "enabled"]
    /\ jobs = <<>> /\ keys = {} /\ boot = 0 /\ req = [q \in Requests |-> Idle]
    /\ audit = {} /\ told = {} /\ collected = {} /\ sent = 0 /\ faults = 0

Fault == faults < MaxFaults /\ faults' = faults + 1

-----------------------------------------------------------------------------
(* Answers about jobs: what the collector says and what the client takes.  *)

Counts == {"accepted_records", "review_records", "rejected_records", "skipped_records", "error_count"}

ResultNames(c) ==
    CASE c.kind = "collect" -> Counts \cup {"status", "source_count", "sources", "force", "run_id", "export"}
                                 \cup (IF \E s \in c.on : c.on = {s} THEN {"source_id"} ELSE {})
      [] c.kind = "all"     -> Counts \cup {"status", "scope", "run_id", "force", "registered_source_count",
                                            "manual_source_count", "sources", "manual_sources", "export"}
      [] c.kind = "scan"    -> Counts \cup {"status", "discovered", "rejected", "unreachable", "verified",
                                            "matched", "new", "unchanged", "privacy_blocked", "errors"}
      [] c.kind = "manual"  -> Counts \cup {"status", "message", "records_created", "records_updated",
                                            "canonical_url", "job_id"}

SummaryNames(failed) ==
    {"status", "accepted_records", "review_records", "error_count", "collection_method"}
      \cup (IF failed THEN {"failure_categories", "collection_stage", "exception_class", "retryable"} ELSE {})

\* The sources a job runs.
Runs(c) == CASE c.kind = "collect" -> c.on [] c.kind = "all" -> Enabled [] OTHER -> {}

\* A job that raised an exception has no result.
Result(c, failed) ==
    [names |-> ResultNames(c),
     summaries |-> {SummaryNames(s \in failed) : s \in Runs(c)},
     methods |-> {Methods[s] : s \in Runs(c)}]

TakenNames == Counts \cup
    {"status", "scope", "run_id", "source_id", "source_count", "registered_source_count",
     "manual_source_count", "records_created", "records_updated", "discovered", "rejected",
     "unreachable", "verified", "matched", "new", "unchanged", "privacy_blocked", "errors",
     "force", "sources", "manual_sources", "export", "message", "canonical_url", "job_id"}

TakenSummary == Counts \cup
    {"status", "collection_method", "failure_categories", "collection_stage", "exception_class", "retryable"}

\* _job_result and _source_counts: one name too many refuses the whole answer.
Taken(result) ==
    /\ result.names \subseteq TakenNames
    /\ \A names \in result.summaries : names \subseteq TakenSummary
    /\ result.methods \subseteq Canonical

-----------------------------------------------------------------------------
(* The backend.                                                            *)

\* A scan's key is the user's; the client makes one up for other commands.
Send(q) ==
    /\ req[q].step = "idle" /\ \A p \in Requests : p < q => req[p].step # "idle"
    /\ sent < MaxRequests /\ sent' = sent + 1
    /\ \E c \in Commands, k \in Keys \cup {None} :
          /\ k # None => c.kind = "scan"
          /\ req' = [req EXCEPT ![q] = [Idle EXCEPT !.step = "sent", !.command = c, !.key = k, !.waiting = TRUE]]
    /\ UNCHANGED <<listed, jobs, keys, boot, audit, told, collected, faults>>

\* A command is not sent again by itself: the user is told to repeat it.
TimesOut(q) ==
    /\ req[q].step \in {"sent", "started", "replied"} /\ req[q].waiting /\ Fault
    /\ req' = [req EXCEPT ![q].waiting = FALSE]
    /\ UNCHANGED <<listed, jobs, keys, boot, audit, told, collected, sent>>

IsLost(q) ==
    /\ req[q].step = "sent" /\ ~req[q].waiting
    /\ req' = [req EXCEPT ![q] = Idle]
    /\ UNCHANGED <<listed, jobs, keys, boot, audit, told, collected, sent, faults>>

Receive(q) ==
    /\ req[q].step \in {"replied", "refused"}
    /\ req' = [req EXCEPT ![q] = IF req[q].step = "replied" /\ req[q].waiting
                                 THEN [req[q] EXCEPT !.step = "audit"] ELSE Idle]
    /\ UNCHANGED <<listed, jobs, keys, boot, audit, told, collected, sent, faults>>

\* The audit entry is committed before the user is told.
Commit(q) ==
    /\ req[q].step = "audit"
    /\ audit' = audit \cup {Told(req[q])} /\ told' = told \cup {Told(req[q])}
    /\ req' = [req EXCEPT ![q] = Idle]
    /\ UNCHANGED <<listed, jobs, keys, boot, collected, sent, faults>>

CommitFails(q) ==
    /\ req[q].step = "audit" /\ Fault /\ req' = [req EXCEPT ![q] = Idle]
    /\ UNCHANGED <<listed, jobs, keys, boot, audit, told, collected, sent>>

-----------------------------------------------------------------------------
(* The collector.                                                          *)

\* Mutation: the keys of scans are those of all the watches.
Scope_Scan(c) == c.kind

Scope(c) == c

IsRemembered(r) == \E k \in keys : r.key # None /\ k.scope = Scope(r.command) /\ k.key = r.key

\* The registry has the seeded sources as they were at the start; a root is
\* collected alone.
MayCollect(S) ==
    \A s \in S : IF s \in Seeded THEN s \in Enabled
                 ELSE listed[s] = "enabled" /\ (s \in Roots => S = {s})

Refuse(q) ==
    req' = [req EXCEPT ![q].step = "refused"] /\ UNCHANGED <<listed, jobs>>

\* Another request with its key has started a job and has yet to remember it.
IsBeside(q) ==
    \E p \in Requests : /\ req[p].step = "started" /\ req[p].key # None
                        /\ req[p].key = req[q].key /\ Scope(req[p].command) = Scope(req[q].command)

Start(q) ==
    /\ jobs' = Append(jobs, [command |-> req[q].command, key |-> req[q].key, boot |-> boot,
                             state |-> "queued", result |-> None, beside |-> IsBeside(q)])
    /\ req' = [req EXCEPT ![q].step = "started", ![q].job = Len(jobs) + 1]
    /\ UNCHANGED listed

HasActive(s) == \E j \in DOMAIN jobs : jobs[j].command.on = {s} /\ jobs[j].state = "queued"

Set(q, s, state) ==
    /\ listed' = [listed EXCEPT ![s] = state]
    /\ req' = [req EXCEPT ![q].step = "replied"] /\ UNCHANGED jobs

Manage(q, kind, s) ==
    IF listed[s] = "removed" THEN Refuse(q)
    ELSE IF kind = "delete"
    THEN IF s \in Seeded \/ (s \in Promoted /\ HasActive(s)) THEN Refuse(q) ELSE Set(q, s, "removed")
    ELSE Set(q, s, IF kind = "disable" \/ s \in Seeded \ Enabled THEN "disabled" ELSE "enabled")

Handle(q) ==
    LET c == req[q].command IN
    /\ req[q].step = "sent"
    /\ IF IsRemembered(req[q])
       THEN /\ \E k \in keys : /\ k.scope = Scope(c) /\ k.key = req[q].key
                               /\ req' = [req EXCEPT ![q].step = "replied", ![q].job = k.job]
            /\ UNCHANGED <<listed, jobs>>
       ELSE IF c.kind \in {"enable", "disable", "delete"} THEN Manage(q, c.kind, Only(c.on))
       ELSE IF c.kind = "collect" /\ ~MayCollect(c.on) THEN Refuse(q)
       ELSE Start(q)
    /\ UNCHANGED <<keys, boot, audit, told, collected, sent, faults>>

Remembers(r) == r.key # None

\* The answer is remembered, over one that is there, and sent.
Remember(q) ==
    LET r == req[q] IN
    /\ r.step = "started"
    /\ keys' = IF Remembers(r)
               THEN {k \in keys : k.scope # Scope(r.command) \/ k.key # r.key}
                      \cup {[scope |-> Scope(r.command), key |-> r.key, job |-> r.job]}
               ELSE keys
    /\ req' = [req EXCEPT ![q].step = "replied"]
    /\ UNCHANGED <<listed, jobs, boot, audit, told, collected, sent, faults>>

\* A source that was removed since ends the whole job; a root is registered
\* again when it is collected.
Run(j) ==
    LET c == jobs[j].command
        on == Runs(c)
        gone == {s \in on \cap Promoted : listed[s] = "removed"}
    IN
    /\ jobs[j].state = "queued"
    /\ \E result \in IF gone = {} THEN {Result(c, failed) : failed \in SUBSET on} ELSE {None} :
          jobs' = [jobs EXCEPT ![j].state = "ended", ![j].result = result]
    /\ collected' = collected \cup
           {[job |-> j, source |-> s, state |-> listed[s]] : s \in IF gone = {} THEN on ELSE {}}
    /\ listed' = [s \in Sources |-> IF s \in on \cap Roots THEN "enabled" ELSE listed[s]]
    /\ UNCHANGED <<keys, boot, req, audit, told, sent, faults>>

\* A result is promoted, once more if its source was removed.
Promote(s) ==
    /\ listed[s] # "enabled" /\ Fault /\ listed' = [listed EXCEPT ![s] = "enabled"]
    /\ UNCHANGED <<jobs, keys, boot, req, audit, told, collected, sent>>

\* Jobs, keys and what was said of the seeded sources are in memory.
Restart ==
    /\ Fault /\ boot' = boot + 1 /\ keys' = {}
    /\ jobs' = [j \in DOMAIN jobs |-> [jobs[j] EXCEPT !.state = "lost"]]
    /\ listed' = [s \in Sources |-> IF s \notin Seeded THEN listed[s]
                                    ELSE IF s \in Enabled THEN "enabled" ELSE "disabled"]
    /\ req' = [q \in Requests |-> IF req[q].step \in {"sent", "started", "replied"} THEN Idle ELSE req[q]]
    /\ UNCHANGED <<audit, told, collected, sent>>

Next ==
    \/ \E q \in Requests :
        \/ Send(q) \/ TimesOut(q) \/ IsLost(q) \/ Receive(q) \/ Commit(q) \/ CommitFails(q)
        \/ Handle(q) \/ Remember(q)
    \/ (\E j \in DOMAIN jobs : Run(j)) \/ (\E s \in Promoted : Promote(s)) \/ Restart

Spec == Init /\ [][Next]_vars

-----------------------------------------------------------------------------
(***************************************************************************)
(* What a user was told was accepted is in the audit log, with the job     *)
(* that was started for this very command, also when the key of another    *)
(* command was used.                                                       *)
(***************************************************************************)
AnswersAreTrue ==
    /\ told \subseteq audit
    /\ \A a \in audit : a.job # 0 => jobs[a.job].command = a.command

(***************************************************************************)
(* A key starts one job of a command while the collector runs, however     *)
(* often its answer was lost and the command repeated, unless a repeat     *)
(* came before the first was remembered: of what came after, there is none.*)
(***************************************************************************)
OneJobPerKey ==
    \A i, j \in DOMAIN jobs :
        i < j /\ jobs[i].key # None /\ jobs[i].key = jobs[j].key /\ jobs[i].boot = jobs[j].boot
            /\ jobs[i].command = jobs[j].command => jobs[j].beside

\* No job collects a promoted source that was removed.
RemovedIsNotCollected == \A c \in collected : c.source \in Promoted => c.state # "removed"

(***************************************************************************)
(* The backend can read every job of the collector, the jobs of a manual   *)
(* root alone left out: they state the kind of its page as their method,   *)
(* which EXTERNAL_COLLECTION_METHODS does not have.                        *)
(***************************************************************************)
JobsAreReadable ==
    \A j \in DOMAIN jobs :
        jobs[j].state = "ended" /\ jobs[j].result # None /\ jobs[j].command.on \cap Roots = {}
            => Taken(jobs[j].result)

CommandsHold == AnswersAreTrue /\ OneJobPerKey /\ RemovedIsNotCollected /\ JobsAreReadable
=============================================================================
