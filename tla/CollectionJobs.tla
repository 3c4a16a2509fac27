--------------------------- MODULE CollectionJobs ----------------------------
(***************************************************************************)
(* Collection jobs of the collector (application/collection_service.py on  *)
(* integration/jobs.py).  An all-enabled ("unified") job holds one lock    *)
(* from the request that submits it until it is over or is cancelled in    *)
(* the queue; it runs over the registered sources, then over the tracked   *)
(* manual roots, looks for a cancellation before each, and exports once.   *)
(* An ordinary job runs over the sources it was asked for and never looks. *)
(* A guard per source keeps two jobs out of the same source.               *)
(*                                                                         *)
(* Abstraction.  What a source returns is "completed" or "failed".  The    *)
(* order of the sources in a job is any order.  Everything is in memory: a *)
(* restart is a new behaviour.                                             *)
(***************************************************************************)
EXTENDS JobRunner

CONSTANTS
    Interactive,    \* the executor of the ordinary jobs
    Sources,        \* registered sources
    Roots,          \* active manual roots
    NoPlace

Places == Sources \cup Roots

ASSUME CollectionAssumption ==
    /\ Interactive \in Threads
    /\ Sources \cap Roots = {} /\ NoPlace \notin Places

VARIABLES
    lock,       \* all_enabled_lock is held
    unified,    \* the jobs with scope all_enabled
    asked,      \* [Jobs -> SUBSET Places]: what an ordinary job is to collect
    event,      \* the unified jobs whose cancellation event is set
    releasing,  \* popped on_queued_cancel callbacks that are not called yet
    at,         \* where the operation on a thread is
    todo,       \* the places of the current loop that are left
    here,       \* the place the thread is at
    seen,       \* what the places of the job returned so far
    exported,   \* history: jobs that made an export
    early,      \* history: unified jobs cancelled before their last look
    begun,      \* history: jobs that began a place after their cancellation
    twice       \* history: jobs that did so a second time

request == <<lock, unified, asked>>
cancel  == <<event, releasing>>
thread  == <<at, todo, here, seen>>
history == <<exported, early, begun, twice>>
vars    == <<runner, request, cancel, thread, history>>

Locus   == {"idle", "sources", "roots", "wait", "work", "check", "export", "release", "end"}
Outcome == {"completed", "failed", "export_failed"}

TypeOK ==
    /\ RunnerTypeOK
    /\ lock \in BOOLEAN /\ unified \subseteq Jobs
    /\ asked \in [Jobs -> SUBSET Places]
    /\ event \subseteq Jobs /\ releasing \subseteq Jobs
    /\ at \in [Threads -> Locus] /\ todo \in [Threads -> SUBSET Places]
    /\ here \in [Threads -> Places \cup {NoPlace}]
    /\ seen \in [Threads -> SUBSET Outcome]
    /\ exported \subseteq Jobs /\ early \subseteq Jobs
    /\ begun \subseteq Jobs /\ twice \subseteq Jobs

Init ==
    /\ RunnerInit
    /\ lock = FALSE /\ unified = {} /\ asked = [j \in Jobs |-> {}]
    /\ event = {} /\ releasing = {}
    /\ at = [t \in Threads |-> "idle"] /\ todo = [t \in Threads |-> {}]
    /\ here = [t \in Threads |-> NoPlace] /\ seen = [t \in Threads |-> {}]
    /\ exported = {} /\ early = {} /\ begun = {} /\ twice = {}

IsUnified(t) == running[t] \in unified

-----------------------------------------------------------------------------
(* Requests.                                                               *)

\* The identifier j is given to a new job.
Fresh(j) ==
    /\ j \notin releasing
    /\ event' = event \ {j}
    /\ exported' = exported \ {j} /\ early' = early \ {j}
    /\ begun' = begun \ {j} /\ twice' = twice \ {j}
    /\ UNCHANGED <<releasing, thread>>

\* start_collection with scope all_enabled, in either execution class.
StartAllEnabled(j, t) ==
    /\ ~lock /\ lock' = TRUE
    /\ Submit(j, t) /\ Fresh(j)
    /\ unified' = unified \cup {j} /\ asked' = [asked EXCEPT ![j] = {}]

\* start_collection with source identifiers, or collect_source.
StartOrdinary(j, places) ==
    /\ Submit(j, Interactive) /\ Fresh(j)
    /\ unified' = unified \ {j} /\ asked' = [asked EXCEPT ![j] = places]
    /\ UNCHANGED lock

Requestable == ((SUBSET Sources) \ {{}}) \cup {{r} : r \in Roots}

\* Mutation: the callback is popped for a job that runs, too.
PopCallback_Always(j) == IF j \in unified THEN releasing \cup {j} ELSE releasing

\* cancel, up to the call of the callback, which only a unified job has.
PopCallback(j) ==
    IF j \in unified /\ state[j] = "queued" THEN releasing \cup {j} ELSE releasing

PastCheck(j) ==
    \E t \in Threads : running[t] = j /\ at[t] \in {"export", "release", "end"}

Cancel(j) ==
    /\ MarkCancelled(j)
    /\ early' = IF j \in unified /\ ~PastCheck(j) THEN early \cup {j} ELSE early
    /\ event' = IF j \in unified THEN event \cup {j} ELSE event
    /\ releasing' = PopCallback(j)
    /\ UNCHANGED <<request, thread, exported, begun, twice>>

\* The callback, outside the runner's lock.
QueuedCancelCallback(j) ==
    /\ j \in releasing
    /\ lock' = FALSE /\ releasing' = releasing \ {j}
    /\ UNCHANGED <<runner, unified, asked, event, thread, history>>

-----------------------------------------------------------------------------
(* A thread.                                                               *)

Goto(t, locus) == at' = [at EXCEPT ![t] = locus]

Begin(t) == \E j \in Jobs :
    /\ Start(j, t) /\ Goto(t, "sources")
    /\ todo' = [todo EXCEPT ![t] = IF j \in unified THEN Sources ELSE asked[j]]
    /\ UNCHANGED <<request, cancel, here, seen, history>>

Skip(t) == \E j \in Jobs :
    Drop(j, t) /\ UNCHANGED <<request, cancel, thread, history>>

\* cancellation.is_set() at the head of either loop of _run_unified.
MustStop(t) == IsUnified(t) /\ running[t] \in event

InLoop(t) == at[t] \in {"sources", "roots"}

Stop(t) ==
    /\ InLoop(t) /\ todo[t] # {} /\ MustStop(t)
    /\ Goto(t, "check") /\ todo' = [todo EXCEPT ![t] = {}]
    /\ UNCHANGED <<runner, request, cancel, here, seen, history>>

Choose(t) == \E p \in todo[t] :
    /\ InLoop(t) /\ ~MustStop(t)
    /\ here' = [here EXCEPT ![t] = p] /\ todo' = [todo EXCEPT ![t] = @ \ {p}]
    /\ Goto(t, "wait")
    /\ UNCHANGED <<runner, request, cancel, seen, history>>

\* list_tracked_roots, which may fail or find some of the roots inactive.
ListRoots(t) ==
    /\ at[t] = "sources" /\ todo[t] = {} /\ IsUnified(t)
    /\ \E roots \in SUBSET Roots : todo' = [todo EXCEPT ![t] = roots]
    /\ Goto(t, "roots")
    /\ UNCHANGED <<runner, request, cancel, here, seen, history>>

\* _source_guard is held around the work, and _run_manual_root keeps it for
\* the export.
IsGuarded(p) == \E t \in Threads : here[t] = p /\ at[t] \in {"work", "export"}

Enter(t) ==
    /\ at[t] = "wait" /\ ~IsGuarded(here[t])
    /\ Goto(t, "work")
    /\ begun' = IF running[t] \in event THEN begun \cup {running[t]} ELSE begun
    /\ twice' = IF running[t] \in event \cap begun THEN twice \cup {running[t]} ELSE twice
    /\ UNCHANGED <<runner, request, cancel, todo, here, seen, exported, early>>

Record(t, outcome) == seen' = [seen EXCEPT ![t] = @ \cup {outcome}]

IsManual(t) == here[t] \in Roots /\ ~IsUnified(t)

\* executor.execute or recheck_url returned.  _run_manual_root stays inside
\* the guard unless the source failed.
Work(t, outcome) ==
    /\ at[t] = "work"
    /\ Record(t, outcome)
    /\ IF ~IsManual(t) THEN Goto(t, IF here[t] \in Sources THEN "sources" ELSE "roots")
       ELSE Goto(t, IF outcome = "failed" THEN "end" ELSE "export")
    /\ here' = [here EXCEPT ![t] = IF IsManual(t) /\ outcome # "failed" THEN @ ELSE NoPlace]
    /\ UNCHANGED <<runner, request, cancel, todo, history>>

\* The finally clause of _run_unified.
AfterError(t) == IF IsUnified(t) THEN "release" ELSE "end"

\* An exception that nothing isolates: _source of a source that was removed.
Break(t) ==
    /\ at[t] = "work" /\ here[t] \in Sources
    /\ Goto(t, AfterError(t))
    /\ seen' = [seen EXCEPT ![t] = {"failed"}]
    /\ here' = [here EXCEPT ![t] = NoPlace] /\ todo' = [todo EXCEPT ![t] = {}]
    /\ UNCHANGED <<runner, request, cancel, history>>

\* Mutation: the status of the export becomes the status of the job.
Verdict_OfExport(outcomes) ==
    CASE "export_failed" \in outcomes -> "export_failed"
      [] OTHER -> "completed"

\* _unified_result and _run: a job is as good as its places and its export.
Verdict(outcomes) ==
    CASE "failed" \in outcomes /\ "completed" \notin outcomes -> "failed"
      [] outcomes \cap {"failed", "export_failed"} # {}       -> "partial"
      [] OTHER                                                -> "completed"

\* _run exports unless every source failed.
LeaveRun(t) ==
    /\ at[t] = "sources" /\ todo[t] = {} /\ ~IsUnified(t)
    /\ Goto(t, IF Verdict(seen[t]) = "failed" THEN "end" ELSE "export")
    /\ UNCHANGED <<runner, request, cancel, todo, here, seen, history>>

LeaveRoots(t) ==
    /\ at[t] = "roots" /\ todo[t] = {}
    /\ Goto(t, "check")
    /\ UNCHANGED <<runner, request, cancel, todo, here, seen, history>>

\* Mutation: no look between the last place and the export.
IsCancelledAtExport_Never(t) == FALSE

\* The last look at the cancellation before the export boundary.
IsCancelledAtExport(t) == running[t] \in event

Check(t) ==
    /\ at[t] = "check"
    /\ Goto(t, IF IsCancelledAtExport(t) THEN "release" ELSE "export")
    /\ UNCHANGED <<runner, request, cancel, todo, here, seen, history>>

AfterExport(t) == IF IsUnified(t) THEN "release" ELSE "end"

Export(t) ==
    /\ at[t] = "export"
    /\ exported' = exported \cup {running[t]}
    /\ Goto(t, AfterExport(t)) /\ here' = [here EXCEPT ![t] = NoPlace]
    /\ UNCHANGED <<runner, request, cancel, todo, seen, early, begun, twice>>

\* Mutation: a unified job notes a failed export in its result only.
NotesExport_ManualOnly(t) == here[t] \in Roots /\ ~IsUnified(t)

\* A failed export makes a unified or manual job partial; _run only notes it
\* in its result.
NotesExport(t) == IsUnified(t) \/ here[t] \in Roots

ExportFails(t) ==
    /\ at[t] = "export"
    /\ seen' = [seen EXCEPT ![t] = IF NotesExport(t) THEN @ \cup {"export_failed"} ELSE @]
    /\ Goto(t, AfterExport(t)) /\ here' = [here EXCEPT ![t] = NoPlace]
    /\ UNCHANGED <<runner, request, cancel, todo, history>>

Release(t) ==
    /\ at[t] = "release"
    /\ lock' = FALSE /\ Goto(t, "end")
    /\ UNCHANGED <<runner, unified, asked, cancel, todo, here, seen, history>>

Finish(t) ==
    /\ at[t] = "end" /\ End(running[t], t, Verdict(seen[t]))
    /\ Goto(t, "idle") /\ seen' = [seen EXCEPT ![t] = {}]
    /\ UNCHANGED <<request, cancel, todo, here, history>>

-----------------------------------------------------------------------------
Step(t) ==
    \/ Begin(t) \/ Skip(t) \/ Stop(t) \/ Choose(t) \/ ListRoots(t) \/ Enter(t)
    \/ \E outcome \in {"completed", "failed"} : Work(t, outcome)
    \/ Break(t) \/ LeaveRun(t) \/ LeaveRoots(t) \/ Check(t)
    \/ Export(t) \/ ExportFails(t) \/ Release(t) \/ Finish(t)

Next ==
    \/ \E j \in Jobs, t \in Threads : StartAllEnabled(j, t)
    \/ \E j \in Jobs, places \in Requestable : StartOrdinary(j, places)
    \/ \E j \in Jobs : Cancel(j) \/ QueuedCancelCallback(j)
    \/ \E t \in Threads : Step(t)

Spec == Init /\ [][Next]_vars

\* Threads run, sources time out, guards are given to whoever waits, and a
\* request that popped a callback calls it.  Requests need not come.
Fairness ==
    /\ \A t \in Threads : SF_vars(Enter(t)) /\ WF_vars(Step(t))
    /\ \A j \in Jobs : WF_vars(QueuedCancelCallback(j))

FairSpec == Spec /\ Fairness

-----------------------------------------------------------------------------
(* Properties.                                                             *)

InOperation(j) ==
    \E t \in Threads : running[t] = j /\ at[t] \in Locus \ {"idle", "end"}

\* The unified job on whose behalf the lock is held.
OwnsLock(j) ==
    /\ j \in unified
    /\ state[j] = "queued" \/ j \in releasing \/ InOperation(j)

\* The lock is held exactly while a unified job waits, runs or is about to
\* hand it back: never for nobody, never for two jobs, and never free while a
\* job relies on it (all_enabled_lock, on_queued_cancel and the finally).
LockIsOwned ==
    /\ lock <=> \E j \in Jobs : OwnsLock(j)
    /\ \A i, j \in Jobs : OwnsLock(i) /\ OwnsLock(j) => i = j

\* A cancellation that reaches a unified job before its last look leaves no
\* export behind (README.md: "Cancellation creates no export"), the job cannot
\* settle as anything but cancelled, and it begins at most the one source whose
\* guard it was waiting for ("Cancellation is checked between operations").
CancellationIsKept ==
    /\ \A j \in early : j \notin exported /\ state[j] \in {"cancelled", "cancellation_requested"}
    /\ twice = {}

\* A unified job reports completed only if its export was made.
CompletedWasExported ==
    \A j \in unified : state[j] = "completed" => j \in exported

\* Every accepted job settles, however long it waits for a thread or a guard.
JobsSettle == \A j \in Jobs : state[j] = "queued" ~> state[j] \in Settled
=============================================================================
