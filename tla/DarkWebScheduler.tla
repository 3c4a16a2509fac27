-------------------------- MODULE DarkWebScheduler ---------------------------
(***************************************************************************)
(* The scheduler of dark-web watches                                       *)
(* (application/dark_web_watch_service.py) on the job runner.  Collector   *)
(* processes share a database with a leader's lease and one row per        *)
(* scheduled occurrence; the leader's tick takes back the occurrences that *)
(* nobody finished, claims those that are due, and submits a job for each. *)
(* Jobs, and the set of watches being scanned, are in memory.              *)
(*                                                                         *)
(* Abstraction.  Times are events: a watch falls due, a lease expires, an  *)
(* occurrence has been claimed for longer than recovery_seconds.  A tick   *)
(* handles its occurrences in any order.  There are as many occurrences as *)
(* Occurrences, and MaxFaults faults (bounds).                             *)
(***************************************************************************)
EXTENDS JobRunner, Naturals

CONSTANTS
    Procs,          \* collector processes
    Asked,          \* those that are asked for scans by an operator (a bound)
    Watches,
    Occurrences,
    WatchOf,        \* [Occurrences -> Watches]
    Nothing,        \* what a job scans that is over
    Nobody, Gone,   \* no lease owner; one that does not exist any more
    MaxFaults

Scheduled(p) == <<p, "background">>
Requested(p) == <<p, "interactive">>

ASSUME SchedulerAssumption ==
    /\ Threads \subseteq Procs \X {"background", "interactive"}
    /\ \A p \in Procs : Scheduled(p) \in Threads
    /\ \A p \in Asked : Requested(p) \in Threads
    /\ WatchOf \in [Occurrences -> Watches] /\ Watches \cap Occurrences = {}
    /\ Asked \subseteq Procs /\ {Nobody, Gone} \cap Procs = {} /\ MaxFaults \in Nat

VARIABLES
    leader, leased,     \* scheduler_state: owner, and the lease is not expired
    due,                \* the scheduled watches with next_run_at in the past
    status, stale,      \* schedule_occurrences: status; claimed_at is too old
    pc, claimed, marking, \* a tick: where it is, what it has to submit, what it marks
    active,             \* DarkWebWatchService._active of a process
    operation,          \* what a job scans: an occurrence, or a watch
    at, scan,           \* where a thread is, and what its scan came to
    scanned,            \* history: occurrences whose scan was committed
    faults

store   == <<leader, leased, due, status, stale>>
tick    == <<pc, claimed, marking>>
service == <<active, operation, at, scan>>
vars    == <<runner, store, tick, service, scanned, faults>>

Ended  == {"completed", "failed"}
Open   == {"claimed", "submitted"}
Ticks  == {"idle", "recover", "claim", "submit", "mark"}
Locus  == {"idle", "scan", "fetch", "finish", "end"}

TypeOK ==
    /\ RunnerTypeOK
    /\ leader \in Procs \cup {Nobody, Gone} /\ leased \in BOOLEAN /\ due \subseteq Watches
    /\ status \in [Occurrences -> {"absent"} \cup Open \cup Ended] /\ stale \subseteq Occurrences
    /\ pc \in [Procs -> Ticks] /\ claimed \in [Procs -> SUBSET Occurrences]
    /\ marking \in [Procs -> SUBSET Occurrences]
    /\ active \in [Procs -> SUBSET Watches]
    /\ operation \in [Jobs -> Watches \cup Occurrences \cup {Nothing}]
    /\ at \in [Threads -> Locus] /\ scan \in [Threads -> Ended]
    /\ scanned \subseteq Occurrences /\ faults \in 0 .. MaxFaults

Init ==
    /\ RunnerInit
    /\ leader = Nobody /\ leased = FALSE /\ due = {}
    /\ status = [o \in Occurrences |-> "absent"] /\ stale = {}
    /\ pc = [p \in Procs |-> "idle"] /\ claimed = [p \in Procs |-> {}]
    /\ marking = [p \in Procs |-> {}] /\ active = [p \in Procs |-> {}]
    /\ operation = [j \in Jobs |-> Nothing]
    /\ at = [t \in Threads |-> "idle"] /\ scan = [t \in Threads |-> "failed"]
    /\ scanned = {} /\ faults = 0

Fault == faults < MaxFaults /\ faults' = faults + 1

-----------------------------------------------------------------------------
(* The tick of a process.                                                  *)

\* renew_leader, then acquire_leader.
MayLead(p) == leader = p \/ ~leased

Lead(p) ==
    /\ pc[p] = "idle" /\ MayLead(p)
    /\ leader' = p /\ leased' = TRUE
    /\ pc' = [pc EXCEPT ![p] = "recover"]
    /\ UNCHANGED <<runner, due, status, stale, claimed, marking, service, scanned, faults>>

IsLeader(p) == leader = p /\ leased

\* Mutation: a submitted occurrence is its job's business.
Recoverable_ClaimedOnly == {o \in stale : status[o] = "claimed"}

\* recover_claimed: whatever is open for too long is claimed again.
Recoverable == {o \in stale : status[o] \in Open}

Recover(p) ==
    /\ pc[p] = "recover"
    /\ LET taken == IF IsLeader(p) THEN Recoverable ELSE {}
       IN  /\ status' = [o \in Occurrences |-> IF o \in taken THEN "claimed" ELSE status[o]]
           /\ stale' = stale \ taken
           /\ claimed' = [claimed EXCEPT ![p] = taken]
    /\ pc' = [pc EXCEPT ![p] = "claim"]
    /\ UNCHANGED <<runner, leader, leased, due, marking, service, scanned, faults>>

\* claim_due: one new occurrence for every watch that is due.
NewOccurrences ==
    {new \in SUBSET {o \in Occurrences : status[o] = "absent"} :
        /\ {WatchOf[o] : o \in new} = due
        /\ \A o, q \in new : WatchOf[o] = WatchOf[q] => o = q}

AfterOne(left) == IF left = {} THEN "idle" ELSE "submit"

ClaimDue(p) ==
    /\ pc[p] = "claim"
    /\ \E new \in IF IsLeader(p) THEN NewOccurrences ELSE {{}} :
          /\ status' = [o \in Occurrences |-> IF o \in new THEN "claimed" ELSE status[o]]
          /\ claimed' = [claimed EXCEPT ![p] = @ \cup new]
          /\ due' = IF IsLeader(p) THEN {} ELSE due
    /\ pc' = [pc EXCEPT ![p] = AfterOne(claimed'[p])]
    /\ UNCHANGED <<runner, leader, leased, stale, marking, service, scanned, faults>>

\* _submit, up to mark_occurrence_submitted.
SubmitOne(p) == \E o \in claimed[p], j \in Jobs :
    /\ pc[p] = "submit"
    /\ Submit(j, Scheduled(p)) /\ operation' = [operation EXCEPT ![j] = o]
    /\ claimed' = [claimed EXCEPT ![p] = @ \ {o}] /\ marking' = [marking EXCEPT ![p] = {o}]
    /\ pc' = [pc EXCEPT ![p] = "mark"]
    /\ UNCHANGED <<store, active, at, scan, scanned, faults>>

\* Mutation: without the filter on the status.
Finished_Always(o, outcome) == outcome

\* finish_occurrence leaves an occurrence alone that is settled.
Finished(o, outcome) == IF status[o] \in Open THEN outcome ELSE status[o]

\* mark_occurrence_submitted; if the occurrence is not claimed any more, the
\* conflict is caught and the occurrence fails.
Mark(p) == \E o \in marking[p] :
    /\ status' = [status EXCEPT ![o] = IF @ = "claimed" THEN "submitted" ELSE Finished(o, "failed")]
    /\ marking' = [marking EXCEPT ![p] = {}]
    /\ pc' = [pc EXCEPT ![p] = AfterOne(claimed[p])]
    /\ UNCHANGED <<runner, leader, leased, due, stale, claimed, service, scanned, faults>>

\* The database is busy: _run swallows the exception and starts over later.
TickFails(p) ==
    /\ pc[p] # "idle" /\ Fault
    /\ pc' = [pc EXCEPT ![p] = "idle"] /\ claimed' = [claimed EXCEPT ![p] = {}]
    /\ marking' = [marking EXCEPT ![p] = {}]
    /\ UNCHANGED <<runner, store, service, scanned>>

-----------------------------------------------------------------------------
(* Jobs.                                                                   *)

\* POST .../watches/{watch_id}/scan, once at a time (a bound).
ManualScan(p, w) == \E j \in Jobs :
    /\ \A i \in Jobs : operation[i] \notin Watches
    /\ Submit(j, Requested(p)) /\ operation' = [operation EXCEPT ![j] = w]
    /\ UNCHANGED <<store, tick, active, at, scan, scanned, faults>>

\* cancel: a queued scan never runs, and nobody tells the occurrence.
Cancel(j) ==
    /\ MarkCancelled(j) /\ Fault
    /\ UNCHANGED <<store, tick, service, scanned>>

Target(t)  == operation[running[t]]
Watch(t)   == IF Target(t) \in Watches THEN Target(t) ELSE WatchOf[Target(t)]
Process(t) == t[1]

Goto(t, locus) == at' = [at EXCEPT ![t] = locus]

Begin(t) == \E j \in Jobs :
    /\ Start(j, t) /\ Goto(t, "scan")
    /\ UNCHANGED <<store, tick, active, operation, scan, scanned, faults>>

Skip(t) == \E j \in Jobs :
    /\ Drop(j, t) /\ operation' = [operation EXCEPT ![j] = Nothing]
    /\ UNCHANGED <<store, tick, active, at, scan, scanned, faults>>

IsActive(t) == Watch(t) \in active[Process(t)]

\* Mutation: the finally clause covers the check, too.
AfterConflict_Discards(t) == [active EXCEPT ![Process(t)] = @ \ {Watch(t)}]

\* scan, up to the requests to the watched pages: one scan of a watch at a
\* time in this process.
AfterConflict(t) == active

\* Mutation: a scan that is active counts for whoever asks.
ConflictOutcome_Ok == "completed"

ConflictOutcome == "failed"

ScanBegin(t) ==
    /\ at[t] = "scan"
    /\ IF IsActive(t)
       THEN Goto(t, "finish") /\ scan' = [scan EXCEPT ![t] = ConflictOutcome] /\ active' = AfterConflict(t)
       ELSE Goto(t, "fetch") /\ active' = [active EXCEPT ![Process(t)] = @ \cup {Watch(t)}] /\ UNCHANGED scan
    /\ UNCHANGED <<runner, store, tick, operation, scanned, faults>>

\* The rest of scan: commit_scan, or an exception; then its finally clause.
ScanDone(t, outcome) ==
    /\ at[t] = "fetch"
    /\ scanned' = IF outcome = "completed" THEN scanned \cup ({Target(t)} \ Watches) ELSE scanned
    /\ scan' = [scan EXCEPT ![t] = outcome]
    /\ active' = [active EXCEPT ![Process(t)] = @ \ {Watch(t)}]
    /\ Goto(t, "finish")
    /\ UNCHANGED <<runner, store, tick, operation, faults>>

\* finish_occurrence, when the job is one of the scheduler's.
FinishOccurrence(t) ==
    /\ at[t] = "finish" /\ Goto(t, "end")
    /\ status' = [o \in Occurrences |-> IF o = Target(t) THEN Finished(o, scan[t]) ELSE status[o]]
    /\ UNCHANGED <<runner, leader, leased, due, stale, tick, active, operation, scan, scanned, faults>>

\* The database is busy: the job fails and the occurrence stays as it is, or
\* the second attempt, in the exception handler, makes it fail.
FinishRaises(t) ==
    /\ at[t] = "finish" /\ Target(t) \in Occurrences /\ Fault
    /\ status' \in {status, [status EXCEPT ![Target(t)] = Finished(Target(t), "failed")]}
    /\ scan' = [scan EXCEPT ![t] = "failed"] /\ Goto(t, "end")
    /\ UNCHANGED <<runner, leader, leased, due, stale, tick, active, operation, scanned>>

FinishJob(t) ==
    /\ at[t] = "end" /\ End(running[t], t, scan[t])
    /\ Goto(t, "idle") /\ scan' = [scan EXCEPT ![t] = "failed"]
    /\ operation' = [operation EXCEPT ![running[t]] = Nothing]
    /\ UNCHANGED <<store, tick, active, scanned, faults>>

-----------------------------------------------------------------------------
(* Time, operators and crashes.                                            *)

FallsDue(w) ==
    /\ w \notin due /\ \E o \in Occurrences : WatchOf[o] = w /\ status[o] = "absent"
    /\ due' = due \cup {w}
    /\ UNCHANGED <<runner, leader, leased, status, stale, tick, service, scanned, faults>>

\* configure_schedule: paused, or next due after a whole interval.
Reschedule(w) ==
    /\ w \in due /\ due' = due \ {w}
    /\ UNCHANGED <<runner, leader, leased, status, stale, tick, service, scanned, faults>>

GrowsStale(o) ==
    /\ status[o] \in Open /\ o \notin stale /\ stale' = stale \cup {o}
    /\ UNCHANGED <<runner, leader, leased, due, status, tick, service, scanned, faults>>

\* The lease of a process that is alive only expires when it is held up.
LeaseExpires ==
    /\ leased /\ leased' = FALSE
    /\ IF leader \in Procs THEN Fault ELSE UNCHANGED faults
    /\ UNCHANGED <<runner, leader, due, status, stale, tick, service, scanned>>

ThreadsOf(p) == {t \in Threads : Process(t) = p}

\* A process that starts again has another owner name.
Crash(p) ==
    /\ Fault /\ Forget(ThreadsOf(p))
    /\ leader' = IF leader = p THEN Gone ELSE leader
    /\ pc' = [pc EXCEPT ![p] = "idle"] /\ claimed' = [claimed EXCEPT ![p] = {}]
    /\ marking' = [marking EXCEPT ![p] = {}] /\ active' = [active EXCEPT ![p] = {}]
    /\ at' = [t \in Threads |-> IF Process(t) = p THEN "idle" ELSE at[t]]
    /\ scan' = [t \in Threads |-> IF Process(t) = p THEN "failed" ELSE scan[t]]
    /\ operation' = [j \in Jobs |-> IF Lost(j, ThreadsOf(p)) THEN Nothing ELSE operation[j]]
    /\ UNCHANGED <<leased, due, status, stale, scanned>>

-----------------------------------------------------------------------------
Tick(p) ==
    \/ Lead(p) \/ Recover(p) \/ ClaimDue(p) \/ SubmitOne(p) \/ Mark(p)

Step(t) ==
    \/ Begin(t) \/ Skip(t) \/ ScanBegin(t)
    \/ \E outcome \in Ended : ScanDone(t, outcome)
    \/ FinishOccurrence(t) \/ FinishJob(t)

Next ==
    \/ \E p \in Procs : Tick(p) \/ TickFails(p) \/ Crash(p)
    \/ \E p \in Asked, w \in Watches : ManualScan(p, w)
    \/ \E j \in Jobs : Cancel(j)
    \/ \E t \in Threads : Step(t) \/ FinishRaises(t)
    \/ \E w \in Watches : FallsDue(w) \/ Reschedule(w)
    \/ \E o \in Occurrences : GrowsStale(o)
    \/ LeaseExpires

Spec == Init /\ [][Next]_vars

\* Processes tick and threads run, time passes, and the lease of a dead owner
\* expires.  Faults need not happen, and only so many do.
Fairness ==
    /\ \A p \in Procs : WF_vars(Tick(p))
    /\ \A t \in Threads : WF_vars(Step(t))
    /\ \A o \in Occurrences : WF_vars(GrowsStale(o))
    /\ WF_vars(leader = Gone /\ LeaseExpires)

FairSpec == Spec /\ Fairness

-----------------------------------------------------------------------------
(* Properties.                                                             *)

\* An occurrence that has completed or failed stays so: a recovery, a second
\* job, a late mark or a late finish never opens or changes it.
SettledIsFinal ==
    [][\A o \in Occurrences : status[o] \in Ended => status'[o] = status[o]]_vars

\* An occurrence is only reported complete when a scan for it was committed,
\* whichever of its jobs reports it.
CompletedWasScanned ==
    \A o \in Occurrences : status[o] = "completed" => o \in scanned

\* In one process no watch is scanned twice at a time, and a watch is marked
\* active exactly while it is (DarkWebWatchService.scan).
OneScanPerWatch ==
    \A p \in Procs :
        LET scanning == {t \in Threads : Process(t) = p /\ at[t] = "fetch"}
        IN  /\ active[p] = {Watch(t) : t \in scanning}
            /\ \A t, u \in scanning : Watch(t) = Watch(u) => t = u

\* A watch that is due does not stay so: somebody leads, and claims it.  And
\* whatever crashed, was cancelled or went wrong on the way, an occurrence that
\* is claimed settles ("restart-safe scheduler").
EveryOccurrenceSettles ==
    /\ \A w \in Watches : w \in due ~> w \notin due
    /\ \A o \in Occurrences : status[o] = "claimed" ~> status[o] \in Ended
=============================================================================
