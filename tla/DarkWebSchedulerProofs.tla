----------------------- MODULE DarkWebSchedulerProofs ------------------------
(***************************************************************************)
(* Proofs about DarkWebScheduler, for any number of processes, watches,    *)
(* occurrences, jobs and faults.                                           *)
(*                                                                         *)
(* A job is only looked at through the thread it is on (Target), while its *)
(* identifier and what it scans are kept by the runner.  So the invariant  *)
(* says that an identifier that anybody still uses is not given away       *)
(* (RunnerAgrees), that what is in a queue or on a thread scans something  *)
(* (TargetsAgree), and that a scan reported complete was committed, for    *)
(* the occurrence the job still names (ScansAgree).                        *)
(***************************************************************************)
EXTENDS DarkWebScheduler, JobRunnerProofs

\* A thread is idle exactly when it has no job.
ThreadsAgree == \A t \in Threads : at[t] = "idle" <=> running[t] = NoJob

\* A job that is queued or taken scans something.
TargetsAgree == \A j \in Jobs : IsLive(j) => operation[j] \in Watches \cup Occurrences

\* What a thread is about to report was committed.
ScansAgree ==
    \A t \in Threads : at[t] = "finish" /\ scan[t] = "completed" => Target(t) \in Watches \cup scanned

Core == RunnerAgrees /\ ThreadsAgree /\ TargetsAgree /\ ScansAgree /\ OneScanPerWatch
IInv == TypeOK /\ Core /\ CompletedWasScanned

-----------------------------------------------------------------------------
(* Threads and what they scan. *)

\* Every thread is one of a process.
LEMMA ThreadsOfProcesses == \A t \in Threads : Process(t) \in Procs
BY SchedulerAssumption DEF Process

\* A busy thread scans a watch.
LEMMA Busy ==
    ASSUME TypeOK, ThreadsAgree, TargetsAgree, NEW t \in Threads, at[t] # "idle"
    PROVE  /\ running[t] \in Jobs /\ IsLive(running[t])
           /\ Target(t) \in Watches \cup Occurrences /\ Watch(t) \in Watches
<1>1. running[t] \in Jobs
  BY DEF TypeOK, RunnerTypeOK, ThreadsAgree
<1>2. IsLive(running[t])
  BY DEF IsLive, IsTaken
<1>3. Target(t) \in Watches \cup Occurrences
  BY <1>1, <1>2 DEF TargetsAgree, Target
<1>4. Watch(t) \in Watches
  BY <1>3, SchedulerAssumption DEF Watch
<1> QED
  BY <1>1, <1>2, <1>3, <1>4

\* A thread that a step leaves alone, with the job it has.
Same(t) ==
    /\ at'[t] = at[t] /\ scan'[t] = scan[t] /\ running'[t] = running[t]
    /\ at[t] # "idle" => operation'[running[t]] = operation[running[t]]

\* A thread that the step leaves alone stays at its watch and occurrence.
LEMMA SameTarget ==
    ASSUME NEW t \in Threads, Same(t), at[t] # "idle"
    PROVE  Target(t)' = Target(t) /\ Watch(t)' = Watch(t)
BY DEF Same, Target, Watch

\* The threads that are left alone stay as they should be.
LEMMA OthersAgree ==
    ASSUME Core, NEW t \in Threads, Same(t), scanned \subseteq scanned'
    PROVE  /\ at'[t] = "idle" <=> running'[t] = NoJob
           /\ at'[t] = "finish" /\ scan'[t] = "completed" => (Target(t) \in Watches \cup scanned)'
           /\ at'[t] = "fetch" <=> at[t] = "fetch"
           /\ at[t] = "fetch" => Watch(t)' = Watch(t)
BY SameTarget DEF Core, ThreadsAgree, ScansAgree, Same

\* Scans neither begin nor end.
LEMMA NoScan ==
    ASSUME OneScanPerWatch, active' = active,
           \A t \in Threads : at'[t] = "fetch" <=> at[t] = "fetch",
           \A t \in Threads : at[t] = "fetch" => Watch(t)' = Watch(t)
    PROVE  OneScanPerWatch'
<1> SUFFICES ASSUME NEW p \in Procs
             PROVE  /\ active'[p] = {Watch(t)' : t \in {u \in Threads : Process(u) = p /\ at'[u] = "fetch"}}
                    /\ \A t, u \in {v \in Threads : Process(v) = p /\ at'[v] = "fetch"} :
                          Watch(t)' = Watch(u)' => t = u
  BY DEF OneScanPerWatch, Process
<1> DEFINE scanning == {t \in Threads : Process(t) = p /\ at[t] = "fetch"}
<1>1. scanning = {u \in Threads : Process(u) = p /\ at'[u] = "fetch"}
  OBVIOUS
<1>2. active[p] = {Watch(t) : t \in scanning} /\ \A t, u \in scanning : Watch(t) = Watch(u) => t = u
  BY DEF OneScanPerWatch
<1>3. \A t \in scanning : Watch(t)' = Watch(t)
  OBVIOUS
<1> QED
  BY <1>1, <1>2, <1>3

\* A step of the ticks, of time or of operators.
LEMMA Unmoved ==
    ASSUME Core, UNCHANGED <<runner, service, scanned>>
    PROVE  Core'
BY DEF Core, RunnerAgrees, TakenAgree, QueuesAgree, ThreadsAgree, TargetsAgree, ScansAgree,
       OneScanPerWatch, IsLive, IsQueued, IsTaken, Target, Watch, runner, service

-----------------------------------------------------------------------------
(* Types. *)

\* The scheduler starts with no occurrence and no scan.
LEMMA TypeInit == Init => TypeOK
<1> SUFFICES ASSUME Init PROVE TypeOK
  OBVIOUS
<1>1. <<>> \in Seq(Jobs)
  OBVIOUS
<1>2. RunnerTypeOK
  BY <1>1 DEF Init, RunnerInit, RunnerTypeOK, JobState
<1> QED
  <2>1. faults \in 0 .. MaxFaults
    BY SchedulerAssumption DEF Init
  <2>2. /\ status \in [Occurrences -> {"absent"} \cup Open \cup Ended]
        /\ at \in [Threads -> Locus] /\ scan \in [Threads -> Ended]
        /\ pc \in [Procs -> Ticks]
    BY DEF Init, Ticks, Locus, Ended
  <2> QED
    BY <1>2, <2>1, <2>2 DEF Init, TypeOK

\* Every step keeps the types.
LEMMA TypeStep == TypeOK /\ ThreadsAgree /\ TargetsAgree /\ [Next]_vars => TypeOK'
<1> SUFFICES ASSUME TypeOK, ThreadsAgree, TargetsAgree, [Next]_vars PROVE TypeOK'
  OBVIOUS
<1> USE DEF store, tick, service
<1>1. ASSUME runner' = runner PROVE RunnerTypeOK'
  BY <1>1 DEF TypeOK, RunnerTypeOK, runner
<1>2. ASSUME NEW p \in Procs, Tick(p) \/ TickFails(p) PROVE TypeOK'
  <2>1. CASE Lead(p)
    BY <1>1, <2>1 DEF Lead, TypeOK, Ticks
  <2>2. CASE Recover(p)
    <3>1. Recoverable \subseteq Occurrences
      BY DEF Recoverable, TypeOK
    <3> QED
      BY <1>1, <2>2, <3>1 DEF Recover, TypeOK, Ticks, Open
  <2>3. CASE ClaimDue(p)
    <3>1. PICK new \in IF IsLeader(p) THEN NewOccurrences ELSE {{}} :
            /\ status' = [o \in Occurrences |-> IF o \in new THEN "claimed" ELSE status[o]]
            /\ claimed' = [claimed EXCEPT ![p] = @ \cup new]
            /\ due' = IF IsLeader(p) THEN {} ELSE due
      BY <2>3 DEF ClaimDue
    <3>2. new \subseteq Occurrences
      BY DEF NewOccurrences
    <3>3. /\ status' \in [Occurrences -> {"absent"} \cup Open \cup Ended]
          /\ claimed' \in [Procs -> SUBSET Occurrences] /\ due' \subseteq Watches
      BY <3>1, <3>2 DEF TypeOK, Open
    <3>4. pc' \in [Procs -> Ticks]
      BY <2>3 DEF ClaimDue, AfterOne, TypeOK, Ticks
    <3> QED
      BY <1>1, <2>3, <3>3, <3>4 DEF ClaimDue, TypeOK
  <2>4. CASE SubmitOne(p)
    <3>1. PICK o \in claimed[p], j \in Jobs :
            /\ Submit(j, Scheduled(p)) /\ operation' = [operation EXCEPT ![j] = o]
            /\ claimed' = [claimed EXCEPT ![p] = @ \ {o}] /\ marking' = [marking EXCEPT ![p] = {o}]
            /\ pc' = [pc EXCEPT ![p] = "mark"]
            /\ UNCHANGED <<store, active, at, scan, scanned, faults>>
      BY <2>4 DEF SubmitOne
    <3>2. RunnerTypeOK' /\ o \in Occurrences
      BY <3>1, SubmitTyped, SchedulerAssumption DEF TypeOK
    <3> QED
      BY <3>1, <3>2 DEF TypeOK, Ticks
  <2>5. CASE Mark(p)
    <3>1. PICK o \in marking[p] :
            status' = [status EXCEPT ![o] = IF @ = "claimed" THEN "submitted" ELSE Finished(o, "failed")]
      BY <2>5 DEF Mark
    <3>2. status' \in [Occurrences -> {"absent"} \cup Open \cup Ended]
      BY <3>1 DEF TypeOK, Finished, Open, Ended
    <3> QED
      BY <1>1, <2>5, <3>2 DEF Mark, AfterOne, TypeOK, Ticks
  <2>6. CASE TickFails(p)
    BY <1>1, <2>6, SchedulerAssumption DEF TickFails, Fault, TypeOK, Ticks
  <2> QED
    BY <1>2, <2>1, <2>2, <2>3, <2>4, <2>5, <2>6 DEF Tick
<1>3. ASSUME NEW p \in Procs, Crash(p) PROVE TypeOK'
  <2>1. RunnerTypeOK'
    BY <1>3, ForgetTyped DEF Crash, TypeOK
  <2>2. faults' \in 0 .. MaxFaults
    BY <1>3, SchedulerAssumption DEF Crash, Fault, TypeOK
  <2>3. /\ at' \in [Threads -> Locus] /\ scan' \in [Threads -> Ended]
        /\ operation' \in [Jobs -> Watches \cup Occurrences \cup {Nothing}]
    BY <1>3 DEF Crash, TypeOK, Locus, Ended
  <2> QED
    BY <1>3, <2>1, <2>2, <2>3 DEF Crash, TypeOK, Ticks
<1>4. ASSUME NEW p \in Asked, NEW w \in Watches, ManualScan(p, w) PROVE TypeOK'
  <2>1. RunnerTypeOK'
    BY <1>4, SubmitTyped, SchedulerAssumption DEF ManualScan, TypeOK
  <2> QED
    BY <1>4, <2>1 DEF ManualScan, TypeOK
<1>5. ASSUME NEW j \in Jobs, Cancel(j) PROVE TypeOK'
  BY <1>5, MarkTyped, SchedulerAssumption DEF Cancel, Fault, TypeOK
<1>6. ASSUME NEW t \in Threads, Step(t) \/ FinishRaises(t) PROVE TypeOK'
  <2> USE DEF Goto
  <2>1. CASE Begin(t)
    BY <2>1, TakeTyped DEF Begin, TypeOK, Locus
  <2>2. CASE Skip(t)
    BY <2>2, TakeTyped DEF Skip, TypeOK
  <2>3. CASE ScanBegin(t)
    <3>1. Watch(t) \in Watches /\ Process(t) \in Procs
      BY <2>3, Busy, ThreadsOfProcesses DEF ScanBegin
    <3>2. active' \in [Procs -> SUBSET Watches]
      BY <2>3, <3>1 DEF ScanBegin, AfterConflict, TypeOK
    <3> QED
      BY <1>1, <2>3, <3>2 DEF ScanBegin, ConflictOutcome, TypeOK, Locus, Ended
  <2>4. ASSUME NEW outcome \in Ended, ScanDone(t, outcome) PROVE TypeOK'
    <3>1. Target(t) \in Watches \cup Occurrences /\ Process(t) \in Procs
      BY <2>4, Busy, ThreadsOfProcesses DEF ScanDone
    <3>2. scanned' \subseteq Occurrences /\ active' \in [Procs -> SUBSET Watches]
      BY <2>4, <3>1 DEF ScanDone, TypeOK
    <3> QED
      BY <1>1, <2>4, <3>2 DEF ScanDone, TypeOK, Locus
  <2>5. CASE FinishOccurrence(t)
    <3>1. status' \in [Occurrences -> {"absent"} \cup Open \cup Ended]
      BY <2>5 DEF FinishOccurrence, Finished, TypeOK
    <3> QED
      BY <1>1, <2>5, <3>1 DEF FinishOccurrence, TypeOK, Locus
  <2>6. CASE FinishRaises(t)
    <3>1. status' \in [Occurrences -> {"absent"} \cup Open \cup Ended]
      BY <2>6 DEF FinishRaises, Finished, TypeOK, Ended
    <3> QED
      BY <1>1, <2>6, <3>1, SchedulerAssumption DEF FinishRaises, Fault, TypeOK, Locus, Ended
  <2>7. CASE FinishJob(t)
    <3>1. running[t] \in Jobs /\ scan[t] \in JobState
      BY <2>7, Busy DEF FinishJob, TypeOK, Ended, JobState, Settled
    <3>2. RunnerTypeOK'
      BY <2>7, <3>1, EndTyped DEF FinishJob, TypeOK
    <3> QED
      BY <2>7, <3>1, <3>2 DEF FinishJob, TypeOK, Locus, Ended
  <2> QED
    BY <1>6, <2>1, <2>2, <2>3, <2>4, <2>5, <2>6, <2>7 DEF Step
<1>7. ASSUME NEW w \in Watches, FallsDue(w) \/ Reschedule(w) PROVE TypeOK'
  BY <1>1, <1>7 DEF FallsDue, Reschedule, TypeOK
<1>8. ASSUME NEW o \in Occurrences, GrowsStale(o) PROVE TypeOK'
  BY <1>1, <1>8 DEF GrowsStale, TypeOK
<1>9. CASE LeaseExpires
  <2>1. faults' \in 0 .. MaxFaults
    BY <1>9, SchedulerAssumption DEF LeaseExpires, Fault, TypeOK
  <2> QED
    BY <1>1, <1>9, <2>1 DEF LeaseExpires, TypeOK
<1>10. CASE UNCHANGED vars
  BY <1>1, <1>10 DEF vars, TypeOK
<1> QED
  BY <1>2, <1>3, <1>4, <1>5, <1>6, <1>7, <1>8, <1>9, <1>10, Zenon DEF Next

-----------------------------------------------------------------------------
(* The runner and the threads, action by action. *)

\* A step of one thread that neither begins nor ends a scan.
LEMMA OneMoves ==
    ASSUME TypeOK, Core, RunnerAgrees', TargetsAgree', NEW t \in Threads,
           \A u \in Threads \ {t} : Same(u), active' = active, scanned' = scanned,
           at[t] # "fetch", at'[t] # "fetch", at'[t] = "idle" <=> running'[t] = NoJob,
           at'[t] = "finish" => scan'[t] # "completed"
    PROVE  Core'
<1>1. ThreadsAgree' /\ ScansAgree'
  BY OthersAgree DEF ThreadsAgree, ScansAgree
<1>2. \A u \in Threads : at'[u] = "fetch" <=> at[u] = "fetch"
  BY OthersAgree
<1>3. \A u \in Threads : at[u] = "fetch" => Watch(u)' = Watch(u)
  BY OthersAgree
<1>4. OneScanPerWatch'
  BY <1>2, <1>3, NoScan DEF Core
<1> QED
  BY <1>1, <1>4 DEF Core

\* No thread moves.
LEMMA NoneMoves ==
    ASSUME TypeOK, Core, RunnerAgrees', TargetsAgree',
           \A u \in Threads : Same(u), active' = active, scanned' = scanned
    PROVE  Core'
<1>1. ThreadsAgree' /\ ScansAgree'
  BY OthersAgree DEF ThreadsAgree, ScansAgree
<1>2. OneScanPerWatch'
  BY OthersAgree, NoScan DEF Core
<1> QED
  BY <1>1, <1>2 DEF Core

\* A job is submitted, by a tick or by an operator.
LEMMA SubmitStep ==
    ASSUME TypeOK, Core, NEW j \in Jobs, NEW t \in Threads, NEW what \in Watches \cup Occurrences,
           Submit(j, t), operation' = [operation EXCEPT ![j] = what],
           UNCHANGED <<active, at, scan, scanned>>
    PROVE  Core'
<1>1. RunnerAgrees' /\ ~IsLive(j) /\ \A i \in Jobs \ {j} : IsLive(i)' => IsLive(i)
  BY SubmitAgrees DEF Core, TypeOK
<1>2. \A i \in Jobs : operation'[i] = IF i = j THEN what ELSE operation[i]
  BY DEF TypeOK
<1>3. TargetsAgree'
  BY <1>1, <1>2 DEF Core, TargetsAgree
<1>4. ASSUME NEW u \in Threads PROVE Same(u)
  <2>1. running' = running
    BY DEF Submit
  <2>2. at[u] # "idle" => running[u] \in Jobs /\ running[u] # j
    BY <1>1, Busy DEF Core
  <2> QED
    BY <1>2, <2>1, <2>2 DEF Same
<1> QED
  BY <1>1, <1>3, <1>4, NoneMoves

\* A job is cancelled.
LEMMA CancelStep ==
    ASSUME TypeOK, Core, NEW j \in Jobs, Cancel(j)
    PROVE  Core'
<1>1. RunnerAgrees' /\ \A i \in Jobs : IsLive(i)' <=> IsLive(i)
  BY MarkAgrees DEF Cancel, Core, TypeOK
<1>2. UNCHANGED <<running, service, scanned>>
  BY DEF Cancel, MarkCancelled
<1>3. TargetsAgree' /\ \A u \in Threads : Same(u)
  BY <1>1, <1>2 DEF Core, TargetsAgree, Same, service
<1> QED
  BY <1>1, <1>2, <1>3, NoneMoves DEF service

\* A thread takes a job, or drops it.
LEMMA TakeStep ==
    ASSUME TypeOK, Core, NEW t \in Threads, Begin(t) \/ Skip(t)
    PROVE  Core'
<1>1. CASE Begin(t)
  <2>1. PICK j \in Jobs : Start(j, t)
    BY <1>1 DEF Begin
  <2>2. RunnerAgrees' /\ running[t] = NoJob /\ \A i \in Jobs : IsLive(i)' => IsLive(i)
    BY <2>1, StartAgrees DEF Core, TypeOK
  <2>3. UNCHANGED <<active, operation, scan, scanned>>
    BY <1>1 DEF Begin
  <2>4. /\ at'[t] = "scan" /\ running'[t] = j
        /\ \A u \in Threads \ {t} : at'[u] = at[u] /\ running'[u] = running[u]
    BY <1>1, <2>1 DEF Begin, Goto, Start, TypeOK, RunnerTypeOK
  <2>5. TargetsAgree'
    BY <2>2, <2>3 DEF Core, TargetsAgree
  <2>6. at[t] = "idle"
    BY <2>2 DEF Core, ThreadsAgree
  <2> QED
    BY <2>2, <2>3, <2>4, <2>5, <2>6, JobsAssumption, OneMoves DEF Same
<1>2. CASE Skip(t)
  <2>1. PICK j \in Jobs : Drop(j, t) /\ operation' = [operation EXCEPT ![j] = Nothing]
    BY <1>2 DEF Skip
  <2>2. /\ RunnerAgrees' /\ ~IsTaken(j) /\ ~IsLive(j)'
        /\ \A i \in Jobs : IsLive(i)' => IsLive(i)
    BY <2>1, DropAgrees DEF Core, TypeOK
  <2>3. \A i \in Jobs \ {j} : operation'[i] = operation[i]
    BY <2>1 DEF TypeOK
  <2>4. TargetsAgree'
    BY <2>2, <2>3 DEF Core, TargetsAgree
  <2>5. UNCHANGED <<running, active, at, scan, scanned>>
    BY <1>2, <2>1 DEF Skip, Drop
  <2>6. ASSUME NEW u \in Threads PROVE Same(u)
    <3>1. at[u] # "idle" => running[u] \in Jobs \ {j}
      BY <2>2, Busy DEF Core, IsTaken
    <3> QED
      BY <2>3, <2>5, <3>1 DEF Same
  <2> QED
    BY <2>2, <2>4, <2>5, <2>6, NoneMoves
<1> QED
  BY <1>1, <1>2

\* A thread moves on with the job it has.
LEMMA Inner ==
    ASSUME TypeOK, Core, NEW t \in Threads, UNCHANGED <<runner, operation>>,
           NEW locus, at' = [at EXCEPT ![t] = locus], NEW got, scan' = [scan EXCEPT ![t] = got]
    PROVE  /\ RunnerAgrees' /\ TargetsAgree' /\ Target(t)' = Target(t) /\ Watch(t)' = Watch(t)
           /\ at'[t] = locus /\ scan'[t] = got /\ \A u \in Threads \ {t} : Same(u)
BY DEF Core, RunnerAgrees, TakenAgree, QueuesAgree, TargetsAgree, IsLive, IsQueued, IsTaken,
       Target, Watch, Same, TypeOK, runner

\* A scan begins, unless its watch is being scanned.
LEMMA ScanBeginStep ==
    ASSUME TypeOK, Core, NEW t \in Threads, ScanBegin(t)
    PROVE  Core'
<1>1. /\ at[t] = "scan" /\ Watch(t) \in Watches /\ Process(t) \in Procs
      /\ running[t] \in Jobs
      /\ UNCHANGED <<runner, operation, scanned>>
  BY Busy, ThreadsOfProcesses DEF ScanBegin, Core
<1>2. scan = [scan EXCEPT ![t] = scan[t]]
  BY DEF TypeOK
<1>3. CASE IsActive(t)
  <2>1. /\ at' = [at EXCEPT ![t] = "finish"] /\ scan' = [scan EXCEPT ![t] = "failed"]
        /\ active' = active
    BY <1>3 DEF ScanBegin, Goto, AfterConflict, ConflictOutcome
  <2>2. /\ RunnerAgrees' /\ TargetsAgree' /\ at'[t] = "finish" /\ scan'[t] = "failed"
        /\ \A u \in Threads \ {t} : Same(u)
    BY <1>1, <2>1, Inner
  <2>3. running'[t] # NoJob
    BY <1>1, JobsAssumption DEF runner
  <2> QED
    BY <1>1, <2>1, <2>2, <2>3, OneMoves
<1>4. CASE ~IsActive(t)
  <2>1. /\ at' = [at EXCEPT ![t] = "fetch"] /\ scan' = [scan EXCEPT ![t] = scan[t]]
        /\ active' = [active EXCEPT ![Process(t)] = @ \cup {Watch(t)}]
    BY <1>2, <1>4 DEF ScanBegin, Goto
  <2>2. /\ RunnerAgrees' /\ TargetsAgree' /\ at'[t] = "fetch" /\ Watch(t)' = Watch(t)
        /\ \A u \in Threads \ {t} : Same(u)
    BY <1>1, <2>1, Inner
  <2>3. ThreadsAgree' /\ ScansAgree'
    BY <1>1, <2>2, OthersAgree, JobsAssumption DEF ThreadsAgree, ScansAgree, runner
  <2>4. OneScanPerWatch'
    <3> SUFFICES ASSUME NEW p \in Procs
                 PROVE  /\ active'[p] = {Watch(u)' : u \in {v \in Threads : Process(v) = p /\ at'[v] = "fetch"}}
                        /\ \A u, v \in {x \in Threads : Process(x) = p /\ at'[x] = "fetch"} :
                              Watch(u)' = Watch(v)' => u = v
      BY DEF OneScanPerWatch, Process
    <3> DEFINE before == {u \in Threads : Process(u) = p /\ at[u] = "fetch"}
               after  == {u \in Threads : Process(u) = p /\ at'[u] = "fetch"}
    <3> SUFFICES /\ active'[p] = {Watch(u)' : u \in after}
                 /\ \A u, v \in after : Watch(u)' = Watch(v)' => u = v
      OBVIOUS
    <3>1. /\ active[p] = {Watch(u) : u \in before}
          /\ \A u, v \in before : Watch(u) = Watch(v) => u = v
      BY DEF Core, OneScanPerWatch
    <3>2. \A u \in Threads \ {t} : /\ at'[u] = "fetch" <=> at[u] = "fetch"
                                   /\ at[u] = "fetch" => Watch(u)' = Watch(u)
      BY <1>1, <2>2, OthersAgree
    <3>3. CASE p = Process(t)
      <4>1. after = before \cup {t} /\ t \notin before
        BY <1>1, <2>2, <3>2, <3>3
      <4>2. active'[p] = active[p] \cup {Watch(t)} /\ Watch(t) \notin active[p]
        BY <1>1, <1>4, <2>1, <3>3 DEF IsActive, TypeOK
      <4>3. \A u \in before : Watch(u)' = Watch(u)
        BY <3>2, <4>1
      <4> HIDE DEF before, after
      <4> QED
        BY <2>2, <3>1, <4>1, <4>2, <4>3
    <3>4. CASE p # Process(t)
      <4>1. after = before
        BY <3>2, <3>4
      <4>2. active'[p] = active[p]
        BY <2>1, <3>4 DEF TypeOK
      <4>3. \A u \in before : Watch(u)' = Watch(u)
        BY <3>2, <3>4
      <4> HIDE DEF before, after
      <4> QED
        BY <3>1, <4>1, <4>2, <4>3
    <3> QED
      BY <3>3, <3>4
  <2> QED
    BY <2>2, <2>3, <2>4 DEF Core
<1> QED
  BY <1>3, <1>4

\* A scan ends, and its watch may be scanned again.
LEMMA ScanDoneStep ==
    ASSUME TypeOK, Core, NEW t \in Threads, NEW outcome \in Ended, ScanDone(t, outcome)
    PROVE  Core'
<1>1. /\ at[t] = "fetch" /\ Target(t) \in Watches \cup Occurrences /\ Process(t) \in Procs
      /\ running[t] \in Jobs
      /\ UNCHANGED <<runner, operation>>
      /\ at' = [at EXCEPT ![t] = "finish"] /\ scan' = [scan EXCEPT ![t] = outcome]
      /\ active' = [active EXCEPT ![Process(t)] = @ \ {Watch(t)}]
      /\ scanned' = IF outcome = "completed" THEN scanned \cup ({Target(t)} \ Watches) ELSE scanned
  BY Busy, ThreadsOfProcesses DEF ScanDone, Core, Goto
<1>2. /\ RunnerAgrees' /\ TargetsAgree' /\ Target(t)' = Target(t)
      /\ at'[t] = "finish" /\ scan'[t] = outcome /\ \A u \in Threads \ {t} : Same(u)
  BY <1>1, Inner
<1>3. ThreadsAgree'
  BY <1>1, <1>2, OthersAgree, JobsAssumption DEF ThreadsAgree, runner
<1>4. ScansAgree'
  BY <1>1, <1>2, OthersAgree DEF ScansAgree
<1>5. OneScanPerWatch'
  <2> SUFFICES ASSUME NEW p \in Procs
               PROVE  /\ active'[p] = {Watch(u)' : u \in {v \in Threads : Process(v) = p /\ at'[v] = "fetch"}}
                      /\ \A u, v \in {x \in Threads : Process(x) = p /\ at'[x] = "fetch"} :
                            Watch(u)' = Watch(v)' => u = v
    BY DEF OneScanPerWatch, Process
  <2> DEFINE before == {u \in Threads : Process(u) = p /\ at[u] = "fetch"}
             after  == {u \in Threads : Process(u) = p /\ at'[u] = "fetch"}
  <2> SUFFICES /\ active'[p] = {Watch(u)' : u \in after}
               /\ \A u, v \in after : Watch(u)' = Watch(v)' => u = v
    OBVIOUS
  <2>1. /\ active[p] = {Watch(u) : u \in before}
        /\ \A u, v \in before : Watch(u) = Watch(v) => u = v
    BY DEF Core, OneScanPerWatch
  <2>2. \A u \in Threads \ {t} : /\ at'[u] = "fetch" <=> at[u] = "fetch"
                                 /\ at[u] = "fetch" => Watch(u)' = Watch(u)
    BY <1>1, <1>2, OthersAgree
  <2>3. after = before \ {t} /\ \A u \in after : Watch(u)' = Watch(u)
    BY <1>2, <2>2
  <2>4. CASE p = Process(t)
    <3>1. t \in before /\ active'[p] = active[p] \ {Watch(t)}
      BY <1>1, <2>4 DEF TypeOK
    <3> HIDE DEF before, after
    <3> QED
      BY <2>1, <2>3, <3>1
  <2>5. CASE p # Process(t)
    <3>1. t \notin before /\ active'[p] = active[p]
      BY <1>1, <2>5 DEF TypeOK
    <3> HIDE DEF before, after
    <3> QED
      BY <2>1, <2>3, <3>1
  <2> QED
    BY <2>4, <2>5
<1> QED
  BY <1>2, <1>3, <1>4, <1>5 DEF Core

\* A job reports its occurrence and ends.
LEMMA FinishStep ==
    ASSUME TypeOK, Core, NEW t \in Threads,
           FinishOccurrence(t) \/ FinishRaises(t) \/ FinishJob(t)
    PROVE  Core'
<1>1. CASE FinishOccurrence(t) \/ FinishRaises(t)
  <2>1. /\ at[t] = "finish" /\ running[t] \in Jobs
        /\ UNCHANGED <<runner, operation, active, scanned>>
        /\ at' = [at EXCEPT ![t] = "end"]
    BY <1>1, Busy DEF FinishOccurrence, FinishRaises, Goto, Core
  <2>2. PICK got : scan' = [scan EXCEPT ![t] = got]
    <3>1. scan = [scan EXCEPT ![t] = scan[t]]
      BY DEF TypeOK
    <3> QED
      BY <1>1, <3>1 DEF FinishOccurrence, FinishRaises
  <2>3. /\ RunnerAgrees' /\ TargetsAgree' /\ at'[t] = "end"
        /\ \A u \in Threads \ {t} : Same(u)
    BY <2>1, <2>2, Inner
  <2> QED
    BY <2>1, <2>3, JobsAssumption, OneMoves DEF runner
<1>2. CASE FinishJob(t)
  <2>1. PICK j \in Jobs : j = running[t]
    BY <1>2, Busy DEF FinishJob, Core
  <2>2. /\ at[t] = "end" /\ End(j, t, scan[t])
        /\ at' = [at EXCEPT ![t] = "idle"] /\ scan' = [scan EXCEPT ![t] = "failed"]
        /\ operation' = [operation EXCEPT ![j] = Nothing]
        /\ UNCHANGED <<active, scanned>>
    BY <1>2, <2>1 DEF FinishJob, Goto
  <2>3. RunnerAgrees' /\ ~IsLive(j)' /\ \A i \in Jobs : IsLive(i)' => IsLive(i)
    BY <2>2, EndAgrees DEF Core, TypeOK
  <2>4. TargetsAgree'
    BY <2>2, <2>3 DEF Core, TargetsAgree, TypeOK
  <2>5. ASSUME NEW u \in Threads \ {t} PROVE Same(u)
    <3>1. at[u] # "idle" => running[u] \in Jobs \ {j}
      BY <2>1, Busy, JobsAssumption DEF Core, RunnerAgrees, TakenAgree
    <3> QED
      BY <2>2, <3>1 DEF Same, End, TypeOK, RunnerTypeOK
  <2>6. at'[t] = "idle" /\ running'[t] = NoJob
    BY <2>2 DEF End, TypeOK, RunnerTypeOK
  <2> QED
    BY <2>2, <2>3, <2>4, <2>5, <2>6, OneMoves
<1> QED
  BY <1>1, <1>2

\* A process starts again with nothing; the others do not notice.
LEMMA CrashStep ==
    ASSUME TypeOK, Core, NEW p \in Procs, Crash(p)
    PROVE  Core'
<1> DEFINE gone == ThreadsOf(p)
<1>1. gone \subseteq Threads /\ \A t \in Threads : t \in gone <=> Process(t) = p
  BY DEF ThreadsOf
<1>2. /\ RunnerAgrees' /\ \A i \in Jobs : IsLive(i)' => IsLive(i) /\ ~Lost(i, gone)
      /\ \A t \in Threads : running'[t] = IF t \in gone THEN NoJob ELSE running[t]
  BY <1>1, ForgetAgrees DEF Crash, Core, TypeOK
<1>3. /\ \A j \in Jobs : operation'[j] = IF Lost(j, gone) THEN Nothing ELSE operation[j]
      /\ \A t \in Threads : at'[t] = IF t \in gone THEN "idle" ELSE at[t]
      /\ \A t \in Threads : scan'[t] = IF t \in gone THEN "failed" ELSE scan[t]
      /\ active' = [active EXCEPT ![p] = {}] /\ scanned' = scanned
  BY <1>1 DEF Crash
<1> HIDE DEF gone
<1>4. TargetsAgree'
  BY <1>2, <1>3 DEF Core, TargetsAgree
<1>5. ASSUME NEW t \in Threads, t \notin gone PROVE Same(t)
  <2>1. ASSUME at[t] # "idle" PROVE operation'[running[t]] = operation[running[t]]
    <3>1. running[t] \in Jobs /\ running'[t] = running[t]
      BY <1>2, <1>5, <2>1, Busy DEF Core
    <3>2. PICK j \in Jobs : j = running[t]
      BY <3>1
    <3>3. ~Lost(j, gone)
      BY <1>2, <1>5, <3>1, <3>2 DEF IsLive, IsTaken
    <3> QED
      BY <1>3, <3>2, <3>3
  <2> QED
    BY <1>2, <1>3, <1>5, <2>1 DEF Same
<1>6. ThreadsAgree' /\ ScansAgree'
  <2>1. ASSUME NEW t \in Threads
        PROVE  /\ at'[t] = "idle" <=> running'[t] = NoJob
               /\ at'[t] = "finish" /\ scan'[t] = "completed" => (Target(t) \in Watches \cup scanned)'
    <3>1. CASE t \in gone
      BY <1>2, <1>3, <3>1
    <3>2. CASE t \notin gone
      BY <1>3, <1>5, <3>2, OthersAgree
    <3> QED
      BY <3>1, <3>2
  <2> QED
    BY <2>1 DEF ThreadsAgree, ScansAgree
<1>7. OneScanPerWatch'
  <2> SUFFICES ASSUME NEW q \in Procs
               PROVE  /\ active'[q] = {Watch(u)' : u \in {v \in Threads : Process(v) = q /\ at'[v] = "fetch"}}
                      /\ \A u, v \in {x \in Threads : Process(x) = q /\ at'[x] = "fetch"} :
                            Watch(u)' = Watch(v)' => u = v
    BY DEF OneScanPerWatch, Process
  <2> DEFINE before == {u \in Threads : Process(u) = q /\ at[u] = "fetch"}
             after  == {u \in Threads : Process(u) = q /\ at'[u] = "fetch"}
  <2> SUFFICES /\ active'[q] = {Watch(u)' : u \in after}
               /\ \A u, v \in after : Watch(u)' = Watch(v)' => u = v
    OBVIOUS
  <2>1. CASE q = p
    <3>1. after = {} /\ active'[q] = {}
      BY <1>1, <1>3, <2>1 DEF TypeOK, gone
    <3> HIDE DEF after
    <3> QED
      BY <3>1
  <2>2. CASE q # p
    <3>1. /\ active[q] = {Watch(u) : u \in before}
          /\ \A u, v \in before : Watch(u) = Watch(v) => u = v
      BY DEF Core, OneScanPerWatch
    <3>2. \A u \in Threads : Process(u) = q => u \notin gone
      BY <1>1, <2>2 DEF gone
    <3>3. after = before /\ \A u \in before : Watch(u)' = Watch(u)
      BY <1>3, <1>5, <3>2, OthersAgree
    <3>4. active'[q] = active[q]
      BY <1>3, <2>2 DEF TypeOK
    <3> HIDE DEF before, after
    <3> QED
      BY <3>1, <3>3, <3>4
  <2> QED
    BY <2>1, <2>2
<1> QED
  BY <1>2, <1>4, <1>6, <1>7 DEF Core

-----------------------------------------------------------------------------
(* The occurrences. *)

\* A settled occurrence stays as it is, and one is completed only by a thread
\* that reports its scan.
LEMMA Settling ==
    ASSUME TypeOK, [Next]_vars, NEW o \in Occurrences
    PROVE  /\ status[o] \in Ended => status'[o] = status[o]
           /\ status'[o] = "completed" =>
                \/ status[o] = "completed"
                \/ \E t \in Threads : at[t] = "finish" /\ Target(t) = o /\ scan[t] = "completed"
<1> USE DEF store, Open, Ended
<1>1. status[o] \in {"absent", "claimed", "submitted", "completed", "failed"}
  BY DEF TypeOK
<1>2. CASE status' = status
  BY <1>2
<1>3. ASSUME NEW p \in Procs, Recover(p)
      PROVE  status'[o] = status[o] \/ (status[o] \in Open /\ status'[o] = "claimed")
  BY <1>3 DEF Recover, Recoverable
<1>4. ASSUME NEW p \in Procs, ClaimDue(p)
      PROVE  status'[o] = status[o] \/ (status[o] = "absent" /\ status'[o] = "claimed")
  <2>1. PICK new \in IF IsLeader(p) THEN NewOccurrences ELSE {{}} :
          status' = [q \in Occurrences |-> IF q \in new THEN "claimed" ELSE status[q]]
    BY <1>4 DEF ClaimDue
  <2>2. o \in new => status[o] = "absent"
    BY DEF NewOccurrences
  <2> QED
    BY <2>1, <2>2
<1>5. ASSUME NEW p \in Procs, Mark(p)
      PROVE  status'[o] = status[o] \/ (status[o] \in Open /\ status'[o] \in {"submitted", "failed"})
  <2>1. PICK q \in marking[p] :
          status' = [status EXCEPT ![q] = IF @ = "claimed" THEN "submitted" ELSE Finished(q, "failed")]
    BY <1>5 DEF Mark
  <2> QED
    BY <2>1 DEF Finished, TypeOK
<1>6. ASSUME NEW t \in Threads, FinishOccurrence(t)
      PROVE  \/ status'[o] = status[o]
             \/ status[o] \in Open /\ at[t] = "finish" /\ Target(t) = o /\ status'[o] = scan[t]
  BY <1>6 DEF FinishOccurrence, Finished
<1>7. ASSUME NEW t \in Threads, FinishRaises(t)
      PROVE  status'[o] = status[o] \/ (status[o] \in Open /\ status'[o] = "failed")
  BY <1>7 DEF FinishRaises, Finished, TypeOK
<1>8. ASSUME NEW p \in Procs, Lead(p) \/ SubmitOne(p) \/ TickFails(p) \/ Crash(p)
      PROVE  status' = status
  BY <1>8 DEF Lead, SubmitOne, TickFails, Crash
<1>9. ASSUME NEW t \in Threads,
             \/ Begin(t) \/ Skip(t) \/ ScanBegin(t) \/ FinishJob(t)
             \/ \E outcome \in Ended : ScanDone(t, outcome)
      PROVE  status' = status
  BY <1>9 DEF Begin, Skip, ScanBegin, FinishJob, ScanDone
<1>10. ASSUME \/ \E p \in Asked, w \in Watches : ManualScan(p, w)
              \/ \E j \in Jobs : Cancel(j)
              \/ \E w \in Watches : FallsDue(w) \/ Reschedule(w)
              \/ \E q \in Occurrences : GrowsStale(q)
              \/ LeaseExpires
              \/ UNCHANGED vars
       PROVE  status' = status
  BY <1>10 DEF ManualScan, Cancel, FallsDue, Reschedule, GrowsStale, LeaseExpires, vars
<1>11. CASE \E p \in Procs : Tick(p) \/ TickFails(p) \/ Crash(p)
  BY <1>2, <1>3, <1>4, <1>5, <1>8, <1>11 DEF Tick
<1>12. CASE \E t \in Threads : Step(t) \/ FinishRaises(t)
  BY <1>2, <1>6, <1>7, <1>9, <1>12 DEF Step
<1> QED
  BY <1>2, <1>10, <1>11, <1>12 DEF Next

\* Every step keeps the core of the invariant.
LEMMA CoreStep == TypeOK /\ Core /\ [Next]_vars => Core'
<1> SUFFICES ASSUME TypeOK, Core, [Next]_vars PROVE Core'
  OBVIOUS
<1> USE DEF store, tick
<1>1. ASSUME NEW p \in Procs, Tick(p) \/ TickFails(p) PROVE Core'
  <2>1. CASE Lead(p) \/ Recover(p) \/ ClaimDue(p) \/ Mark(p) \/ TickFails(p)
    <3>1. UNCHANGED <<runner, service, scanned>>
      BY <2>1 DEF Lead, Recover, ClaimDue, Mark, TickFails
    <3> QED
      BY <3>1, Unmoved
  <2>2. CASE SubmitOne(p)
    <3>1. PICK o \in claimed[p], j \in Jobs :
            /\ Submit(j, Scheduled(p)) /\ operation' = [operation EXCEPT ![j] = o]
            /\ UNCHANGED <<active, at, scan, scanned>>
      BY <2>2 DEF SubmitOne
    <3>2. o \in Occurrences /\ Scheduled(p) \in Threads
      BY SchedulerAssumption DEF TypeOK
    <3> QED
      BY <3>1, <3>2, SubmitStep
  <2> QED
    BY <1>1, <2>1, <2>2 DEF Tick
<1>2. ASSUME NEW p \in Asked, NEW w \in Watches, ManualScan(p, w) PROVE Core'
  <2>1. PICK j \in Jobs :
          /\ Submit(j, Requested(p)) /\ operation' = [operation EXCEPT ![j] = w]
          /\ UNCHANGED <<active, at, scan, scanned>>
    BY <1>2 DEF ManualScan
  <2>2. Requested(p) \in Threads
    BY SchedulerAssumption
  <2> QED
    BY <2>1, <2>2, SubmitStep
<1>3. ASSUME NEW t \in Threads, Step(t) \/ FinishRaises(t) PROVE Core'
  BY <1>3, TakeStep, ScanBeginStep, ScanDoneStep, FinishStep DEF Step
<1>4. ASSUME NEW w \in Watches, FallsDue(w) \/ Reschedule(w) PROVE Core'
  BY <1>4, Unmoved DEF FallsDue, Reschedule
<1>5. ASSUME NEW o \in Occurrences, GrowsStale(o) PROVE Core'
  BY <1>5, Unmoved DEF GrowsStale
<1>6. CASE LeaseExpires
  BY <1>6, Unmoved DEF LeaseExpires
<1>7. CASE UNCHANGED vars
  BY <1>7, Unmoved DEF vars
<1> QED
  BY <1>1, <1>2, <1>3, <1>4, <1>5, <1>6, <1>7, CancelStep, CrashStep, Zenon DEF Next

\* The invariant holds at the start.
LEMMA InvariantInit == Init => IInv
<1> SUFFICES ASSUME Init PROVE IInv
  OBVIOUS
<1>1. RunnerAgrees /\ ThreadsAgree /\ TargetsAgree /\ ScansAgree
  <2>1. \A t \in Threads : /\ at[t] = "idle" /\ running[t] = NoJob /\ DOMAIN queue[t] = {}
                           /\ scan[t] = "failed"
    BY DEF Init, RunnerInit
  <2>2. \A j \in Jobs : ~IsLive(j)
    BY <2>1, JobsAssumption DEF IsLive, IsQueued, IsTaken
  <2> QED
    BY <2>1, <2>2 DEF RunnerAgrees, TakenAgree, QueuesAgree, ThreadsAgree, TargetsAgree, ScansAgree
<1>2. OneScanPerWatch /\ CompletedWasScanned
  BY DEF Init, OneScanPerWatch, CompletedWasScanned
<1> QED
  BY <1>1, <1>2, TypeInit DEF IInv, Core

\* Every step keeps the invariant.
LEMMA InvariantStep == IInv /\ [Next]_vars => IInv'
<1> SUFFICES ASSUME IInv, [Next]_vars PROVE IInv'
  OBVIOUS
<1>1. TypeOK' /\ Core'
  BY TypeStep, CoreStep DEF IInv, Core
<1>2. scanned \subseteq scanned'
  <2>1. ASSUME NEW t \in Threads, NEW outcome \in Ended, ScanDone(t, outcome)
        PROVE  scanned \subseteq scanned'
    BY <2>1 DEF ScanDone
  <2>2. ASSUME NEW t \in Threads,
               \/ Begin(t) \/ Skip(t) \/ ScanBegin(t)
               \/ FinishOccurrence(t) \/ FinishJob(t) \/ FinishRaises(t)
        PROVE  scanned' = scanned
    BY <2>2 DEF Begin, Skip, ScanBegin, FinishOccurrence, FinishJob, FinishRaises
  <2>3. ASSUME NEW p \in Procs, Tick(p) \/ TickFails(p) \/ Crash(p) PROVE scanned' = scanned
    BY <2>3 DEF Tick, Lead, Recover, ClaimDue, SubmitOne, Mark, TickFails, Crash
  <2>4. ASSUME \/ \E p \in Asked, w \in Watches : ManualScan(p, w)
               \/ \E j \in Jobs : Cancel(j)
               \/ \E w \in Watches : FallsDue(w) \/ Reschedule(w)
               \/ \E o \in Occurrences : GrowsStale(o)
               \/ LeaseExpires
               \/ UNCHANGED vars
        PROVE  scanned' = scanned
    BY <2>4 DEF ManualScan, Cancel, FallsDue, Reschedule, GrowsStale, LeaseExpires, vars
  <2> QED
    BY <2>1, <2>2, <2>3, <2>4 DEF Next, Step
<1>3. ASSUME NEW o \in Occurrences, status'[o] = "completed" PROVE o \in scanned'
  <2>1. CASE status[o] = "completed"
    BY <1>2, <2>1 DEF IInv, CompletedWasScanned
  <2>2. ASSUME NEW t \in Threads, at[t] = "finish", Target(t) = o, scan[t] = "completed"
        PROVE  o \in scanned'
    <3>1. o \in Watches \cup scanned
      BY <2>2 DEF IInv, Core, ScansAgree
    <3> QED
      BY <1>2, <3>1, SchedulerAssumption
  <2> QED
    BY <1>3, <2>1, <2>2, Settling DEF IInv
<1> QED
  BY <1>1, <1>3 DEF IInv, CompletedWasScanned

\* Every state is one of the scheduler, its store and its runner.
THEOREM SchedulerTyped == Spec => []TypeOK
<1>1. IInv => TypeOK
  BY DEF IInv
<1> QED
  BY <1>1, InvariantInit, InvariantStep, PTL DEF Spec

\* Whichever of the jobs of an occurrence reports it complete, after whatever
\* crashes, recoveries and cancellations: a scan for it was committed
\* (finish_occurrence, DarkWebWatchService.scan).
THEOREM CompletedScanned == Spec => []CompletedWasScanned
<1>1. IInv => CompletedWasScanned
  BY DEF IInv
<1> QED
  BY <1>1, InvariantInit, InvariantStep, PTL DEF Spec

\* The set of active watches of a process holds exactly the watches its
\* threads are at, and no two threads are at one watch (scan).
THEOREM ScansAreExclusive == Spec => []OneScanPerWatch
<1>1. IInv => OneScanPerWatch
  BY DEF IInv, Core
<1> QED
  BY <1>1, InvariantInit, InvariantStep, PTL DEF Spec

\* No recovery, second job, late mark or late finish reopens or changes an
\* occurrence that has completed or failed.
THEOREM SettledStays == Spec => SettledIsFinal
<1>1. IInv /\ [Next]_vars => \A o \in Occurrences : status[o] \in Ended => status'[o] = status[o]
  BY Settling DEF IInv
<1> QED
  BY <1>1, InvariantInit, InvariantStep, PTL DEF Spec, SettledIsFinal
=============================================================================
