------------------------------ MODULE JobRunner ------------------------------
(***************************************************************************)
(* The job runner of the collector (integration/jobs.py): jobs in memory,  *)
(* and executors of one thread each with a queue in front of it.  With the *)
(* default of two workers there is one executor for interactive jobs and   *)
(* one for background jobs.  Each operator below is one critical section   *)
(* of the runner's lock; what a job does while it runs is the business of  *)
(* the modules that extend this one.                                       *)
(*                                                                         *)
(* Abstraction.  A job whose end nobody asks for any more is forgotten,    *)
(* and its identifier is used again: there are as many jobs as Jobs at a   *)
(* time (a bound).                                                         *)
(***************************************************************************)
EXTENDS Sequences, FiniteSets

CONSTANTS
    Jobs,       \* identifiers of jobs
    Threads,    \* executors
    NoJob

ASSUME JobsAssumption == NoJob \notin Jobs

VARIABLES
    state,      \* IntegrationJob.state
    queue,      \* the jobs submitted to an executor and not yet taken
    running     \* the job an executor's thread is at

runner == <<state, queue, running>>

Settled  == {"completed", "partial", "failed", "cancelled"}
JobState == {"absent", "queued", "running", "cancellation_requested"} \cup Settled

RunnerTypeOK ==
    /\ state \in [Jobs -> JobState]
    /\ queue \in [Threads -> Seq(Jobs)]
    /\ running \in [Threads -> Jobs \cup {NoJob}]

RunnerInit ==
    /\ state = [j \in Jobs |-> "absent"]
    /\ queue = [t \in Threads |-> <<>>]
    /\ running = [t \in Threads |-> NoJob]

IsQueued(j) == \E t \in Threads : \E n \in DOMAIN queue[t] : queue[t][n] = j
IsTaken(j)  == \E t \in Threads : running[t] = j

\* The identifier is free: nothing of an earlier job is left.
IsFree(j) == state[j] \in Settled \cup {"absent"} /\ ~IsQueued(j) /\ ~IsTaken(j)

\* submit
Submit(j, t) ==
    /\ IsFree(j)
    /\ state' = [state EXCEPT ![j] = "queued"]
    /\ queue' = [queue EXCEPT ![t] = Append(@, j)]
    /\ UNCHANGED running

\* cancel, under the lock.  A cancelled job stays in its executor's queue.
AfterCancel(s) ==
    CASE s = "queued"  -> "cancelled"
      [] s = "running" -> "cancellation_requested"
      [] OTHER         -> s

MarkCancelled(j) ==
    /\ state[j] \in {"queued", "running"}
    /\ state' = [state EXCEPT ![j] = AfterCancel(@)]
    /\ UNCHANGED <<queue, running>>

IsNext(j, t) == queue[t] # <<>> /\ Head(queue[t]) = j /\ running[t] = NoJob

\* _run up to the call of the operation.
Start(j, t) ==
    /\ IsNext(j, t) /\ state[j] # "cancelled"
    /\ state' = [state EXCEPT ![j] = "running"]
    /\ queue' = [queue EXCEPT ![t] = Tail(@)]
    /\ running' = [running EXCEPT ![t] = j]

\* _run of a job that was cancelled while it was queued.
Drop(j, t) ==
    /\ IsNext(j, t) /\ state[j] = "cancelled"
    /\ queue' = [queue EXCEPT ![t] = Tail(@)]
    /\ UNCHANGED <<state, running>>

\* Mutation: a requested cancellation is left for somebody else to settle.
End_KeepsRequest(j, t, status) ==
    /\ running[t] = j
    /\ state' = [state EXCEPT ![j] = IF @ = "cancellation_requested" THEN @ ELSE status]
    /\ running' = [running EXCEPT ![t] = NoJob]
    /\ UNCHANGED queue

\* _run after the operation, which returned a status or raised ("failed").
\* A cancellation that was requested in the meantime has the last word.
End(j, t, status) ==
    /\ running[t] = j
    /\ state' = [state EXCEPT ![j] = IF @ = "cancellation_requested" THEN "cancelled" ELSE status]
    /\ running' = [running EXCEPT ![t] = NoJob]
    /\ UNCHANGED queue

\* The process of some executors stops: its jobs are gone.
Lost(j, threads) ==
    \E t \in threads : running[t] = j \/ \E n \in DOMAIN queue[t] : queue[t][n] = j

Forget(threads) ==
    /\ state' = [j \in Jobs |-> IF Lost(j, threads) THEN "absent" ELSE state[j]]
    /\ queue' = [t \in Threads |-> IF t \in threads THEN <<>> ELSE queue[t]]
    /\ running' = [t \in Threads |-> IF t \in threads THEN NoJob ELSE running[t]]
=============================================================================
