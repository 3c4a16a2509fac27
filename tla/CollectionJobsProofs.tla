------------------------ MODULE CollectionJobsProofs -------------------------
(***************************************************************************)
(* Proofs about CollectionJobs, for any number of jobs, threads, sources   *)
(* and roots: its type invariant, that the lock of the all-enabled jobs is *)
(* held exactly while one job owns it, that a cancellation is never        *)
(* forgotten by a job that goes on, and that a job that completed was      *)
(* exported.                                                               *)
(***************************************************************************)
EXTENDS CollectionJobs, JobRunnerProofs

(***************************************************************************)
(* The inductive invariant.                                                *)
(***************************************************************************)

\* A thread that is busy runs a job, and a job that is taken is on one thread.
ThreadsAgree ==
    /\ \A t \in Threads : at[t] = "idle" <=> running[t] = NoJob
    /\ TakenAgree

\* Only a unified job that was cancelled in its queue has a callback left.
CallbacksAgree == \A j \in releasing : j \in unified /\ state[j] = "cancelled"

\* Where only a unified job gets, and where a thread is at a place.
PlacesAgree ==
    /\ \A t \in Threads : at[t] \in {"roots", "check", "release"} => running[t] \in unified
    /\ \A t \in Threads : at[t] \in {"wait", "work"} => here[t] \in Places

Agree == ThreadsAgree /\ QueuesAgree /\ CallbacksAgree /\ PlacesAgree

IInv == TypeOK /\ Agree /\ LockIsOwned

-----------------------------------------------------------------------------
(* Types. *)

\* The outcome of the sources of a job is an end of it.
LEMMA VerdictTyped == ASSUME NEW outcomes PROVE Verdict(outcomes) \in JobState
BY DEF Verdict, JobState, Settled

\* The collector starts with nothing submitted.
LEMMA TypeInit == Init => TypeOK
<1> SUFFICES ASSUME Init PROVE TypeOK
  OBVIOUS
<1>1. <<>> \in Seq(Jobs)
  OBVIOUS
<1>2. RunnerTypeOK
  BY <1>1 DEF Init, RunnerInit, RunnerTypeOK, JobState
<1> QED
  BY <1>2 DEF Init, TypeOK, Locus

\* Every step keeps the types.
LEMMA TypeStep == TypeOK /\ ThreadsAgree /\ [Next]_vars => TypeOK'
<1> SUFFICES ASSUME TypeOK, ThreadsAgree, [Next]_vars PROVE TypeOK'
  OBVIOUS
<1> USE DEF request, cancel, thread, history, runner
<1>1. CASE UNCHANGED vars
  BY <1>1 DEF vars, TypeOK, RunnerTypeOK
<1>2. ASSUME NEW j \in Jobs, NEW t \in Threads, StartAllEnabled(j, t) PROVE TypeOK'
  BY <1>2, SubmitTyped DEF StartAllEnabled, Fresh, TypeOK
<1>3. ASSUME NEW j \in Jobs, NEW places \in Requestable, StartOrdinary(j, places) PROVE TypeOK'
  <2>1. places \subseteq Places
    BY DEF Requestable, Places
  <2>2. RunnerTypeOK'
    BY <1>3, SubmitTyped, CollectionAssumption DEF StartOrdinary, TypeOK
  <2> QED
    BY <1>3, <2>1, <2>2 DEF StartOrdinary, Fresh, TypeOK
<1>4. ASSUME NEW j \in Jobs, Cancel(j) PROVE TypeOK'
  <2>1. RunnerTypeOK'
    BY <1>4 DEF Cancel, MarkCancelled, AfterCancel, TypeOK, RunnerTypeOK, JobState, Settled
  <2> QED
    BY <1>4, <2>1 DEF Cancel, PopCallback, TypeOK
<1>5. ASSUME NEW j \in Jobs, QueuedCancelCallback(j) PROVE TypeOK'
  BY <1>5 DEF QueuedCancelCallback, TypeOK, RunnerTypeOK
<1>6. ASSUME NEW t \in Threads, Step(t) PROVE TypeOK'
  <2> USE DEF Goto, Locus
  <2>1. CASE Begin(t)
    <3>1. PICK j \in Jobs : /\ Start(j, t) /\ Goto(t, "sources")
                            /\ todo' = [todo EXCEPT ![t] = IF j \in unified THEN Sources ELSE asked[j]]
                            /\ UNCHANGED <<request, cancel, here, seen, history>>
      BY <2>1 DEF Begin
    <3>2. RunnerTypeOK'
      BY <3>1, TakeTyped DEF TypeOK
    <3>3. Sources \subseteq Places /\ asked[j] \subseteq Places
      BY DEF Places, TypeOK
    <3> QED
      BY <3>1, <3>2, <3>3 DEF TypeOK
  <2>2. CASE Skip(t)
    BY <2>2, TakeTyped DEF Skip, TypeOK
  <2>3. CASE Stop(t) \/ Choose(t) \/ Enter(t)
    <3>1. CASE Stop(t)
      BY <3>1 DEF Stop, TypeOK, RunnerTypeOK
    <3>2. CASE Choose(t)
      BY <3>2 DEF Choose, TypeOK, RunnerTypeOK
    <3>3. CASE Enter(t)
      <4>1. begun' \subseteq Jobs /\ twice' \subseteq Jobs
        BY <3>3 DEF Enter, TypeOK
      <4> QED
        BY <3>3, <4>1 DEF Enter, TypeOK, RunnerTypeOK
    <3> QED
      BY <2>3, <3>1, <3>2, <3>3
  <2>4. CASE ListRoots(t) \/ LeaveRun(t) \/ LeaveRoots(t) \/ Check(t)
    BY <2>4 DEF ListRoots, LeaveRun, LeaveRoots, Check, TypeOK, RunnerTypeOK, Places
  <2>5. ASSUME NEW outcome \in {"completed", "failed"}, Work(t, outcome) PROVE TypeOK'
    <3>1. PICK locus \in Locus : at' = [at EXCEPT ![t] = locus]
      BY <2>5 DEF Work
    <3>2. PICK place \in Places \cup {NoPlace} : here' = [here EXCEPT ![t] = place]
      BY <2>5 DEF Work, TypeOK
    <3>3. seen' \in [Threads -> SUBSET Outcome]
      BY <2>5 DEF Work, Record, Outcome, TypeOK
    <3>4. at' \in [Threads -> Locus] /\ here' \in [Threads -> Places \cup {NoPlace}]
      BY <3>1, <3>2 DEF TypeOK
    <3>5. UNCHANGED <<runner, request, cancel, todo, history>>
      BY <2>5 DEF Work
    <3> QED
      BY <3>3, <3>4, <3>5 DEF TypeOK, RunnerTypeOK
  <2>6. CASE Break(t)
    BY <2>6 DEF Break, AfterError, Outcome, TypeOK, RunnerTypeOK
  <2>7. CASE Export(t) \/ ExportFails(t)
    <3>1. running[t] \in Jobs
      BY <2>7 DEF Export, ExportFails, ThreadsAgree, TakenAgree, TypeOK, RunnerTypeOK
    <3>2. at' \in [Threads -> Locus] /\ here' \in [Threads -> Places \cup {NoPlace}]
      BY <2>7 DEF Export, ExportFails, AfterExport, TypeOK
    <3>3. CASE Export(t)
      BY <3>1, <3>2, <3>3 DEF Export, TypeOK, RunnerTypeOK
    <3>4. CASE ExportFails(t)
      <4>1. seen' \in [Threads -> SUBSET Outcome]
        BY <3>4 DEF ExportFails, Outcome, TypeOK
      <4> QED
        BY <3>2, <3>4, <4>1 DEF ExportFails, TypeOK, RunnerTypeOK
    <3> QED
      BY <2>7, <3>3, <3>4
  <2>8. CASE Release(t)
    BY <2>8 DEF Release, TypeOK, RunnerTypeOK
  <2>9. CASE Finish(t)
    <3>1. running[t] \in Jobs
      BY <2>9 DEF Finish, ThreadsAgree, TakenAgree, TypeOK, RunnerTypeOK
    <3>2. RunnerTypeOK'
      BY <2>9, <3>1, EndTyped, VerdictTyped DEF Finish, TypeOK
    <3> QED
      BY <2>9, <3>2 DEF Finish, TypeOK
  <2> QED
    BY <1>6, <2>1, <2>2, <2>3, <2>4, <2>5, <2>6, <2>7, <2>8, <2>9 DEF Step
<1> QED
  BY <1>1, <1>2, <1>3, <1>4, <1>5, <1>6 DEF Next

-----------------------------------------------------------------------------
(* Steps inside an operation. *)

\* A thread moves on inside its operation: neither requests, cancellations nor
\* the runner are touched, and a unified job cannot reach its end this way.
LEMMA InnerStep ==
    ASSUME TypeOK, Agree, LockIsOwned, NEW t \in Threads, NEW locus \in Locus \ {"idle"},
           UNCHANGED <<runner, request, cancel>>,
           at[t] \notin {"idle", "end"}, at' = [at EXCEPT ![t] = locus],
           locus = "end" => running[t] \notin unified,
           locus \in {"roots", "check", "release"} => running[t] \in unified,
           NEW place, here' = [here EXCEPT ![t] = place],
           locus \in {"wait", "work"} => place \in Places
    PROVE  Agree' /\ LockIsOwned'
<1> USE DEF runner, request, cancel
<1>1. at'[t] = locus /\ here'[t] = place /\ \A u \in Threads \ {t} : at'[u] = at[u] /\ here'[u] = here[u]
  BY DEF TypeOK
<1>2. ThreadsAgree'
  BY <1>1 DEF Agree, ThreadsAgree, TakenAgree
<1>3. QueuesAgree' /\ CallbacksAgree'
  BY DEF Agree, QueuesAgree, CallbacksAgree
<1>4. PlacesAgree'
  BY <1>1 DEF Agree, PlacesAgree
<1>5. ASSUME NEW j \in unified PROVE InOperation(j)' <=> InOperation(j)
  <2>1. ASSUME NEW u \in Threads, running[u] = j
        PROVE  at'[u] \in Locus \ {"idle", "end"} <=> at[u] \in Locus \ {"idle", "end"}
    BY <1>1, <2>1 DEF TypeOK
  <2> QED
    BY <2>1 DEF InOperation
<1>6. \A j \in Jobs : OwnsLock(j)' <=> OwnsLock(j)
  BY <1>5 DEF OwnsLock
<1>7. LockIsOwned'
  BY <1>6 DEF LockIsOwned
<1> QED
  BY <1>2, <1>3, <1>4, <1>7 DEF Agree

-----------------------------------------------------------------------------
(* The lock, action by action. *)

\* A new job takes the place of one that owned nothing.
LEMMA SubmitStep ==
    ASSUME TypeOK, Agree, NEW j \in Jobs, NEW t \in Threads, Submit(j, t), j \notin releasing,
           UNCHANGED <<releasing, thread>>, unified' \in {unified \cup {j}, unified \ {j}}
    PROVE  /\ Agree' /\ ~OwnsLock(j) /\ (OwnsLock(j)' <=> j \in unified')
           /\ \A i \in Jobs \ {j} : OwnsLock(i)' <=> OwnsLock(i)
<1> USE DEF thread
<1>1. \A i \in Jobs : state'[i] = IF i = j THEN "queued" ELSE state[i]
  BY DEF Submit, TypeOK, RunnerTypeOK
<1>2. (\A u \in Threads : running[u] # j) /\ running' = running /\ state[j] # "queued"
  BY DEF Submit, IsFree, IsTaken, Settled
<1>3. ThreadsAgree'
  BY <1>1, <1>2 DEF Agree, ThreadsAgree, TakenAgree, TypeOK, RunnerTypeOK
<1>4. QueuesAgree'
  BY SubmitQueues DEF Agree, TypeOK
<1>5. CallbacksAgree'
  BY <1>1 DEF Agree, CallbacksAgree, TypeOK
<1>6. PlacesAgree'
  BY <1>2 DEF Agree, PlacesAgree
<1>7. \A i \in Jobs : InOperation(i)' <=> InOperation(i)
  BY <1>2 DEF InOperation
<1>8. ~InOperation(j)
  BY <1>2 DEF InOperation
<1> QED
  BY <1>1, <1>2, <1>3, <1>4, <1>5, <1>6, <1>7, <1>8 DEF Agree, OwnsLock

\* A cancellation: of a queued job, which leaves a callback to release the
\* lock, or a request that the running one will see.
LEMMA CancelStep ==
    ASSUME TypeOK, Agree, LockIsOwned, NEW j \in Jobs, Cancel(j)
    PROVE  Agree' /\ LockIsOwned'
<1> USE DEF request, thread
<1>1. state[j] \in {"queued", "running"} /\ UNCHANGED <<queue, running, lock, unified, thread>>
  BY DEF Cancel, MarkCancelled
<1>2. \A i \in Jobs : state'[i] = IF i # j THEN state[i]
                                 ELSE IF state[j] = "queued" THEN "cancelled" ELSE "cancellation_requested"
  BY <1>1 DEF Cancel, MarkCancelled, AfterCancel, TypeOK, RunnerTypeOK
<1>3. releasing' = IF j \in unified /\ state[j] = "queued" THEN releasing \cup {j} ELSE releasing
  BY DEF Cancel, PopCallback
<1>4. ThreadsAgree'
  BY <1>1, <1>2 DEF Agree, ThreadsAgree, TakenAgree, TypeOK, RunnerTypeOK
<1>5. QueuesAgree'
  <2>1. \A u \in Threads : \A n \in DOMAIN queue[u] : queue[u][n] \in Jobs
    BY DEF TypeOK, RunnerTypeOK
  <2> QED
    BY <1>1, <1>2, <2>1 DEF Agree, QueuesAgree
<1>6. CallbacksAgree'
  BY <1>1, <1>2, <1>3 DEF Agree, CallbacksAgree, TypeOK
<1>7. PlacesAgree'
  BY <1>1 DEF Agree, PlacesAgree
<1>8. \A i \in Jobs : InOperation(i)' <=> InOperation(i)
  BY <1>1 DEF InOperation
<1>9. \A i \in Jobs : OwnsLock(i)' <=> OwnsLock(i)
  <2>1. CASE state[j] = "queued"
    BY <1>1, <1>2, <1>3, <1>8, <2>1 DEF OwnsLock
  <2>2. CASE state[j] = "running"
    BY <1>1, <1>2, <1>3, <1>8, <2>2 DEF OwnsLock
  <2> QED
    BY <1>1, <2>1, <2>2
<1>10. LockIsOwned'
  BY <1>1, <1>9 DEF LockIsOwned
<1> QED
  BY <1>4, <1>5, <1>6, <1>7, <1>10 DEF Agree

\* The callback of a job that was cancelled in its queue gives its lock back.
LEMMA CallbackStep ==
    ASSUME TypeOK, Agree, LockIsOwned, NEW j \in Jobs, QueuedCancelCallback(j)
    PROVE  Agree' /\ LockIsOwned'
<1> USE DEF thread, runner
<1>1. j \in releasing /\ j \in unified /\ state[j] = "cancelled" /\ OwnsLock(j)
  BY DEF QueuedCancelCallback, Agree, CallbacksAgree, OwnsLock
<1>2. UNCHANGED <<runner, unified, thread>> /\ ~lock' /\ releasing' = releasing \ {j}
  BY DEF QueuedCancelCallback
<1>3. Agree'
  BY <1>2 DEF Agree, ThreadsAgree, TakenAgree, QueuesAgree, CallbacksAgree, PlacesAgree
<1>4. ~InOperation(j)
  BY <1>1 DEF InOperation, Agree, ThreadsAgree, TakenAgree, TypeOK, RunnerTypeOK
<1>5. \A i \in Jobs : ~OwnsLock(i)'
  BY <1>1, <1>2, <1>4 DEF LockIsOwned, OwnsLock, InOperation
<1> QED
  BY <1>2, <1>3, <1>5 DEF LockIsOwned

\* A thread takes the next job of its queue, or drops it when it was cancelled.
LEMMA TakeStep ==
    ASSUME TypeOK, Agree, LockIsOwned, NEW t \in Threads, Begin(t) \/ Skip(t)
    PROVE  Agree' /\ LockIsOwned'
<1> USE DEF request, cancel, thread
<1>1. PICK j \in Jobs : IsNext(j, t) /\ queue' = [queue EXCEPT ![t] = Tail(@)]
                        /\ \/ Start(j, t) /\ Begin(t) /\ at' = [at EXCEPT ![t] = "sources"]
                              /\ UNCHANGED <<request, cancel, here>>
                           \/ Drop(j, t) /\ UNCHANGED <<request, cancel, thread>>
  BY DEF Begin, Skip, Start, Drop, Goto
<1>2. j \in Jobs /\ running[t] = NoJob /\ at[t] = "idle" /\ state[j] \in {"queued", "cancelled"}
  <2>1. queue[t] \in Seq(Jobs) /\ queue[t] # <<>> /\ Head(queue[t]) = j
    BY <1>1 DEF IsNext, TypeOK, RunnerTypeOK
  <2>2. 1 \in DOMAIN queue[t] /\ queue[t][1] = j
    BY <2>1, TailAt, Zenon
  <2> QED
    BY <1>1, <2>2 DEF IsNext, Agree, ThreadsAgree, TakenAgree, QueuesAgree
<1>3. \A u \in Threads : running[u] # j
  BY <1>2, JobsAssumption DEF Agree, ThreadsAgree, TakenAgree
<1>4. CASE Drop(j, t) /\ UNCHANGED <<request, cancel, thread>>
  <2>1. UNCHANGED <<state, running, lock, unified, releasing, thread>>
    BY <1>4 DEF Drop
  <2>2. QueuesAgree'
    BY <1>1, <2>1, TakeQueues DEF Agree, TypeOK
  <2>3. Agree'
    BY <2>1, <2>2 DEF Agree, ThreadsAgree, TakenAgree, CallbacksAgree, PlacesAgree
  <2> QED
    BY <2>1, <2>3 DEF LockIsOwned, OwnsLock, InOperation
<1>5. CASE Start(j, t) /\ at' = [at EXCEPT ![t] = "sources"] /\ UNCHANGED <<request, cancel, here>>
  <2>1. state[j] = "queued" /\ UNCHANGED <<lock, unified, releasing, here>>
    BY <1>2, <1>5 DEF Start
  <2>2. \A i \in Jobs : state'[i] = IF i = j THEN "running" ELSE state[i]
    BY <1>5 DEF Start, TypeOK, RunnerTypeOK
  <2>3. running'[t] = j /\ at'[t] = "sources"
        /\ \A u \in Threads \ {t} : running'[u] = running[u] /\ at'[u] = at[u]
    BY <1>5 DEF Start, TypeOK, RunnerTypeOK
  <2>4. ThreadsAgree'
    <3>1. \A u \in Threads : at'[u] = "idle" <=> running'[u] = NoJob
      BY <2>3, JobsAssumption DEF Agree, ThreadsAgree, TakenAgree
    <3>2. \A u \in Threads : running'[u] # NoJob =>
            state'[running'[u]] \in {"running", "cancellation_requested"}
      BY <2>2, <2>3 DEF Agree, ThreadsAgree, TakenAgree, TypeOK, RunnerTypeOK
    <3>3. \A u, v \in Threads : running'[u] = running'[v] /\ running'[u] # NoJob => u = v
      BY <1>3, <2>3 DEF Agree, ThreadsAgree, TakenAgree
    <3> QED
      BY <3>1, <3>2, <3>3 DEF ThreadsAgree, TakenAgree
  <2>5. QueuesAgree'
    BY <1>1, <2>2, TakeQueues DEF Agree, TypeOK
  <2>6. CallbacksAgree' /\ PlacesAgree'
    BY <2>1, <2>2, <2>3 DEF Agree, CallbacksAgree, PlacesAgree, TypeOK
  <2>7. InOperation(j)' /\ ~InOperation(j)
    BY <1>3, <2>3 DEF InOperation, Locus
  <2>8. \A i \in Jobs \ {j} : InOperation(i)' <=> InOperation(i)
    BY <1>2, <2>3, JobsAssumption DEF InOperation
  <2>9. \A i \in Jobs : OwnsLock(i)' <=> OwnsLock(i)
    BY <2>1, <2>2, <2>7, <2>8 DEF OwnsLock
  <2> QED
    BY <2>1, <2>4, <2>5, <2>6, <2>9 DEF Agree, LockIsOwned
<1> QED
  BY <1>1, <1>4, <1>5

\* A unified job that is done gives the lock back.
LEMMA ReleaseStep ==
    ASSUME TypeOK, Agree, LockIsOwned, NEW t \in Threads, Release(t)
    PROVE  Agree' /\ LockIsOwned'
<1> USE DEF cancel, runner
<1>1. at[t] = "release" /\ ~lock' /\ UNCHANGED <<runner, unified, releasing, here>>
      /\ at'[t] = "end" /\ \A u \in Threads \ {t} : at'[u] = at[u]
  BY DEF Release, Goto, TypeOK
<1>2. running[t] \in unified /\ running[t] \in Jobs
  BY <1>1 DEF Agree, PlacesAgree, TypeOK
<1>3. OwnsLock(running[t])
  BY <1>1, <1>2 DEF OwnsLock, InOperation, Locus
<1>4. Agree'
  BY <1>1, <1>2 DEF Agree, ThreadsAgree, TakenAgree, QueuesAgree, CallbacksAgree, PlacesAgree
<1>5. state[running[t]] \in {"running", "cancellation_requested"}
  BY <1>2, JobsAssumption DEF Agree, ThreadsAgree, TakenAgree
<1>6. \A u \in Threads : running[u] = running[t] => u = t
  BY <1>2, JobsAssumption DEF Agree, ThreadsAgree, TakenAgree
<1>7. running[t] \notin releasing
  BY <1>5 DEF Agree, CallbacksAgree
<1>8. ~OwnsLock(running[t])'
  BY <1>1, <1>5, <1>6, <1>7 DEF OwnsLock, InOperation
<1>9. ASSUME NEW i \in Jobs, i # running[t] PROVE ~OwnsLock(i)'
  <2>1. ~OwnsLock(i)
    BY <1>2, <1>3, <1>9 DEF LockIsOwned
  <2>2. InOperation(i)' => InOperation(i)
    BY <1>1, <1>9 DEF InOperation
  <2> QED
    BY <1>1, <2>1, <2>2 DEF OwnsLock
<1> QED
  BY <1>1, <1>4, <1>8, <1>9 DEF LockIsOwned

\* A job that is done leaves its thread, and the lock was given back before.
LEMMA FinishStep ==
    ASSUME TypeOK, Agree, LockIsOwned, NEW t \in Threads, Finish(t)
    PROVE  Agree' /\ LockIsOwned'
<1> USE DEF request, cancel
<1>0. PICK j : j = running[t]
  OBVIOUS
<1>1. j \in Jobs /\ at[t] = "end" /\ state[j] \in {"running", "cancellation_requested"}
  BY <1>0 DEF Finish, Agree, ThreadsAgree, TakenAgree, TypeOK, RunnerTypeOK
<1>2. UNCHANGED <<queue, lock, unified, releasing, here>> /\ at'[t] = "idle" /\ running'[t] = NoJob
      /\ \A u \in Threads \ {t} : at'[u] = at[u] /\ running'[u] = running[u]
  BY DEF Finish, End, Goto, TypeOK, RunnerTypeOK
<1>3. \A i \in Jobs \ {j} : state'[i] = state[i]
  BY <1>0 DEF Finish, End, TypeOK, RunnerTypeOK
<1>4. state'[j] # "queued"
  BY <1>0, <1>1 DEF Finish, End, Verdict, TypeOK, RunnerTypeOK
<1>5. \A u \in Threads \ {t} : running[u] # j
  BY <1>0, <1>1, JobsAssumption DEF Agree, ThreadsAgree, TakenAgree
<1>6. j \notin releasing
  BY <1>1 DEF Agree, CallbacksAgree
<1>7. ThreadsAgree'
  <2>1. \A u \in Threads : at'[u] = "idle" <=> running'[u] = NoJob
    BY <1>2 DEF Agree, ThreadsAgree, TakenAgree
  <2>2. \A u \in Threads : running'[u] # NoJob =>
          state'[running'[u]] \in {"running", "cancellation_requested"}
    <3>1. \A u \in Threads : running'[u] # NoJob => u # t /\ running'[u] = running[u] /\ running[u] \in Jobs \ {j}
      BY <1>2, <1>5 DEF TypeOK, RunnerTypeOK
    <3> QED
      BY <1>3, <3>1 DEF Agree, ThreadsAgree, TakenAgree
  <2>3. \A u, v \in Threads : running'[u] = running'[v] /\ running'[u] # NoJob => u = v
    BY <1>2 DEF Agree, ThreadsAgree, TakenAgree
  <2> QED
    BY <2>1, <2>2, <2>3 DEF ThreadsAgree, TakenAgree
<1>8. QueuesAgree'
  <2>1. \A u \in Threads : \A n \in DOMAIN queue[u] : queue[u][n] \in Jobs \ {j}
    <3>1. ASSUME NEW u \in Threads, NEW n \in DOMAIN queue[u] PROVE queue[u][n] \in Jobs
      BY DEF TypeOK, RunnerTypeOK
    <3>2. ASSUME NEW u \in Threads, NEW n \in DOMAIN queue[u] PROVE queue[u][n] # j
      BY <1>1 DEF Agree, QueuesAgree
    <3> QED
      BY <3>1, <3>2
  <2> QED
    BY <1>2, <1>3, <2>1 DEF Agree, QueuesAgree
<1>9. CallbacksAgree' /\ PlacesAgree'
  BY <1>2, <1>3, <1>6 DEF Agree, CallbacksAgree, PlacesAgree, TypeOK
<1>10. ~OwnsLock(j) /\ ~OwnsLock(j)'
  BY <1>0, <1>1, <1>2, <1>4, <1>5, <1>6, JobsAssumption DEF OwnsLock, InOperation
<1>11. \A i \in Jobs \ {j} : InOperation(i)' <=> InOperation(i)
  BY <1>0, <1>1, <1>2, JobsAssumption DEF InOperation
<1>12. \A i \in Jobs : OwnsLock(i)' <=> OwnsLock(i)
  BY <1>2, <1>3, <1>10, <1>11 DEF OwnsLock
<1> QED
  BY <1>2, <1>7, <1>8, <1>9, <1>12 DEF Agree, LockIsOwned

\* The steps of an operation that InnerStep covers.
LEMMA OperationStep ==
    ASSUME TypeOK, Agree, LockIsOwned, NEW t \in Threads, Step(t)
    PROVE  Agree' /\ LockIsOwned'
<1>1. CASE Begin(t) \/ Skip(t)
  BY <1>1, TakeStep
<1>2. CASE Release(t)
  BY <1>2, ReleaseStep
<1>3. CASE Finish(t)
  BY <1>3, FinishStep
<1> USE DEF Goto, Locus
<1>4. here' = [here EXCEPT ![t] = here[t]] <=> here' = here
  BY DEF TypeOK
<1>5. CASE Stop(t) \/ ListRoots(t) \/ LeaveRoots(t)
  <2>1. PICK locus \in {"check", "roots"} : at' = [at EXCEPT ![t] = locus]
    BY <1>5 DEF Stop, ListRoots, LeaveRoots
  <2>2. at[t] \in {"sources", "roots"} /\ running[t] \in unified /\ UNCHANGED <<runner, request, cancel, here>>
    BY <1>5 DEF Stop, ListRoots, LeaveRoots, InLoop, MustStop, IsUnified, Agree, PlacesAgree
  <2> QED
    BY <1>4, <2>1, <2>2, InnerStep
<1>6. CASE Choose(t)
  <2>1. PICK p \in todo[t] : here' = [here EXCEPT ![t] = p]
    BY <1>6 DEF Choose
  <2>2. p \in Places /\ at[t] \in {"sources", "roots"} /\ at' = [at EXCEPT ![t] = "wait"]
        /\ UNCHANGED <<runner, request, cancel>>
    BY <1>6, <2>1 DEF Choose, InLoop, TypeOK
  <2> QED
    BY <2>1, <2>2, InnerStep
<1>7. CASE Enter(t)
  <2>1. here[t] \in Places /\ at[t] = "wait" /\ at' = [at EXCEPT ![t] = "work"]
        /\ UNCHANGED <<runner, request, cancel, here>>
    BY <1>7 DEF Enter, Agree, PlacesAgree
  <2> QED
    BY <1>4, <2>1, InnerStep
<1>8. ASSUME NEW outcome, Work(t, outcome) PROVE Agree' /\ LockIsOwned'
  <2>1. at[t] = "work" /\ here[t] \in Places /\ UNCHANGED <<runner, request, cancel>>
    BY <1>8 DEF Work, Agree, PlacesAgree
  <2>2. PICK place : here' = [here EXCEPT ![t] = place]
    BY <1>8 DEF Work
  <2>3. PICK locus \in {"sources", "roots", "end", "export"} :
          /\ at' = [at EXCEPT ![t] = locus]
          /\ locus = "roots" => ~IsManual(t) /\ here[t] \notin Sources
          /\ locus = "end" => IsManual(t)
    BY <1>8 DEF Work
  <2>4. /\ locus = "end" => running[t] \notin unified
        /\ locus = "roots" => running[t] \in unified
    BY <2>1, <2>3 DEF IsManual, IsUnified, Places
  <2> QED
    BY <2>1, <2>2, <2>3, <2>4, InnerStep
<1>9. CASE Break(t) \/ Export(t) \/ ExportFails(t)
  <2>1. at[t] \in {"work", "export"} /\ here' = [here EXCEPT ![t] = NoPlace]
        /\ UNCHANGED <<runner, request, cancel>>
    BY <1>9 DEF Break, Export, ExportFails
  <2>2. PICK locus \in {"release", "end"} :
          /\ at' = [at EXCEPT ![t] = locus]
          /\ locus = "end" => running[t] \notin unified
          /\ locus = "release" => running[t] \in unified
    BY <1>9 DEF Break, Export, ExportFails, AfterError, AfterExport, IsUnified
  <2>3. PICK place : here' = [here EXCEPT ![t] = place]
    BY <2>1
  <2> QED
    BY <2>1, <2>2, <2>3, InnerStep
<1>10. CASE LeaveRun(t)
  <2>1. PICK locus \in {"end", "export"} : at' = [at EXCEPT ![t] = locus]
    BY <1>10 DEF LeaveRun
  <2>2. at[t] = "sources" /\ running[t] \notin unified /\ UNCHANGED <<runner, request, cancel, here>>
    BY <1>10 DEF LeaveRun, IsUnified
  <2> QED
    BY <1>4, <2>1, <2>2, InnerStep
<1>11. CASE Check(t)
  <2>1. PICK locus \in {"release", "export"} : at' = [at EXCEPT ![t] = locus]
    BY <1>11 DEF Check
  <2>2. at[t] = "check" /\ running[t] \in unified /\ UNCHANGED <<runner, request, cancel, here>>
    BY <1>11 DEF Check, Agree, PlacesAgree
  <2> QED
    BY <1>4, <2>1, <2>2, InnerStep
<1> QED
  BY <1>1, <1>2, <1>3, <1>5, <1>6, <1>7, <1>8, <1>9, <1>10, <1>11 DEF Step

-----------------------------------------------------------------------------
(* The theorems. *)

\* Every step keeps the invariant.
LEMMA InvariantStep == IInv /\ [Next]_vars => IInv'
<1> SUFFICES ASSUME IInv, [Next]_vars PROVE IInv'
  OBVIOUS
<1> USE DEF IInv
<1>1. TypeOK'
  BY TypeStep DEF Agree
<1>2. ASSUME NEW j \in Jobs, NEW t \in Threads, StartAllEnabled(j, t) PROVE Agree' /\ LockIsOwned'
  <2>1. Submit(j, t) /\ j \notin releasing /\ UNCHANGED <<releasing, thread>>
        /\ ~lock /\ lock' /\ unified' = unified \cup {j}
    BY <1>2 DEF StartAllEnabled, Fresh
  <2>2. /\ Agree' /\ OwnsLock(j)'
        /\ \A i \in Jobs \ {j} : OwnsLock(i)' <=> OwnsLock(i)
    BY <2>1, SubmitStep
  <2> QED
    BY <2>1, <2>2 DEF LockIsOwned
<1>3. ASSUME NEW j \in Jobs, NEW places \in Requestable, StartOrdinary(j, places)
      PROVE  Agree' /\ LockIsOwned'
  <2>1. Submit(j, Interactive) /\ j \notin releasing /\ UNCHANGED <<releasing, thread>>
        /\ lock' = lock /\ unified' = unified \ {j}
    BY <1>3 DEF StartOrdinary, Fresh
  <2>2. /\ Agree' /\ ~OwnsLock(j)' /\ ~OwnsLock(j)
        /\ \A i \in Jobs \ {j} : OwnsLock(i)' <=> OwnsLock(i)
    BY <2>1, SubmitStep, CollectionAssumption
  <2> QED
    BY <2>1, <2>2 DEF LockIsOwned
<1>4. ASSUME NEW j \in Jobs, Cancel(j) \/ QueuedCancelCallback(j) PROVE Agree' /\ LockIsOwned'
  BY <1>4, CancelStep, CallbackStep
<1>5. ASSUME NEW t \in Threads, Step(t) PROVE Agree' /\ LockIsOwned'
  BY <1>5, OperationStep
<1>6. ASSUME UNCHANGED vars PROVE Agree' /\ LockIsOwned'
  BY <1>6 DEF vars, runner, request, cancel, thread, Agree, ThreadsAgree, TakenAgree, QueuesAgree,
              CallbacksAgree, PlacesAgree, LockIsOwned, OwnsLock, InOperation
<1>7. Agree' /\ LockIsOwned'
  BY <1>2, <1>3, <1>4, <1>5, <1>6, Zenon DEF Next
<1> QED
  BY <1>1, <1>7, Zenon DEF IInv

\* At the start the lock is free, and no job is anywhere.
LEMMA InvariantInit == Init => IInv
<1> SUFFICES ASSUME Init PROVE IInv
  OBVIOUS
<1>1. Agree
  BY DEF Init, RunnerInit, Agree, ThreadsAgree, TakenAgree, QueuesAgree, CallbacksAgree, PlacesAgree
<1>2. LockIsOwned
  BY DEF Init, LockIsOwned, OwnsLock
<1> QED
  BY <1>1, <1>2, TypeInit DEF IInv

\* Every state is one of the service and its runner (submit, cancel, _run).
THEOREM CollectionTyped == Spec => []TypeOK
<1>1. IInv => TypeOK
  BY DEF IInv
<1> QED
  BY <1>1, InvariantInit, InvariantStep, PTL DEF Spec

\* However requests, cancellations, callbacks and threads interleave, the
\* lock is held exactly while one unified job owns it (start_collection,
\* cancel, _run_unified).
THEOREM LockOwned == Spec => []LockIsOwned
<1>1. IInv => LockIsOwned
  BY DEF IInv
<1> QED
  BY <1>1, InvariantInit, InvariantStep, PTL DEF Spec

\* README.md, "a local lock prevents overlapping all-enabled jobs": two
\* unified jobs are never inside their operation at a time.
NoOverlap ==
    \A i, j \in unified : InOperation(i) /\ InOperation(j) => i = j

\* The lock has one owner, and a unified job in its operation owns it.
THEOREM UnifiedJobsDoNotOverlap == Spec => []NoOverlap
<1>1. IInv => NoOverlap
  BY DEF IInv, TypeOK, LockIsOwned, OwnsLock, NoOverlap
<1> QED
  BY <1>1, InvariantInit, InvariantStep, PTL DEF Spec
-----------------------------------------------------------------------------
(***************************************************************************)
(* Cancellations and exports.  The ledger of a job, its history variables, *)
(* agrees with where the job is; an identifier that is given to a new job  *)
(* starts with an empty one.                                               *)
(***************************************************************************)

\* A cancellation event outlives everything but the job, and marks its state.
EventsAgree ==
    /\ event \subseteq unified /\ early \subseteq event /\ begun \subseteq event
    /\ \A j \in event : state[j] \in {"cancelled", "cancellation_requested"}

\* Nothing is running but on a thread.
RunningIsTaken ==
    \A j \in Jobs : state[j] \in {"running", "cancellation_requested"} => IsTaken(j)

\* An export is the last thing a job does, and none of a job that was cancelled
\* before its last look.
ExportsAgree ==
    /\ \A j \in exported : state[j] # "queued"
    /\ \A t \in Threads : running[t] \in exported => at[t] \in {"release", "end"}
    /\ \A t \in Threads : running[t] \in early => at[t] # "export"
    /\ early \cap exported = {}

\* A job that began a place after its cancellation waits for no other.
BeginsAgree ==
    /\ \A t \in Threads : running[t] \in begun => at[t] # "wait"
    /\ twice = {}

Blemish == {"failed", "export_failed"}

\* A unified job that comes to its end exported, was cancelled, or will say so.
EndsAgree ==
    \A t \in Threads : IsUnified(t) /\ at[t] \in {"release", "end"} =>
        running[t] \in exported \/ running[t] \in event \/ seen[t] \cap Blemish # {}

Ledger == /\ EventsAgree /\ RunningIsTaken /\ ExportsAgree /\ BeginsAgree
          /\ EndsAgree /\ CompletedWasExported

\* A thread moves on inside its operation.
LEMMA InnerLedger ==
    ASSUME TypeOK, Agree, Ledger, NEW t \in Threads, NEW locus \in Locus \ {"idle"},
           UNCHANGED <<runner, request, cancel, early>>,
           at[t] \notin {"idle", "end"}, at' = [at EXCEPT ![t] = locus],
           NEW got, seen' = [seen EXCEPT ![t] = got],
           \/ exported' = exported
           \/ exported' = exported \cup {running[t]} /\ running[t] \notin early,
           running[t] \in exported' => locus \in {"release", "end"},
           running[t] \in early => locus # "export",
           begun' = begun \/ (begun' = begun \cup {running[t]} /\ running[t] \in event),
           twice' = {}, running[t] \in begun' => locus # "wait",
           IsUnified(t) /\ locus \in {"release", "end"} =>
              running[t] \in exported' \/ running[t] \in event \/ got \cap Blemish # {}
    PROVE  Ledger'
<1> USE DEF runner, request, cancel, Ledger
<1>1. at'[t] = locus /\ seen'[t] = got
      /\ \A u \in Threads \ {t} : at'[u] = at[u] /\ seen'[u] = seen[u]
  BY DEF TypeOK
<1>2. running[t] \in Jobs /\ state[running[t]] \in {"running", "cancellation_requested"}
      /\ \A u \in Threads \ {t} : running[u] # running[t]
  BY JobsAssumption DEF Agree, ThreadsAgree, TakenAgree, TypeOK, RunnerTypeOK
<1>3. EventsAgree' /\ RunningIsTaken'
  BY <1>2 DEF EventsAgree, RunningIsTaken, IsTaken
<1>4. ExportsAgree'
  <2>1. \A u \in Threads : running'[u] \in exported' => at'[u] \in {"release", "end"}
    BY <1>1, <1>2 DEF ExportsAgree
  <2> QED
    BY <1>1, <1>2, <2>1 DEF ExportsAgree
<1>5. BeginsAgree'
  BY <1>1, <1>2 DEF BeginsAgree
<1>6. EndsAgree'
  <2>1. ASSUME NEW u \in Threads, u # t, IsUnified(u)', at'[u] \in {"release", "end"}
        PROVE  running'[u] \in exported' \/ running'[u] \in event' \/ seen'[u] \cap Blemish # {}
    BY <1>1, <2>1 DEF EndsAgree, IsUnified
  <2>2. IsUnified(t)' /\ at'[t] \in {"release", "end"} =>
          running'[t] \in exported' \/ running'[t] \in event' \/ seen'[t] \cap Blemish # {}
    BY <1>1 DEF IsUnified
  <2> QED
    BY <2>1, <2>2 DEF EndsAgree
<1>7. CompletedWasExported'
  BY DEF CompletedWasExported
<1> QED
  BY <1>3, <1>4, <1>5, <1>6, <1>7

\* The steps of an operation that InnerLedger covers.
LEMMA OperationLedger ==
    ASSUME TypeOK, Agree, Ledger, NEW t \in Threads,
           \/ Stop(t) \/ Choose(t) \/ ListRoots(t) \/ Enter(t)
           \/ \E outcome \in {"completed", "failed"} : Work(t, outcome)
           \/ Break(t) \/ LeaveRun(t) \/ LeaveRoots(t) \/ Check(t)
           \/ Export(t) \/ ExportFails(t) \/ Release(t)
    PROVE  Ledger'
<1> USE DEF Goto, Locus
<1>1. /\ twice = {} /\ begun \subseteq event /\ event \subseteq unified
      /\ running[t] \in exported => at[t] \in {"release", "end"}
      /\ running[t] \in early => running[t] \in event /\ at[t] # "export"
      /\ running[t] \in begun => at[t] # "wait"
  BY DEF Ledger, BeginsAgree, EventsAgree, ExportsAgree
<1>2. seen' = seen => seen' = [seen EXCEPT ![t] = seen[t]]
  BY DEF TypeOK
<1>3. CASE Stop(t) \/ ListRoots(t) \/ LeaveRoots(t)
  <2>1. PICK locus \in {"check", "roots"} : at' = [at EXCEPT ![t] = locus]
    BY <1>3 DEF Stop, ListRoots, LeaveRoots
  <2>2. at[t] \in {"sources", "roots"} /\ UNCHANGED <<runner, request, cancel, seen, history>>
    BY <1>3 DEF Stop, ListRoots, LeaveRoots, InLoop
  <2> QED
    BY <1>1, <1>2, <2>1, <2>2, InnerLedger DEF history
<1>4. CASE Choose(t)
  <2>1. PICK locus \in {"wait"} : at' = [at EXCEPT ![t] = locus]
    BY <1>4 DEF Choose
  <2>2. at[t] \in {"sources", "roots"} /\ UNCHANGED <<runner, request, cancel, seen, history>>
    BY <1>4 DEF Choose, InLoop
  <2>3. running[t] \notin begun
    BY <1>1, <1>4 DEF Choose, MustStop, IsUnified
  <2> QED
    BY <1>1, <1>2, <2>1, <2>2, <2>3, InnerLedger DEF history
<1>5. CASE Enter(t)
  <2>1. PICK locus \in {"work"} : at' = [at EXCEPT ![t] = locus]
    BY <1>5 DEF Enter
  <2>2. at[t] = "wait" /\ UNCHANGED <<runner, request, cancel, seen, exported, early>>
    BY <1>5 DEF Enter
  <2>3. running[t] \notin begun
    BY <1>1, <2>2
  <2>4. twice' = {} /\ (begun' = begun \/ (begun' = begun \cup {running[t]} /\ running[t] \in event))
    BY <1>1, <1>5, <2>3 DEF Enter
  <2> QED
    BY <1>1, <1>2, <2>1, <2>2, <2>4, InnerLedger
<1>6. ASSUME NEW outcome \in {"completed", "failed"}, Work(t, outcome) PROVE Ledger'
  <2>1. at[t] = "work" /\ UNCHANGED <<runner, request, cancel, history>>
        /\ seen' = [seen EXCEPT ![t] = seen[t] \cup {outcome}]
    BY <1>6 DEF Work, Record
  <2>2. PICK locus \in {"sources", "roots", "end", "export"} :
          at' = [at EXCEPT ![t] = locus] /\ (locus \in {"end", "export"} => IsManual(t))
    BY <1>6 DEF Work
  <2>3. locus \in {"end", "export"} => running[t] \notin unified
    BY <2>2 DEF IsManual, IsUnified
  <2> QED
    BY <1>1, <2>1, <2>2, <2>3, InnerLedger DEF history, IsUnified
<1>7. CASE Break(t)
  <2>1. PICK locus \in {"release", "end"} : at' = [at EXCEPT ![t] = locus]
    BY <1>7 DEF Break, AfterError
  <2>2. at[t] = "work" /\ UNCHANGED <<runner, request, cancel, history>>
        /\ seen' = [seen EXCEPT ![t] = {"failed"}]
    BY <1>7 DEF Break
  <2> QED
    BY <1>1, <2>1, <2>2, InnerLedger DEF history, Blemish
<1>8. CASE LeaveRun(t)
  <2>1. PICK locus \in {"export", "end"} : at' = [at EXCEPT ![t] = locus]
    BY <1>8 DEF LeaveRun
  <2>2. at[t] = "sources" /\ ~IsUnified(t) /\ UNCHANGED <<runner, request, cancel, seen, history>>
    BY <1>8 DEF LeaveRun
  <2> QED
    BY <1>1, <1>2, <2>1, <2>2, InnerLedger DEF history, IsUnified
<1>9. CASE Check(t)
  <2>1. PICK locus \in {"release", "export"} :
          /\ at' = [at EXCEPT ![t] = locus]
          /\ locus = "release" <=> running[t] \in event
    BY <1>9 DEF Check, IsCancelledAtExport
  <2>2. at[t] = "check" /\ UNCHANGED <<runner, request, cancel, seen, history>>
    BY <1>9 DEF Check
  <2> QED
    BY <1>1, <1>2, <2>1, <2>2, InnerLedger DEF history
<1>10. CASE Export(t)
  <2>1. PICK locus \in {"release", "end"} : at' = [at EXCEPT ![t] = locus]
    BY <1>10 DEF Export, AfterExport
  <2>2. at[t] = "export" /\ UNCHANGED <<runner, request, cancel, seen, early, begun, twice>>
        /\ exported' = exported \cup {running[t]}
    BY <1>10 DEF Export
  <2> QED
    BY <1>1, <1>2, <2>1, <2>2, InnerLedger
<1>11. CASE ExportFails(t)
  <2>1. PICK locus \in {"release", "end"} : at' = [at EXCEPT ![t] = locus]
    BY <1>11 DEF ExportFails, AfterExport
  <2>2. PICK got : /\ seen' = [seen EXCEPT ![t] = got]
                   /\ IsUnified(t) => got = seen[t] \cup {"export_failed"}
    BY <1>11 DEF ExportFails, NotesExport
  <2>3. at[t] = "export" /\ UNCHANGED <<runner, request, cancel, history>>
    BY <1>11 DEF ExportFails
  <2> QED
    BY <1>1, <2>1, <2>2, <2>3, InnerLedger DEF history, Blemish
<1>12. CASE Release(t)
  <2>1. at' = [at EXCEPT ![t] = "end"] /\ at[t] = "release" /\ UNCHANGED <<unified, asked, event, releasing>>
        /\ UNCHANGED <<runner, seen, history>>
    BY <1>12 DEF Release, cancel
  <2>2. at'[t] = "end" /\ \A u \in Threads \ {t} : at'[u] = at[u]
    BY <2>1 DEF TypeOK
  <2>3. EventsAgree' /\ RunningIsTaken' /\ CompletedWasExported'
    BY <2>1 DEF Ledger, EventsAgree, RunningIsTaken, IsTaken, CompletedWasExported, runner, history
  <2>4. ExportsAgree' /\ BeginsAgree'
    BY <2>1, <2>2 DEF Ledger, ExportsAgree, BeginsAgree, runner, history
  <2>5. EndsAgree'
    BY <2>1, <2>2 DEF Ledger, EndsAgree, IsUnified, runner, history
  <2> QED
    BY <2>3, <2>4, <2>5 DEF Ledger
<1> QED
  BY <1>3, <1>4, <1>5, <1>6, <1>7, <1>8, <1>9, <1>10, <1>11, <1>12

\* A job that is submitted has no history, and was not on a thread.
LEMMA SubmitLedger ==
    ASSUME TypeOK, Agree, Ledger, NEW j \in Jobs, NEW t \in Threads, Submit(j, t), Fresh(j),
           unified' \in {unified \cup {j}, unified \ {j}}
    PROVE  Ledger'
<1>1. \A i \in Jobs : state'[i] = IF i = j THEN "queued" ELSE state[i]
  BY DEF Submit, TypeOK, RunnerTypeOK
<1>2. running' = running /\ (\A u \in Threads : running[u] # j) /\ UNCHANGED <<at, seen>>
  BY DEF Submit, IsFree, IsTaken, Fresh, thread
<1>3. /\ event' = event \ {j} /\ exported' = exported \ {j} /\ early' = early \ {j}
      /\ begun' = begun \ {j} /\ twice' = twice \ {j}
  BY DEF Fresh
<1>4. EventsAgree'
  BY <1>1, <1>3 DEF Ledger, EventsAgree, TypeOK
<1>5. RunningIsTaken'
  BY <1>1, <1>2 DEF Ledger, RunningIsTaken, IsTaken
<1>6. ExportsAgree'
  BY <1>1, <1>2, <1>3 DEF Ledger, ExportsAgree, TypeOK
<1>7. BeginsAgree'
  BY <1>2, <1>3 DEF Ledger, BeginsAgree
<1>8. EndsAgree'
  BY <1>2, <1>3 DEF Ledger, EndsAgree, IsUnified
<1>9. CompletedWasExported'
  BY <1>1, <1>3 DEF Ledger, CompletedWasExported, TypeOK
<1> QED
  BY <1>4, <1>5, <1>6, <1>7, <1>8, <1>9 DEF Ledger

\* A cancellation that is early meets a job without an export.
LEMMA CancelLedger ==
    ASSUME TypeOK, Agree, Ledger, NEW j \in Jobs, Cancel(j)
    PROVE  Ledger'
<1> USE DEF thread, request
<1>1. /\ state[j] \in {"queued", "running"}
      /\ UNCHANGED <<running, unified, at, seen, exported, begun, twice>>
  BY DEF Cancel, MarkCancelled
<1>2. \A i \in Jobs : state'[i] = IF i # j THEN state[i]
                                 ELSE IF state[j] = "queued" THEN "cancelled" ELSE "cancellation_requested"
  BY <1>1 DEF Cancel, MarkCancelled, AfterCancel, TypeOK, RunnerTypeOK
<1>3. /\ event' = IF j \in unified THEN event \cup {j} ELSE event
      /\ early' = IF j \in unified /\ ~PastCheck(j) THEN early \cup {j} ELSE early
  BY DEF Cancel
<1>4. ~PastCheck(j) => j \notin exported /\ \A t \in Threads : running[t] = j => at[t] # "export"
  <2> SUFFICES ASSUME ~PastCheck(j)
               PROVE  j \notin exported /\ \A t \in Threads : running[t] = j => at[t] # "export"
    OBVIOUS
  <2>1. \A t \in Threads : running[t] = j => at[t] \notin {"export", "release", "end"}
    BY DEF PastCheck
  <2>2. j \in exported => state[j] = "running"
    BY <1>1 DEF Ledger, ExportsAgree
  <2>3. state[j] = "running" => \E t \in Threads : running[t] = j
    BY DEF Ledger, RunningIsTaken, IsTaken
  <2> QED
    BY <2>1, <2>2, <2>3 DEF Ledger, ExportsAgree
<1>5. EventsAgree'
  BY <1>1, <1>2, <1>3 DEF Ledger, EventsAgree, TypeOK
<1>6. RunningIsTaken'
  BY <1>1, <1>2 DEF Ledger, RunningIsTaken, IsTaken
<1>7. ExportsAgree'
  BY <1>1, <1>2, <1>3, <1>4 DEF Ledger, ExportsAgree, TypeOK
<1>8. BeginsAgree' /\ EndsAgree'
  BY <1>1, <1>3 DEF Ledger, BeginsAgree, EndsAgree, IsUnified
<1>9. CompletedWasExported'
  BY <1>1, <1>2 DEF Ledger, CompletedWasExported, TypeOK
<1> QED
  BY <1>5, <1>6, <1>7, <1>8, <1>9 DEF Ledger

\* A job is dropped, or begins: it was queued, so nothing of it was exported.
LEMMA BeginLedger ==
    ASSUME TypeOK, Agree, Ledger, NEW t \in Threads, Begin(t) \/ Skip(t)
    PROVE  Ledger'
<1> USE DEF request, cancel, thread, history
<1>1. CASE Skip(t)
  <2>1. UNCHANGED <<state, running, unified, event, at, seen, exported, early, begun, twice>>
    BY <1>1 DEF Skip, Drop
  <2> QED
    BY <2>1 DEF Ledger, EventsAgree, RunningIsTaken, IsTaken, ExportsAgree, BeginsAgree, EndsAgree,
                CompletedWasExported, IsUnified
<1>2. CASE Begin(t)
  <2>1. PICK j \in Jobs : Start(j, t) /\ at' = [at EXCEPT ![t] = "sources"]
    BY <1>2 DEF Begin, Goto
  <2>2. UNCHANGED <<unified, event, seen, exported, early, begun, twice>>
    BY <1>2 DEF Begin
  <2>3. state[j] = "queued" /\ running[t] = NoJob
    <3>1. queue[t] \in Seq(Jobs) /\ queue[t] # <<>> /\ Head(queue[t]) = j
      BY <2>1 DEF Start, IsNext, TypeOK, RunnerTypeOK
    <3>2. 1 \in DOMAIN queue[t] /\ queue[t][1] = j
      BY <3>1, TailAt, Zenon
    <3> QED
      BY <2>1, <3>2 DEF Start, IsNext, Agree, QueuesAgree
  <2>4. \A i \in Jobs : state'[i] = IF i = j THEN "running" ELSE state[i]
    BY <2>1 DEF Start, TypeOK, RunnerTypeOK
  <2>5. running'[t] = j /\ at'[t] = "sources"
        /\ \A u \in Threads \ {t} : running'[u] = running[u] /\ at'[u] = at[u]
    BY <2>1 DEF Start, TypeOK, RunnerTypeOK
  <2>6. j \notin event /\ j \notin exported
    BY <2>3 DEF Ledger, EventsAgree, ExportsAgree
  <2>7. EventsAgree' /\ CompletedWasExported'
    BY <2>2, <2>4, <2>6 DEF Ledger, EventsAgree, CompletedWasExported, TypeOK
  <2>8. RunningIsTaken'
    BY <2>3, <2>4, <2>5, JobsAssumption DEF Ledger, RunningIsTaken, IsTaken
  <2>9. ExportsAgree'
    BY <2>2, <2>4, <2>5, <2>6 DEF Ledger, ExportsAgree, TypeOK
  <2>10. BeginsAgree' /\ EndsAgree'
    BY <2>2, <2>5 DEF Ledger, BeginsAgree, EndsAgree, IsUnified
  <2> QED
    BY <2>7, <2>8, <2>9, <2>10 DEF Ledger
<1> QED
  BY <1>1, <1>2

\* A unified job that ends "completed" was not cancelled, and nothing failed.
LEMMA FinishLedger ==
    ASSUME TypeOK, Agree, Ledger, NEW t \in Threads, Finish(t)
    PROVE  Ledger'
<1> USE DEF request, cancel, history
<1>0. PICK j : j = running[t]
  OBVIOUS
<1>1. j \in Jobs /\ at[t] = "end" /\ state[j] \in {"running", "cancellation_requested"}
  BY <1>0 DEF Finish, Agree, ThreadsAgree, TakenAgree, TypeOK, RunnerTypeOK
<1>2. UNCHANGED <<unified, event, exported, early, begun, twice>>
  BY DEF Finish
<1>3. /\ at'[t] = "idle" /\ running'[t] = NoJob
      /\ \A u \in Threads \ {t} : at'[u] = at[u] /\ running'[u] = running[u] /\ seen'[u] = seen[u]
  BY DEF Finish, End, Goto, TypeOK, RunnerTypeOK
<1>4. /\ \A i \in Jobs \ {j} : state'[i] = state[i]
      /\ state'[j] = IF state[j] = "cancellation_requested" THEN "cancelled" ELSE Verdict(seen[t])
  BY <1>0, <1>1 DEF Finish, End, TypeOK, RunnerTypeOK
<1>5. \A u \in Threads \ {t} : running[u] # j
  BY <1>0, <1>1, JobsAssumption DEF Agree, ThreadsAgree, TakenAgree
<1>6. state'[j] \in Settled
  BY <1>4 DEF Verdict, Settled
<1>7. EventsAgree'
  <2>1. j \in event => state'[j] = "cancelled"
    BY <1>1, <1>4 DEF Ledger, EventsAgree
  <2> QED
    BY <1>2, <1>4, <2>1 DEF Ledger, EventsAgree, TypeOK
<1>8. RunningIsTaken'
  <2>1. ASSUME NEW i \in Jobs, state'[i] \in {"running", "cancellation_requested"} PROVE IsTaken(i)'
    <3>1. i # j /\ state'[i] = state[i]
      BY <1>4, <1>6, <2>1 DEF Settled
    <3>2. PICK u \in Threads : running[u] = i
      BY <2>1, <3>1 DEF Ledger, RunningIsTaken, IsTaken
    <3> QED
      BY <1>0, <1>3, <3>1, <3>2 DEF IsTaken
  <2> QED
    BY <2>1 DEF RunningIsTaken
<1>9. ExportsAgree'
  BY <1>2, <1>3, <1>4, <1>6, JobsAssumption DEF Ledger, ExportsAgree, TypeOK, Settled
<1>10. BeginsAgree' /\ EndsAgree'
  BY <1>2, <1>3 DEF Ledger, BeginsAgree, EndsAgree, IsUnified
<1>11. CompletedWasExported'
  <2>1. ASSUME j \in unified, state'[j] = "completed" PROVE j \in exported
    <3>1. state[j] # "cancellation_requested" /\ Verdict(seen[t]) = "completed"
      BY <1>4, <2>1
    <3>2. j \notin event
      BY <1>1, <3>1 DEF Ledger, EventsAgree
    <3>3. seen[t] \cap Blemish = {}
      BY <3>1 DEF Verdict, Blemish
    <3> QED
      BY <1>0, <1>1, <2>1, <3>2, <3>3 DEF Ledger, EndsAgree, IsUnified
  <2> QED
    BY <1>2, <1>4, <2>1 DEF Ledger, CompletedWasExported, TypeOK
<1> QED
  BY <1>7, <1>8, <1>9, <1>10, <1>11 DEF Ledger

\* Every step keeps the account of cancellations and exports.
LEMMA LedgerStep == TypeOK /\ Agree /\ Ledger /\ [Next]_vars => Ledger'
<1> SUFFICES ASSUME TypeOK, Agree, Ledger, [Next]_vars PROVE Ledger'
  OBVIOUS
<1>1. ASSUME NEW j \in Jobs, NEW t \in Threads, StartAllEnabled(j, t) PROVE Ledger'
  BY <1>1, SubmitLedger DEF StartAllEnabled
<1>2. ASSUME NEW j \in Jobs, NEW places \in Requestable, StartOrdinary(j, places) PROVE Ledger'
  BY <1>2, SubmitLedger, CollectionAssumption DEF StartOrdinary
<1>3. ASSUME NEW j \in Jobs, Cancel(j) PROVE Ledger'
  BY <1>3, CancelLedger
<1>4. ASSUME NEW j \in Jobs, QueuedCancelCallback(j) PROVE Ledger'
  BY <1>4 DEF QueuedCancelCallback, runner, thread, history, Ledger, EventsAgree, RunningIsTaken, IsTaken,
              ExportsAgree, BeginsAgree, EndsAgree, CompletedWasExported, IsUnified
<1>5. ASSUME NEW t \in Threads, Step(t) PROVE Ledger'
  BY <1>5, BeginLedger, OperationLedger, FinishLedger, Zenon DEF Step
<1>6. CASE UNCHANGED vars
  BY <1>6 DEF vars, runner, request, cancel, thread, history, Ledger, EventsAgree, RunningIsTaken, IsTaken,
              ExportsAgree, BeginsAgree, EndsAgree, CompletedWasExported, IsUnified
<1> QED
  BY <1>1, <1>2, <1>3, <1>4, <1>5, <1>6, Zenon DEF Next

\* At the start there is nothing to account for.
LEMMA LedgerInit == Init => Ledger
BY JobsAssumption
   DEF Init, RunnerInit, Ledger, EventsAgree, RunningIsTaken, ExportsAgree, BeginsAgree, EndsAgree,
       CompletedWasExported, IsUnified

\* A cancellation that reaches a unified job before its last look leaves no
\* export, no other outcome, and at most the place it was waiting for.
THEOREM CancellationKept == Spec => []CancellationIsKept
<1>1. Ledger => CancellationIsKept
  BY DEF Ledger, EventsAgree, ExportsAgree, BeginsAgree, CancellationIsKept
<1>2. IInv => TypeOK /\ Agree
  BY DEF IInv
<1> QED
  BY <1>1, <1>2, InvariantInit, InvariantStep, LedgerInit, LedgerStep, PTL DEF Spec

\* A unified job reports completed only with its export in place.
THEOREM CompletedExported == Spec => []CompletedWasExported
<1>1. Ledger => CompletedWasExported
  BY DEF Ledger
<1>2. IInv => TypeOK /\ Agree
  BY DEF IInv
<1> QED
  BY <1>1, <1>2, InvariantInit, InvariantStep, LedgerInit, LedgerStep, PTL DEF Spec
=============================================================================
