--------------------------- MODULE JobRunnerProofs ---------------------------
(***************************************************************************)
(* Lemmas about the job runner, for the modules whose jobs it runs: each   *)
(* of its critical sections keeps a job on one thread or in one queue, in  *)
(* a state that says where it is.                                          *)
(***************************************************************************)
EXTENDS JobRunner, Naturals, TLAPS

\* A job is queued once at most, and waits or was cancelled while it waited.
QueuesAgree ==
    /\ \A t \in Threads : \A n \in DOMAIN queue[t] :
            state[queue[t][n]] \in {"queued", "cancelled"}
    /\ \A t, u \in Threads : \A m \in DOMAIN queue[t] : \A n \in DOMAIN queue[u] :
            queue[t][m] = queue[u][n] => t = u /\ m = n

\* A job that is taken runs, on one thread.
TakenAgree ==
    /\ \A t \in Threads : running[t] # NoJob =>
            state[running[t]] \in {"running", "cancellation_requested"}
    /\ \A t, u \in Threads : running[t] = running[u] /\ running[t] # NoJob => t = u

RunnerAgrees == TakenAgree /\ QueuesAgree

\* The runner has the job still.
IsLive(j) == IsQueued(j) \/ IsTaken(j)

-----------------------------------------------------------------------------
(* Types. *)

\* submit, the taking of a job, its end, a cancellation and a crash of its
\* process each leave a runner behind.
LEMMA SubmitTyped ==
    ASSUME RunnerTypeOK, NEW j \in Jobs, NEW t \in Threads, Submit(j, t)
    PROVE  RunnerTypeOK'
BY DEF RunnerTypeOK, Submit, JobState

\* Start and Drop take the head of a queue.
LEMMA TakeTyped ==
    ASSUME RunnerTypeOK, NEW j \in Jobs, NEW t \in Threads, Start(j, t) \/ Drop(j, t)
    PROVE  RunnerTypeOK'
<1>1. queue[t] \in Seq(Jobs) /\ queue[t] # <<>>
  BY DEF RunnerTypeOK, Start, Drop, IsNext
<1>2. Tail(queue[t]) \in Seq(Jobs)
  BY <1>1
<1> QED
  BY <1>2 DEF RunnerTypeOK, Start, Drop, JobState

\* The end of a job settles it.
LEMMA EndTyped ==
    ASSUME RunnerTypeOK, NEW t \in Threads, NEW status \in JobState, End(running[t], t, status),
           running[t] \in Jobs
    PROVE  RunnerTypeOK'
BY DEF RunnerTypeOK, End, JobState, Settled

\* A cancellation changes a state.
LEMMA MarkTyped ==
    ASSUME RunnerTypeOK, NEW j \in Jobs, MarkCancelled(j)
    PROVE  RunnerTypeOK'
BY DEF RunnerTypeOK, MarkCancelled, AfterCancel, JobState, Settled

\* A crash forgets the jobs of some threads.
LEMMA ForgetTyped ==
    ASSUME RunnerTypeOK, NEW threads, Forget(threads)
    PROVE  RunnerTypeOK'
<1>1. <<>> \in Seq(Jobs)
  OBVIOUS
<1> QED
  BY <1>1 DEF RunnerTypeOK, Forget, JobState

-----------------------------------------------------------------------------
(* Queues. *)

\* The elements of a longer queue.
LEMMA AppendAt ==
    ASSUME NEW S, NEW q \in Seq(S), NEW e \in S, NEW n \in DOMAIN Append(q, e)
    PROVE  \/ n \in DOMAIN q /\ Append(q, e)[n] = q[n]
           \/ n = Len(q) + 1 /\ n \notin DOMAIN q /\ Append(q, e)[n] = e
OBVIOUS

\* The elements of a shorter queue.
LEMMA TailAt ==
    ASSUME NEW S, NEW q \in Seq(S), q # <<>>
    PROVE  /\ 1 \in DOMAIN q /\ Head(q) = q[1]
           /\ \A n \in DOMAIN Tail(q) : n \in Nat \ {0} /\ n + 1 \in DOMAIN q /\ Tail(q)[n] = q[n + 1]
OBVIOUS

\* A job that is queued was in no queue.
LEMMA SubmitQueues ==
    ASSUME RunnerTypeOK, QueuesAgree, NEW j \in Jobs, NEW t \in Threads, Submit(j, t)
    PROVE  QueuesAgree'
<1>1. queue[t] \in Seq(Jobs) /\ queue'[t] = Append(queue[t], j)
      /\ \A u \in Threads \ {t} : queue'[u] = queue[u]
  BY DEF RunnerTypeOK, Submit
<1>2. \A u \in Threads : \A n \in DOMAIN queue[u] : queue[u][n] # j
  BY DEF Submit, IsFree, IsQueued
<1>3. ASSUME NEW u \in Threads, NEW n \in DOMAIN queue'[u]
      PROVE  \/ n \in DOMAIN queue[u] /\ queue'[u][n] = queue[u][n] /\ queue'[u][n] # j
             \/ u = t /\ n = Len(queue[t]) + 1 /\ queue'[u][n] = j
  BY <1>1, <1>2, AppendAt
<1>4. \A i \in Jobs : state'[i] = IF i = j THEN "queued" ELSE state[i]
  BY DEF Submit, RunnerTypeOK
<1>5. \A u \in Threads : \A n \in DOMAIN queue[u] : queue[u][n] \in Jobs
  BY DEF RunnerTypeOK
<1>6. \A u \in Threads : \A n \in DOMAIN queue'[u] : state'[queue'[u][n]] \in {"queued", "cancelled"}
  BY <1>3, <1>4, <1>5 DEF QueuesAgree
<1>7. \A u, v \in Threads : \A m \in DOMAIN queue'[u] : \A n \in DOMAIN queue'[v] :
            queue'[u][m] = queue'[v][n] => u = v /\ m = n
  BY <1>3 DEF QueuesAgree
<1> QED
  BY <1>6, <1>7 DEF QueuesAgree

\* A job that is taken is in no queue any more.
LEMMA TakeQueues ==
    ASSUME RunnerTypeOK, QueuesAgree, NEW j \in Jobs, NEW t \in Threads,
           IsNext(j, t), queue' = [queue EXCEPT ![t] = Tail(@)],
           \A i \in Jobs \ {j} : state'[i] = state[i]
    PROVE  QueuesAgree'
<1>1. queue[t] \in Seq(Jobs) /\ queue[t] # <<>> /\ Head(queue[t]) = j /\ queue'[t] = Tail(queue[t])
      /\ \A u \in Threads \ {t} : queue'[u] = queue[u]
  BY DEF RunnerTypeOK, IsNext
<1>2. 1 \in DOMAIN queue[t] /\ queue[t][1] = j
  BY <1>1, TailAt
<1>3. \A n \in DOMAIN queue'[t] :
        n \in Nat \ {0} /\ n + 1 \in DOMAIN queue[t] /\ queue'[t][n] = queue[t][n + 1]
  <2>1. \A n \in DOMAIN Tail(queue[t]) :
          n \in Nat \ {0} /\ n + 1 \in DOMAIN queue[t] /\ Tail(queue[t])[n] = queue[t][n + 1]
    BY <1>1, TailAt, Zenon
  <2> QED
    BY <1>1, <2>1, Zenon
<1>4. \A u \in Threads : \A n \in DOMAIN queue[u] :
        n \in Nat /\ queue[u][n] \in Jobs /\ (queue[u][n] = j => u = t /\ n = 1)
  BY <1>2 DEF RunnerTypeOK, QueuesAgree
<1>5. ASSUME NEW u \in Threads, NEW n \in DOMAIN queue'[u]
      PROVE  queue'[u][n] \in Jobs \ {j}
  <2>1. CASE u = t
    BY <2>1, <1>3, <1>4
  <2>2. CASE u # t
    BY <2>2, <1>1, <1>4
  <2> QED
    BY <2>1, <2>2
<1>6. ASSUME NEW u \in Threads, NEW n \in DOMAIN queue'[u]
      PROVE  state'[queue'[u][n]] \in {"queued", "cancelled"}
  BY <1>1, <1>3, <1>5 DEF QueuesAgree
<1>7. ASSUME NEW u \in Threads, NEW v \in Threads, NEW m \in DOMAIN queue'[u], NEW n \in DOMAIN queue'[v],
             queue'[u][m] = queue'[v][n]
      PROVE  u = v /\ m = n
  <2>1. CASE u = t /\ v = t
    <3>1. m + 1 = n + 1
      BY <2>1, <1>3, <1>7 DEF QueuesAgree
    <3>2. m \in Nat /\ n \in Nat
      BY <2>1, <1>3
    <3> QED
      BY <2>1, <3>1, <3>2
  <2>2. CASE u # t /\ v # t
    BY <2>2, <1>1, <1>7 DEF QueuesAgree
  <2>3. CASE u = t /\ v # t
    BY <2>3, <1>1, <1>3, <1>7 DEF QueuesAgree
  <2>4. CASE u # t /\ v = t
    BY <2>4, <1>1, <1>3, <1>7 DEF QueuesAgree
  <2> QED
    BY <2>1, <2>2, <2>3, <2>4
<1> QED
  BY <1>6, <1>7 DEF QueuesAgree

-----------------------------------------------------------------------------
(* Each critical section, for the queues and the threads together. *)

\* Where jobs are.
LEMMA QueuedIsJob ==
    ASSUME RunnerTypeOK
    PROVE  /\ \A u \in Threads : \A n \in DOMAIN queue[u] : queue[u][n] \in Jobs
           /\ \A u \in Threads : running[u] # NoJob => running[u] \in Jobs
BY DEF RunnerTypeOK

\* A job that is queued is on no thread.
LEMMA QueuedIsNotTaken ==
    ASSUME RunnerAgrees, NEW j, IsQueued(j), j # NoJob
    PROVE  ~IsTaken(j)
BY DEF RunnerAgrees, QueuesAgree, TakenAgree, IsQueued, IsTaken

\* submit: a new job takes an identifier that nobody uses.
LEMMA SubmitAgrees ==
    ASSUME RunnerTypeOK, RunnerAgrees, NEW j \in Jobs, NEW t \in Threads, Submit(j, t)
    PROVE  /\ RunnerAgrees' /\ ~IsLive(j)
           /\ \A i \in Jobs \ {j} : IsLive(i)' => IsLive(i)
<1>1. ~IsQueued(j) /\ ~IsTaken(j) /\ running' = running
  BY DEF Submit, IsFree
<1>2. \A i \in Jobs : state'[i] = IF i = j THEN "queued" ELSE state[i]
  BY DEF Submit, RunnerTypeOK
<1>3. TakenAgree'
  BY <1>1, <1>2, QueuedIsJob DEF RunnerAgrees, TakenAgree, IsTaken
<1>4. QueuesAgree'
  BY SubmitQueues DEF RunnerAgrees
<1>5. ASSUME NEW i \in Jobs \ {j}, IsQueued(i)' PROVE IsQueued(i)
  <2>0. PICK u \in Threads : \E n \in DOMAIN queue'[u] : queue'[u][n] = i
    BY <1>5 DEF IsQueued
  <2>1. PICK n \in DOMAIN queue'[u] : queue'[u][n] = i
    BY <2>0
  <2>2. CASE u = t
    <3>1. queue[t] \in Seq(Jobs) /\ queue'[t] = Append(queue[t], j)
      BY DEF Submit, RunnerTypeOK
    <3>2. n \in DOMAIN queue[t] /\ queue[t][n] = i
      BY <2>1, <2>2, <3>1, AppendAt
    <3> QED
      BY <3>2 DEF IsQueued
  <2>3. CASE u # t
    BY <2>1, <2>3 DEF Submit, RunnerTypeOK, IsQueued
  <2> QED
    BY <2>2, <2>3
<1> QED
  BY <1>1, <1>3, <1>4, <1>5 DEF RunnerAgrees, IsLive, IsTaken

\* A job that is next waits in its queue, and is on no thread.
LEMMA NextIsQueued ==
    ASSUME RunnerTypeOK, RunnerAgrees, NEW j \in Jobs, NEW t \in Threads, IsNext(j, t)
    PROVE  /\ IsQueued(j) /\ ~IsTaken(j) /\ running[t] = NoJob
           /\ state[j] \in {"queued", "cancelled"}
<1>1. queue[t] \in Seq(Jobs) /\ queue[t] # <<>> /\ Head(queue[t]) = j /\ running[t] = NoJob
  BY DEF IsNext, RunnerTypeOK
<1>2. 1 \in DOMAIN queue[t] /\ queue[t][1] = j
  BY <1>1, TailAt, Zenon
<1>3. IsQueued(j) /\ state[j] \in {"queued", "cancelled"}
  BY <1>2 DEF IsQueued, RunnerAgrees, QueuesAgree
<1> QED
  BY <1>1, <1>3, QueuedIsNotTaken, JobsAssumption

\* A job that is taken leaves its queue, where it was once.
LEMMA TakeLeaves ==
    ASSUME RunnerTypeOK, RunnerAgrees, NEW j \in Jobs, NEW t \in Threads,
           IsNext(j, t), queue' = [queue EXCEPT ![t] = Tail(@)]
    PROVE  ~IsQueued(j)' /\ \A i \in Jobs : IsQueued(i)' => IsQueued(i)
<1>1. queue[t] \in Seq(Jobs) /\ queue[t] # <<>> /\ Head(queue[t]) = j /\ queue'[t] = Tail(queue[t])
      /\ \A u \in Threads \ {t} : queue'[u] = queue[u]
  BY DEF RunnerTypeOK, IsNext
<1>2. 1 \in DOMAIN queue[t] /\ queue[t][1] = j
  BY <1>1, TailAt
<1>3. \A n \in DOMAIN Tail(queue[t]) :
        n \in Nat \ {0} /\ n + 1 \in DOMAIN queue[t] /\ Tail(queue[t])[n] = queue[t][n + 1]
  BY <1>1, TailAt, Zenon
<1>4. \A u \in Threads : \A n \in DOMAIN queue[u] : queue[u][n] = j => u = t /\ n = 1
  BY <1>2 DEF RunnerAgrees, QueuesAgree
<1>5. ASSUME NEW u \in Threads, NEW n \in DOMAIN queue'[u]
      PROVE  queue'[u][n] # j /\ IsQueued(queue'[u][n])
  <2>1. CASE u = t
    <3>1. n \in Nat \ {0} /\ n + 1 \in DOMAIN queue[t] /\ queue'[u][n] = queue[t][n + 1]
      BY <1>1, <1>3, <1>5, <2>1
    <3>2. n + 1 # 1
      BY <3>1
    <3> QED
      BY <1>4, <3>1, <3>2 DEF IsQueued
  <2>2. CASE u # t
    BY <1>1, <1>4, <2>2 DEF IsQueued
  <2> QED
    BY <2>1, <2>2
<1> QED
  BY <1>5 DEF IsQueued

\* _run takes a job that waits.
LEMMA StartAgrees ==
    ASSUME RunnerTypeOK, RunnerAgrees, NEW j \in Jobs, NEW t \in Threads, Start(j, t)
    PROVE  /\ RunnerAgrees' /\ ~IsTaken(j) /\ IsQueued(j) /\ running[t] = NoJob
           /\ \A i \in Jobs : IsLive(i)' => IsLive(i)
<1>1. /\ IsNext(j, t) /\ queue' = [queue EXCEPT ![t] = Tail(@)]
      /\ running' = [running EXCEPT ![t] = j]
      /\ \A i \in Jobs : state'[i] = IF i = j THEN "running" ELSE state[i]
  BY DEF Start, RunnerTypeOK
<1>2. IsQueued(j) /\ ~IsTaken(j) /\ running[t] = NoJob
  BY <1>1, NextIsQueued
<1>3. running'[t] = j /\ \A u \in Threads \ {t} : running'[u] = running[u]
  BY <1>1 DEF RunnerTypeOK
<1>4. TakenAgree'
  BY <1>1, <1>2, <1>3, QueuedIsJob DEF RunnerAgrees, TakenAgree, IsTaken
<1>5. QueuesAgree'
  BY <1>1, TakeQueues DEF RunnerAgrees
<1>6. ASSUME NEW i \in Jobs, IsLive(i)' PROVE IsLive(i)
  <2>1. CASE IsQueued(i)'
    BY <1>1, <2>1, TakeLeaves DEF IsLive
  <2>2. CASE IsTaken(i)'
    BY <1>2, <1>3, <2>2 DEF IsLive, IsTaken
  <2> QED
    BY <1>6, <2>1, <2>2 DEF IsLive
<1> QED
  BY <1>2, <1>4, <1>5, <1>6 DEF RunnerAgrees

\* _run drops a job that was cancelled while it waited.
LEMMA DropAgrees ==
    ASSUME RunnerTypeOK, RunnerAgrees, NEW j \in Jobs, NEW t \in Threads, Drop(j, t)
    PROVE  /\ RunnerAgrees' /\ ~IsTaken(j) /\ ~IsLive(j)'
           /\ \A i \in Jobs : IsLive(i)' => IsLive(i)
<1>1. /\ IsNext(j, t) /\ queue' = [queue EXCEPT ![t] = Tail(@)]
      /\ UNCHANGED <<state, running>>
  BY DEF Drop
<1>2. ~IsTaken(j)
  BY <1>1, NextIsQueued
<1>3. RunnerAgrees'
  BY <1>1, TakeQueues DEF RunnerAgrees, TakenAgree
<1>4. ~IsQueued(j)' /\ \A i \in Jobs : IsQueued(i)' => IsQueued(i)
  BY <1>1, TakeLeaves
<1> QED
  BY <1>1, <1>2, <1>3, <1>4 DEF IsLive, IsTaken

\* cancel.
LEMMA MarkAgrees ==
    ASSUME RunnerTypeOK, RunnerAgrees, NEW j \in Jobs, MarkCancelled(j)
    PROVE  RunnerAgrees' /\ \A i \in Jobs : IsLive(i)' <=> IsLive(i)
<1>1. UNCHANGED <<queue, running>> /\ state[j] \in {"queued", "running"}
      /\ \A i \in Jobs : state'[i] = IF i # j THEN state[i]
                                     ELSE IF state[j] = "queued" THEN "cancelled"
                                                                 ELSE "cancellation_requested"
  BY DEF MarkCancelled, AfterCancel, RunnerTypeOK
<1>2. TakenAgree'
  BY <1>1, QueuedIsJob DEF RunnerAgrees, TakenAgree
<1>3. QueuesAgree'
  BY <1>1, QueuedIsJob DEF RunnerAgrees, QueuesAgree
<1> QED
  BY <1>1, <1>2, <1>3 DEF RunnerAgrees, IsLive, IsQueued, IsTaken

\* _run after the operation.
LEMMA EndAgrees ==
    ASSUME RunnerTypeOK, RunnerAgrees, NEW j \in Jobs, NEW t \in Threads, NEW status,
           End(j, t, status)
    PROVE  /\ RunnerAgrees' /\ running[t] = j /\ ~IsLive(j)'
           /\ \A i \in Jobs : IsLive(i)' => IsLive(i)
<1>0. running[t] = j /\ j # NoJob
  BY JobsAssumption DEF End
<1>1. /\ queue' = queue /\ \A i \in Jobs \ {j} : state'[i] = state[i]
      /\ running'[t] = NoJob /\ \A u \in Threads \ {t} : running'[u] = running[u]
  BY DEF End, RunnerTypeOK
<1>2. IsTaken(j) /\ \A u \in Threads \ {t} : running[u] # j
  BY <1>0 DEF IsTaken, RunnerAgrees, TakenAgree
<1>3. \A u \in Threads : \A n \in DOMAIN queue[u] : queue[u][n] \in Jobs \ {j}
  BY <1>0, <1>2, QueuedIsJob, QueuedIsNotTaken DEF IsQueued
<1>4. QueuesAgree'
  BY <1>1, <1>3 DEF RunnerAgrees, QueuesAgree
<1>5. ASSUME NEW u \in Threads, running'[u] # NoJob
      PROVE  running'[u] = running[u] /\ running[u] \in Jobs \ {j}
  BY <1>1, <1>2, <1>5, QueuedIsJob
<1>6. TakenAgree'
  BY <1>1, <1>5 DEF RunnerAgrees, TakenAgree
<1>7. \A u \in Threads : \A n \in DOMAIN queue'[u] : queue'[u][n] # j
  BY <1>1, <1>3
<1>8. \A u \in Threads : running'[u] # j
  BY <1>0, <1>1, <1>2
<1>9. ASSUME NEW i \in Jobs, IsLive(i)' PROVE IsLive(i)
  <2>1. CASE IsQueued(i)'
    BY <1>1, <2>1 DEF IsLive, IsQueued
  <2>2. CASE IsTaken(i)'
    BY <1>5, <2>2, JobsAssumption DEF IsLive, IsTaken
  <2> QED
    BY <1>9, <2>1, <2>2 DEF IsLive
<1>10. ~(IsLive(j)')
  BY <1>7, <1>8 DEF IsLive, IsQueued, IsTaken
<1> QED
  BY <1>0, <1>4, <1>6, <1>9, <1>10 DEF RunnerAgrees

\* A process stops: what its threads had is gone, the rest stays where it is.
LEMMA ForgetAgrees ==
    ASSUME RunnerTypeOK, RunnerAgrees, NEW threads \in SUBSET Threads, Forget(threads)
    PROVE  /\ RunnerAgrees'
           /\ \A i \in Jobs : IsLive(i)' => IsLive(i) /\ ~Lost(i, threads)
           /\ \A t \in Threads : running'[t] = IF t \in threads THEN NoJob ELSE running[t]
<1>1. /\ \A i \in Jobs : state'[i] = IF Lost(i, threads) THEN "absent" ELSE state[i]
      /\ \A t \in Threads : queue'[t] = IF t \in threads THEN <<>> ELSE queue[t]
      /\ \A t \in Threads : running'[t] = IF t \in threads THEN NoJob ELSE running[t]
  BY DEF Forget
<1>2. ASSUME NEW u \in Threads, NEW n \in DOMAIN queue'[u]
      PROVE  /\ u \notin threads /\ queue'[u] = queue[u]
             /\ queue[u][n] \in Jobs /\ ~Lost(queue[u][n], threads)
  <2>1. u \notin threads
    BY <1>1, <1>2
  <2>2. queue'[u] = queue[u] /\ queue[u][n] \in Jobs
    <3>1. queue'[u] = queue[u]
      BY <1>1, <2>1
    <3> QED
      BY <1>2, <3>1, QueuedIsJob
  <2>3. ~IsTaken(queue[u][n])
    <3>1. IsQueued(queue[u][n])
      BY <1>2, <2>2 DEF IsQueued
    <3>2. queue[u][n] # NoJob
      BY <2>2, JobsAssumption
    <3> QED
      BY <3>1, <3>2, QueuedIsNotTaken
  <2>4. \A v \in threads : \A m \in DOMAIN queue[v] : queue[v][m] # queue[u][n]
    BY <1>2, <2>1, <2>2 DEF RunnerAgrees, QueuesAgree
  <2> QED
    BY <2>1, <2>2, <2>3, <2>4 DEF Lost, IsTaken
<1>3. ASSUME NEW u \in Threads, running'[u] # NoJob
      PROVE  /\ u \notin threads /\ running'[u] = running[u]
             /\ running[u] \in Jobs /\ ~Lost(running[u], threads)
  <2>1. u \notin threads /\ running'[u] = running[u] /\ running[u] # NoJob
    BY <1>1, <1>3
  <2>2. running[u] \in Jobs
    BY <2>1, QueuedIsJob
  <2>3. ~IsQueued(running[u])
    BY <2>2, JobsAssumption, QueuedIsNotTaken DEF IsTaken
  <2>4. \A v \in threads : running[v] # running[u]
    BY <2>1 DEF RunnerAgrees, TakenAgree
  <2> QED
    BY <2>1, <2>2, <2>3, <2>4 DEF Lost, IsQueued
<1>4. QueuesAgree'
  BY <1>1, <1>2 DEF RunnerAgrees, QueuesAgree
<1>5. TakenAgree'
  BY <1>1, <1>3 DEF RunnerAgrees, TakenAgree
<1>6. ASSUME NEW i \in Jobs, IsLive(i)' PROVE IsLive(i) /\ ~Lost(i, threads)
  <2>1. CASE IsQueued(i)'
    BY <1>2, <2>1 DEF IsLive, IsQueued
  <2>2. CASE IsTaken(i)'
    BY <1>3, <2>2, JobsAssumption DEF IsLive, IsTaken
  <2> QED
    BY <1>6, <2>1, <2>2 DEF IsLive
<1> QED
  BY <1>1, <1>4, <1>5, <1>6 DEF RunnerAgrees
=============================================================================
