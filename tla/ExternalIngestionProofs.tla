----------------------- MODULE ExternalIngestionProofs -----------------------
(***************************************************************************)
(* What ExternalIngestion guarantees for every set of operations, batches  *)
(* and workers, with outages, refusals, crashes and leases that expire     *)
(* under their holder.                                                     *)
(*                                                                         *)
(* Two workers on one operation may write its row in any order, so no      *)
(* state or stage of the row says which one the other is in.  The argument *)
(* needs less: an offset, in the row or in the copy of a session, never    *)
(* exceeds what is durable (OffsetsAreDurable), and a row or a worker that *)
(* passed the commit saw an offset at the end (CommittedIsImported).       *)
(*                                                                         *)
(* When a lease outlives the work between two renewals (~SlowWork), one    *)
(* worker has an operation at a time (Exclusive), and its copy of the row  *)
(* is the row (InStep).  What follows from that is at the end: workers     *)
(* keep apart, resumption is exact, a commit is final, and the operations  *)
(* in flight are bounded.                                                  *)
(***************************************************************************)
EXTENDS ExternalIngestion, FiniteSetTheorems, TLAPS

Imported(o) == stored[o] = Batches[o]

\* No offset is ahead of the records.
OffsetsAreDurable ==
    /\ \A o \in Ops : row[o].offset <= stored[o]
    /\ \A w \in Workers : job[w] # None => view[w].offset <= stored[job[w]]

\* Whoever is past the commit has imported every batch.
CommittedIsImported ==
    /\ \A o \in Ops : row[o].state \in {"committed", "acknowledging"} => Imported(o)
    /\ \A o \in Ops : row[o].stage \in {"committed", "acknowledging"} => Imported(o)
    /\ \A w \in Workers : pc[w] \in {"imported", "acknowledging"} => Imported(job[w])
    /\ \A o \in acked : Imported(o)

Durable == OffsetsAreDurable /\ CommittedIsImported

-----------------------------------------------------------------------------
(* Types. *)

\* The three ways the code changes a row.
Failed(r, s)   == [r EXCEPT !.state = s]
Moved(r, s, g) == [r EXCEPT !.state = s, !.stage = g]
Grown(r, g, n) == [r EXCEPT !.stage = g, !.offset = n]

\* A row whose state changes is a row.
LEMMA FailedTyped ==
    ASSUME NEW r \in Row, NEW s \in State
    PROVE  Failed(r, s) \in Row /\ Failed(r, s).offset = r.offset
BY DEF Failed, Row

\* A row that goes to another stage is a row.
LEMMA MovedTyped ==
    ASSUME NEW r \in Row, NEW s \in State, NEW g \in Stage
    PROVE  /\ Moved(r, s, g) \in Row /\ Moved(r, s, g).offset = r.offset
           /\ Moved(r, s, g).state = s /\ Moved(r, s, g).stage = g
BY DEF Moved, Row

\* A row whose offset grows is a row.
LEMMA GrownTyped ==
    ASSUME NEW r \in Row, NEW g \in Stage, NEW n \in Nat
    PROVE  /\ Grown(r, g, n) \in Row /\ Grown(r, g, n).offset = n
           /\ Grown(r, g, n).state = r.state /\ Grown(r, g, n).stage = g
BY DEF Grown, Row

\* A commit writes each column as the row or as the session has it.
LEMMA WrittenTyped ==
    ASSUME NEW current \in Row, NEW old \in Row, NEW new \in Row
    PROVE  /\ Written(current, old, new) \in Row
           /\ Written(current, old, new).offset \in {current.offset, new.offset}
           /\ Written(current, old, new).state \in {current.state, new.state}
           /\ Written(current, old, new).stage \in {current.stage, new.stage}
BY DEF Written, Row

\* What a commit of a busy worker does to the row and to the copy.
LEMMA Committing ==
    ASSUME TypeOK, NEW w \in Workers, pc[w] \in Place, NEW new \in Row, NEW next \in Place,
           new.offset <= Batches[job[w]], Commit(w, new, next)
    PROVE  /\ job[w] \in Ops
           /\ row' = [row EXCEPT ![job[w]] = Written(row[job[w]], view[w], new)]
           /\ row' \in [Ops -> Row] /\ \A o \in Ops : row'[o].offset <= Batches[o]
           /\ view' \in [Workers -> Row] /\ pc' \in [Workers -> Place \cup Idle]
           /\ \A v \in Workers : pc'[v] \in Idle <=> job'[v] = None
           /\ \A v \in Workers : job'[v] # None => view'[v].offset <= Batches[job'[v]]
<1>1. job[w] \in Ops /\ row[job[w]] \in Row /\ view[w] \in Row
  BY DEF TypeOK, Place, Idle
<1>2. DEFINE r == Written(row[job[w]], view[w], new)
<1>3. r \in Row /\ r.offset \in {row[job[w]].offset, new.offset}
  BY <1>1, WrittenTyped
<1>4. row' = [row EXCEPT ![job[w]] = r] /\ job' = job
  BY DEF Commit
<1>5. row' \in [Ops -> Row] /\ \A o \in Ops : row'[o].offset <= Batches[o]
  <2> HIDE DEF r
  <2>1. r.offset <= Batches[job[w]]
    BY <1>1, <1>3 DEF TypeOK
  <2>2. QED
    BY <1>1, <1>3, <1>4, <2>1 DEF TypeOK
<1>6. /\ view' \in [Workers -> Row] /\ pc' \in [Workers -> Place \cup Idle]
      /\ \A v \in Workers : pc'[v] \in Idle <=> job'[v] = None
      /\ \A v \in Workers : job'[v] # None => view'[v].offset <= Batches[job'[v]]
  BY <1>1 DEF Commit, TypeOK, Place, Idle
<1>7. QED
  BY <1>1, <1>4, <1>5, <1>6

\* The other variables a worker's step may change.
LEMMA CountersTyped ==
    ASSUME TypeOK, NEW o \in Ops
    PROVE  /\ Cardinality(Workers) \in Nat
           /\ Overtaking(o) => overtaken' \in [Interactive -> 0..(Cardinality(Workers) + 1)]
           /\ \A n \in 0..Batches[o] :
                LET after == [stored EXCEPT ![o] = AtLeast(@, n)]
                IN  after \in [Ops -> Nat] /\ \A p \in Ops : after[p] <= Batches[p]
<1>1. Cardinality(Workers) \in Nat
  BY ConstantsAssumption, FS_CardinalityType
<1>2. ASSUME Overtaking(o) PROVE overtaken' \in [Interactive -> 0..(Cardinality(Workers) + 1)]
  BY <1>1, <1>2 DEF Overtaking, TypeOK
<1>3. ASSUME NEW n \in 0..Batches[o]
      PROVE  LET after == [stored EXCEPT ![o] = AtLeast(@, n)]
             IN  after \in [Ops -> Nat] /\ \A p \in Ops : after[p] <= Batches[p]
  BY ConstantsAssumption DEF TypeOK, AtLeast
<1>4. QED
  BY <1>1, <1>2, <1>3

\* A worker that stops processing keeps nothing.
LEMMA Leaving ==
    ASSUME TypeOK, NEW w \in Workers, Leave(w)
    PROVE  /\ job' \in [Workers -> Ops \cup {None}] /\ pc' \in [Workers -> Place \cup Idle]
           /\ view' \in [Workers -> Row]
           /\ \A v \in Workers : pc'[v] \in Idle <=> job'[v] = None
           /\ \A v \in Workers : job'[v] # None => view'[v].offset <= Batches[job'[v]]
BY DEF Leave, TypeOK, Place, Idle, Absent, Row, State, Stage

\* The types hold at the start.
LEMMA InitTyped == Init => TypeOK
<1>1. Cardinality(Workers) \in Nat
  BY ConstantsAssumption, FS_CardinalityType
<1>2. QED
  BY <1>1, ConstantsAssumption DEF Init, TypeOK, Absent, Row, State, Stage, Place, Idle

\* Every kind of step of a worker keeps the types.
LEMMA ProcessTyped ==
    ASSUME TypeOK, NEW w \in Workers, Process(w) \/ FailForNow(w) \/ Crash(w)
    PROVE  TypeOK'
<1> DEFINE o == job[w]
<1>1. /\ o \in Ops /\ pc[w] \in Place
      /\ row[o] \in Row /\ view[w] \in Row
      /\ view[w].offset \in 0..Batches[o]
      /\ Batches[o] \in Nat
  BY ConstantsAssumption
     DEF TypeOK, Process, Publish, StartImport, Fetch, PersistBatch, Yield, FinishImport,
         StartAck, Acknowledge, Complete, Release, FailOnConflict, FailForGood, FailForNow,
         Fail, Crash, At, Row, Place, Idle
<1>2. ASSUME NEW new \in Row, NEW next \in Place, new.offset <= Batches[o],
             Commit(w, new, next),
             claim' = claim,
             /\ stored' \in [Ops -> Nat] /\ \A p \in Ops : stored'[p] <= Batches[p],
             received' \subseteq Interactive, snapshot' = snapshot, acked' = acked,
             overtaken' \in [Interactive -> 0..(Cardinality(Workers) + 1)]
      PROVE  TypeOK'
  <2>1. /\ row' \in [Ops -> Row] /\ \A p \in Ops : row'[p].offset <= Batches[p]
        /\ view' \in [Workers -> Row] /\ pc' \in [Workers -> Place \cup Idle]
        /\ \A v \in Workers : pc'[v] \in Idle <=> job'[v] = None
        /\ \A v \in Workers : job'[v] # None => view'[v].offset <= Batches[job'[v]]
    BY <1>1, <1>2, Committing
  <2>2. job' = job /\ created' = created
    BY <1>2 DEF Commit
  <2>3. QED
    BY <1>2, <2>1, <2>2 DEF TypeOK
<1>3. CASE Publish(w)
  <2> DEFINE new == Moved(view[w], "published", "published")
  <2>1. new \in Row /\ new.offset <= Batches[o]
    BY <1>1, MovedTyped DEF State, Stage
  <2>2. "published" \in Place
    BY DEF Place
  <2>3. /\ Commit(w, new, "published") /\ received' \subseteq Interactive
        /\ UNCHANGED <<claim, stored, snapshot, acked, overtaken>>
    BY <1>3 DEF Publish, TypeOK, Moved
  <2> HIDE DEF new
  <2>4. QED
    BY <1>2, <2>1, <2>2, <2>3 DEF TypeOK
<1>4. CASE StartImport(w)
  <2> DEFINE new == Moved(view[w], "central_importing", "central_importing")
  <2>1. new \in Row /\ new.offset <= Batches[o]
    BY <1>1, MovedTyped DEF State, Stage
  <2>2. "fetching" \in Place
    BY DEF Place
  <2>3. Commit(w, new, "fetching") /\ UNCHANGED <<claim, stored, gateway, overtaken>>
    BY <1>4 DEF StartImport, Moved
  <2> HIDE DEF new
  <2>4. QED
    BY <1>2, <2>1, <2>2, <2>3 DEF TypeOK, gateway
<1>5. CASE PersistBatch(w)
  <2> DEFINE offset == view[w].offset + 1
             new == Grown(view[w], "persisting", offset)
  <2>1. offset \in 0..Batches[o] /\ offset \in Nat
    BY <1>1, <1>5 DEF PersistBatch
  <2>2. new \in Row /\ new.offset <= Batches[o]
    <3> HIDE DEF offset
    <3>1. "persisting" \in Stage
      BY DEF Stage
    <3>2. new \in Row /\ new.offset = offset
      BY <1>1, <2>1, <3>1, GrownTyped
    <3>3. QED
      BY <2>1, <3>2
  <2>3. AfterBatch(o, offset) \in Place
    BY DEF AfterBatch, Place
  <2>4. /\ Commit(w, new, AfterBatch(o, offset)) /\ UNCHANGED <<claim, gateway>>
        /\ stored' = [stored EXCEPT ![o] = AtLeast(@, offset)] /\ Overtaking(o)
    BY <1>5 DEF PersistBatch, Grown
  <2> HIDE DEF new, offset
  <2>5. /\ stored' \in [Ops -> Nat] /\ \A p \in Ops : stored'[p] <= Batches[p]
        /\ overtaken' \in [Interactive -> 0..(Cardinality(Workers) + 1)]
    BY <1>1, <2>1, <2>4, CountersTyped
  <2>6. QED
    BY <1>2, <2>2, <2>3, <2>4, <2>5 DEF TypeOK, gateway
<1>6. CASE FinishImport(w)
  <2> DEFINE new == Moved(view[w], "committed", "committed")
  <2>1. new \in Row /\ new.offset <= Batches[o]
    BY <1>1, MovedTyped DEF State, Stage
  <2>2. "imported" \in Place
    BY DEF Place
  <2>3. Commit(w, new, "imported") /\ UNCHANGED <<claim, stored, gateway, overtaken>>
    BY <1>6 DEF FinishImport, Moved
  <2> HIDE DEF new
  <2>4. QED
    BY <1>2, <2>1, <2>2, <2>3 DEF TypeOK, gateway
<1>7. CASE StartAck(w)
  <2> DEFINE new == Moved(view[w], "acknowledging", "acknowledging")
  <2>1. new \in Row /\ new.offset <= Batches[o]
    BY <1>1, MovedTyped DEF State, Stage
  <2>2. "acknowledging" \in Place
    BY DEF Place
  <2>3. Commit(w, new, "acknowledging") /\ UNCHANGED <<claim, stored, gateway, overtaken>>
    BY <1>7 DEF StartAck, Moved
  <2> HIDE DEF new
  <2>4. QED
    BY <1>2, <2>1, <2>2, <2>3 DEF TypeOK, gateway
<1>8. CASE Complete(w)
  <2> DEFINE new == Moved(view[w], "completed", "completed")
  <2>1. new \in Row /\ new.offset <= Batches[o]
    BY <1>1, MovedTyped DEF State, Stage
  <2>2. "releasing" \in Place
    BY DEF Place
  <2>3. Commit(w, new, "releasing") /\ UNCHANGED <<claim, stored, gateway, overtaken>>
    BY <1>8 DEF Complete, Moved
  <2> HIDE DEF new
  <2>4. QED
    BY <1>2, <2>1, <2>2, <2>3 DEF TypeOK, gateway
<1>9. CASE Fetch(w)
  BY <1>1, <1>9 DEF Fetch, TypeOK, gateway, Idle, Place
<1>10. CASE Acknowledge(w)
  BY <1>1, <1>10 DEF Acknowledge, TypeOK, Idle, Place
<1>11. CASE Yield(w) \/ Release(w)
  BY <1>1, <1>11, Leaving DEF Yield, Release, TypeOK, gateway
<1>12. ASSUME NEW state \in {"failed_retryable", "failed_terminal"}, Fail(w, state)
       PROVE  TypeOK'
  <2>1. /\ row' = [row EXCEPT ![o].state = state]
        /\ claim' = [claim EXCEPT ![o] = "free"]
        /\ Leave(w) /\ UNCHANGED <<created, stored, gateway, overtaken>>
    BY <1>12 DEF Fail
  <2>2. row' \in [Ops -> Row] /\ \A p \in Ops : row'[p].offset <= Batches[p]
    BY <1>1, <2>1 DEF TypeOK, Row, State
  <2>3. QED
    BY <1>1, <2>1, <2>2, Leaving DEF TypeOK, gateway
<1>13. CASE FailOnConflict(w) \/ FailForGood(w) \/ FailForNow(w)
  BY <1>12, <1>13 DEF FailOnConflict, FailForGood, FailForNow
<1>14. CASE Crash(w)
  BY <1>14, Leaving DEF Crash, TypeOK, gateway
<1>15. QED
  BY <1>3, <1>4, <1>5, <1>6, <1>7, <1>8, <1>9, <1>10, <1>11, <1>13, <1>14 DEF Process

\* Every value the model stores has the type the code gives it.
THEOREM Typing == Spec => []TypeOK
<1>1. TypeOK /\ [Next]_vars => TypeOK'
  <2> SUFFICES ASSUME TypeOK, [Next]_vars PROVE TypeOK'
    OBVIOUS
  <2>1. ASSUME NEW o \in Ops, Create(o) \/ (\E w \in Workers : Adopt(w, o)) PROVE TypeOK'
    <3>1. created' \in Seq(Ops)
      <4>1. created' = Append(created, o)
        BY <2>1 DEF Create, Adopt
      <4>2. created \in Seq(Ops)
        BY DEF TypeOK
      <4>3. QED
        BY <4>1, <4>2
    <3>2. /\ Failed(row[o], "queued") \in Row
          /\ Failed(row[o], "queued").offset = row[o].offset
          /\ Moved(row[o], "published", "published") \in Row
          /\ Moved(row[o], "published", "published").offset = row[o].offset
      <4>1. row[o] \in Row /\ "queued" \in State /\ "published" \in State /\ "published" \in Stage
        BY DEF TypeOK, State, Stage
      <4>2. QED
        BY <4>1, FailedTyped, MovedTyped
    <3>3. row' \in [Ops -> Row] /\ \A p \in Ops : row'[p].offset <= Batches[p]
      <4>1. CASE row' = [row EXCEPT ![o] = Failed(@, "queued")]
        BY <3>2, <4>1 DEF TypeOK
      <4>2. CASE row' = [row EXCEPT ![o] = Moved(@, "published", "published")]
        BY <3>2, <4>2 DEF TypeOK
      <4>3. QED
        BY <2>1, <4>1, <4>2 DEF Create, Adopt, Failed, Moved
    <3>4. QED
      <4>1. CASE Create(o)
        BY <3>1, <3>3, <4>1 DEF Create, TypeOK, worker, gateway
      <4>2. CASE \E w \in Workers : Adopt(w, o)
        BY <3>1, <3>3, <4>2 DEF Adopt, TypeOK, Place, Idle, gateway
      <4>3. QED
        BY <2>1, <4>1, <4>2
  <2>2. ASSUME NEW o \in Ops, Retry(o) PROVE TypeOK'
    <3>1. RetryState(row[o].stage) \in State
      BY DEF RetryState, State
    <3>2. row' = [row EXCEPT ![o] = Failed(@, RetryState(row[o].stage))]
      BY <2>2 DEF Retry, Failed
    <3>3. row' \in [Ops -> Row] /\ \A p \in Ops : row'[p].offset <= Batches[p]
      BY <3>1, <3>2, FailedTyped DEF TypeOK
    <3>4. QED
      BY <2>2, <3>3 DEF Retry, TypeOK, worker, gateway
  <2>3. ASSUME NEW o \in Ops, ExpireLease(o) PROVE TypeOK'
    BY <2>3 DEF ExpireLease, TypeOK, worker, gateway
  <2>4. ASSUME NEW o \in Backlog \cup {None}, ReplaceSnapshot(o) PROVE TypeOK'
    BY <2>4 DEF ReplaceSnapshot, TypeOK, worker
  <2>5. ASSUME NEW w \in Workers, NEW o \in Ops, Claim(w, o) PROVE TypeOK'
    <3>1. /\ Cardinality(Workers) \in Nat
          /\ EntryPoint(row[o].state) \in Place
      BY CountersTyped DEF EntryPoint, Place
    <3>2. overtaken' \in [Interactive -> 0..(Cardinality(Workers) + 1)]
      BY <2>5, <3>1 DEF Claim, TypeOK
    <3>3. QED
      BY <2>5, <3>1, <3>2, ConstantsAssumption DEF Claim, TypeOK, Idle, Place, gateway
  <2>6. ASSUME NEW w \in Workers, Look(w) \/ AdoptNothing(w) PROVE TypeOK'
    BY <2>6 DEF Look, AdoptNothing, TypeOK, Place, Idle, gateway
  <2>7. CASE UNCHANGED vars
    BY <2>7 DEF vars, worker, gateway, TypeOK
  <2>8. QED
    BY <2>1, <2>2, <2>3, <2>4, <2>5, <2>6, <2>7, ProcessTyped DEF Next, Adopting, Ops
<1>2. QED
  BY <1>1, InitTyped, PTL DEF Spec

-----------------------------------------------------------------------------
(* Durability. *)

\* A commit is harmless if what it writes is backed by the records.
LEMMA CommitKeeps ==
    ASSUME TypeOK, TypeOK', Durable, NEW w \in Workers, pc[w] \in Place,
           NEW new \in Row, NEW next, Commit(w, new, next), acked' = acked,
           \A o \in Ops : stored[o] <= stored'[o],
           new.offset <= stored'[job[w]],
           \/ new.state = view[w].state
           \/ new.state \notin {"committed", "acknowledging"}
           \/ Imported(job[w])',
           new.stage \in {"committed", "acknowledging"} => Imported(job[w])',
           next \in {"imported", "acknowledging"} => Imported(job[w])'
    PROVE  Durable'
<1> DEFINE r == Written(row[job[w]], view[w], new)
<1>1. /\ job[w] \in Ops /\ row[job[w]] \in Row /\ view[w] \in Row
      /\ row' = [row EXCEPT ![job[w]] = r]
      /\ view' = [view EXCEPT ![w] = new] /\ pc' = [pc EXCEPT ![w] = next] /\ job' = job
  BY DEF TypeOK, Commit
<1>2. /\ r.offset \in {row[job[w]].offset, new.offset}
      /\ r.stage \in {row[job[w]].stage, new.stage}
      /\ r.state = row[job[w]].state \/ (r.state = new.state /\ new.state # view[w].state)
  BY <1>1 DEF Written
<1> HIDE DEF r
<1>3. /\ \A o \in Ops : stored[o] \in Nat /\ stored'[o] \in Nat /\ Batches[o] \in Nat
                        /\ stored'[o] <= Batches[o] /\ row[o].offset \in Nat
      /\ \A v \in Workers : view[v].offset \in Nat /\ (job[v] # None => job[v] \in Ops)
      /\ \A v \in Workers : pc[v] \in Place => job[v] \in Ops
      /\ new.offset \in Nat
  BY ConstantsAssumption DEF TypeOK, Row, Place, Idle
<1>4. \A o \in Ops : Imported(o) => Imported(o)'
  BY <1>3 DEF Imported
<1>5. OffsetsAreDurable'
  <2>1. ASSUME NEW o \in Ops PROVE row'[o].offset <= stored'[o]
    <3>1. row[o].offset <= stored[o] /\ row \in [Ops -> Row]
      BY DEF Durable, OffsetsAreDurable, TypeOK
    <3>2. QED
      BY <1>1, <1>2, <1>3, <3>1
  <2>2. ASSUME NEW v \in Workers, job'[v] # None PROVE view'[v].offset <= stored'[job'[v]]
    <3>1. job[v] \in Ops /\ view[v].offset <= stored[job[v]] /\ view \in [Workers -> Row]
      BY <1>1, <1>3, <2>2 DEF Durable, OffsetsAreDurable, TypeOK
    <3>2. QED
      BY <1>1, <1>3, <3>1
  <2>3. QED
    BY <2>1, <2>2 DEF OffsetsAreDurable
<1>6. CommittedIsImported'
  <2>1. ASSUME NEW o \in Ops, row'[o].state \in {"committed", "acknowledging"} PROVE Imported(o)'
    BY <1>1, <1>2, <1>4, <2>1 DEF Durable, CommittedIsImported, TypeOK
  <2>2. ASSUME NEW o \in Ops, row'[o].stage \in {"committed", "acknowledging"} PROVE Imported(o)'
    BY <1>1, <1>2, <1>4, <2>2 DEF Durable, CommittedIsImported, TypeOK
  <2>3. ASSUME NEW v \in Workers, pc'[v] \in {"imported", "acknowledging"}
        PROVE  Imported(job[v])'
    <3>1. CASE v = w
      BY <1>1, <2>3, <3>1 DEF TypeOK
    <3>2. CASE v # w
      <4>1. pc[v] \in {"imported", "acknowledging"}
        BY <1>1, <2>3, <3>2 DEF TypeOK
      <4>2. job[v] \in Ops /\ Imported(job[v])
        BY <1>3, <4>1 DEF Durable, CommittedIsImported, Place
      <4>3. QED
        BY <1>1, <1>4, <4>2 DEF Imported
    <3>3. QED
      BY <3>1, <3>2
  <2>4. ASSUME NEW o \in acked PROVE Imported(o)'
    BY <1>4, <2>4 DEF Durable, CommittedIsImported, TypeOK
  <2>5. QED
    BY <1>1, <2>1, <2>2, <2>3, <2>4 DEF CommittedIsImported, Imported
<1>7. QED
  BY <1>5, <1>6 DEF Durable

\* The steps of process() that commit something.
LEMMA CommitsKeep ==
    ASSUME TypeOK, TypeOK', Durable, NEW w \in Workers,
           \/ Publish(w) \/ StartImport(w) \/ PersistBatch(w)
           \/ FinishImport(w) \/ StartAck(w) \/ Complete(w)
    PROVE  Durable'
<1> DEFINE o == job[w]
<1>1. /\ o \in Ops /\ pc[w] \in Place /\ view[w] \in Row
      /\ view[w].offset \in Nat /\ Batches[o] \in Nat
      /\ view[w].offset <= stored[o]
      /\ \A p \in Ops : stored[p] \in Nat /\ stored[p] <= Batches[p]
  BY ConstantsAssumption
     DEF TypeOK, Publish, StartImport, PersistBatch, FinishImport, StartAck, Complete, At,
         Durable, OffsetsAreDurable, Row, Place, Idle
<1>2. CASE Publish(w)
  <2> DEFINE new == Moved(view[w], "published", "published")
  <2>1. new \in Row /\ new.offset <= stored[o] /\ new.state = "published" /\ new.stage = "published"
    BY <1>1, MovedTyped DEF State, Stage
  <2>2. Commit(w, new, "published") /\ UNCHANGED <<stored, acked>>
    BY <1>2 DEF Publish, Moved
  <2> HIDE DEF new
  <2>3. QED
    BY <1>1, <2>1, <2>2, CommitKeeps
<1>3. CASE StartImport(w)
  <2> DEFINE new == Moved(view[w], "central_importing", "central_importing")
  <2>1. /\ new \in Row /\ new.offset <= stored[o]
        /\ new.state = "central_importing" /\ new.stage = "central_importing"
    BY <1>1, MovedTyped DEF State, Stage
  <2>2. Commit(w, new, "fetching") /\ UNCHANGED <<stored, acked>>
    BY <1>3 DEF StartImport, Moved, gateway
  <2> HIDE DEF new
  <2>3. QED
    BY <1>1, <2>1, <2>2, CommitKeeps
<1>4. CASE PersistBatch(w)
  <2> DEFINE offset == view[w].offset + 1
             new == Grown(view[w], "persisting", offset)
             next == AfterBatch(o, offset)
  <2>1. offset \in Nat /\ offset <= Batches[o]
    BY <1>1, <1>4 DEF PersistBatch
  <2>2. /\ Commit(w, new, next) /\ acked' = acked
        /\ stored' = [stored EXCEPT ![o] = AtLeast(@, offset)]
    BY <1>4 DEF PersistBatch, Grown, gateway
  <2>3. next \notin {"imported", "acknowledging"}
    BY DEF AfterBatch
  <2> HIDE DEF offset, next
  <2>4. new \in Row /\ new.offset = offset /\ new.state = view[w].state /\ new.stage = "persisting"
    <3>1. "persisting" \in Stage
      BY DEF Stage
    <3>2. QED
      BY <1>1, <2>1, <3>1, GrownTyped
  <2>5. (\A p \in Ops : stored[p] <= stored'[p]) /\ new.offset <= stored'[o]
    BY <1>1, <2>1, <2>2, <2>4 DEF AtLeast, TypeOK
  <2> HIDE DEF new
  <2>6. QED
    BY <1>1, <2>2, <2>3, <2>4, <2>5, CommitKeeps
<1>5. CASE FinishImport(w)
  <2> DEFINE new == Moved(view[w], "committed", "committed")
  <2>1. /\ new \in Row /\ new.offset <= stored[o]
        /\ new.state = "committed" /\ new.stage = "committed"
    BY <1>1, MovedTyped DEF State, Stage
  <2>2. Commit(w, new, "imported") /\ UNCHANGED <<stored, acked>> /\ view[w].offset = Batches[o]
    BY <1>5 DEF FinishImport, IsImported, Moved, gateway
  <2> HIDE DEF new
  <2>3. stored[o] = Batches[o]
    BY <1>1, <2>2
  <2>4. Imported(o)'
    BY <2>2, <2>3 DEF Imported, Commit
  <2>5. QED
    BY <1>1, <2>1, <2>2, <2>4, CommitKeeps
<1>6. CASE StartAck(w)
  <2> DEFINE new == Moved(view[w], "acknowledging", "acknowledging")
  <2>1. /\ new \in Row /\ new.offset <= stored[o]
        /\ new.state = "acknowledging" /\ new.stage = "acknowledging"
    BY <1>1, MovedTyped DEF State, Stage
  <2>2. Commit(w, new, "acknowledging") /\ UNCHANGED <<stored, acked>> /\ pc[w] = "imported"
    BY <1>6 DEF StartAck, At, Moved, gateway
  <2> HIDE DEF new
  <2>3. Imported(o)'
    BY <2>2 DEF Durable, CommittedIsImported, Imported, Commit
  <2>4. QED
    BY <1>1, <2>1, <2>2, <2>3, CommitKeeps
<1>7. CASE Complete(w)
  <2> DEFINE new == Moved(view[w], "completed", "completed")
  <2>1. /\ new \in Row /\ new.offset <= stored[o]
        /\ new.state = "completed" /\ new.stage = "completed"
    BY <1>1, MovedTyped DEF State, Stage
  <2>2. Commit(w, new, "releasing") /\ UNCHANGED <<stored, acked>>
    BY <1>7 DEF Complete, Moved, gateway
  <2> HIDE DEF new
  <2>3. QED
    BY <1>1, <2>1, <2>2, CommitKeeps
<1>8. QED
  BY <1>2, <1>3, <1>4, <1>5, <1>6, <1>7

\* A worker that stops processing, after a failure or not, changes no offset
\* and no stage.
LEMMA LeaveKeeps ==
    ASSUME TypeOK, Durable, NEW w \in Workers, Leave(w), UNCHANGED <<stored, acked>>,
           \A o \in Ops : /\ row'[o].offset = row[o].offset /\ row'[o].stage = row[o].stage
                         /\ row'[o].state \in {row[o].state, "failed_retryable", "failed_terminal"}
    PROVE  Durable'
<1>1. OffsetsAreDurable'
  BY DEF Durable, OffsetsAreDurable, Leave, TypeOK
<1>2. ASSUME NEW o \in Ops
      PROVE  /\ row'[o].state \in {"committed", "acknowledging"} => Imported(o)'
             /\ row'[o].stage \in {"committed", "acknowledging"} => Imported(o)'
  BY DEF Durable, CommittedIsImported, Imported
<1>3. ASSUME NEW v \in Workers, pc'[v] \in {"imported", "acknowledging"} PROVE Imported(job[v])'
  BY <1>3 DEF Durable, CommittedIsImported, Imported, Leave, TypeOK
<1>4. QED
  BY <1>1, <1>2, <1>3 DEF Durable, CommittedIsImported, Imported

\* Every step keeps what is durable ahead of what is claimed to be.
LEMMA DurableNext == TypeOK /\ TypeOK' /\ Durable /\ [Next]_vars => Durable'
<1> SUFFICES ASSUME TypeOK, TypeOK', Durable, [Next]_vars PROVE Durable'
  OBVIOUS
<1> USE DEF Durable, OffsetsAreDurable, CommittedIsImported, Imported
<1>1. ASSUME NEW o \in Ops, Create(o) PROVE Durable'
  BY <1>1 DEF Create, TypeOK, Absent, worker, gateway
<1>2. ASSUME NEW w \in Workers, NEW o \in Ops, Adopt(w, o) PROVE Durable'
  BY <1>2 DEF Adopt, TypeOK, Absent, gateway
<1>3. ASSUME NEW o \in Ops, Retry(o) PROVE Durable'
  BY <1>3 DEF Retry, RetryState, TypeOK, Row, worker, gateway
<1>4. ASSUME NEW o \in Ops, ExpireLease(o) PROVE Durable'
  BY <1>4 DEF ExpireLease, worker, gateway
<1>5. ASSUME NEW o \in Backlog \cup {None}, ReplaceSnapshot(o) PROVE Durable'
  BY <1>5 DEF ReplaceSnapshot, worker
<1>6. ASSUME NEW w \in Workers, NEW o \in Ops, Claim(w, o) PROVE Durable'
  BY <1>6 DEF Claim, IsAvailable, Resumable, EntryPoint, TypeOK, gateway
<1>7. ASSUME NEW w \in Workers, Fetch(w) \/ Acknowledge(w) PROVE Durable'
  <2>1. CASE Fetch(w)
    BY <1>7, <2>1 DEF Fetch, At, TypeOK, gateway
  <2>2. CASE Acknowledge(w)
    <3>1. Imported(job[w]) /\ acked' = acked \cup {job[w]}
      BY <2>2 DEF Acknowledge, At
    <3>2. QED
      BY <2>2, <3>1 DEF Acknowledge, TypeOK
  <2>3. QED
    BY <1>7, <2>1, <2>2
<1>8. ASSUME NEW w \in Workers, Yield(w) \/ Release(w) \/ Crash(w) PROVE Durable'
  BY <1>8, LeaveKeeps DEF Yield, Release, Crash, gateway
<1>9. ASSUME NEW w \in Workers, FailOnConflict(w) \/ FailForGood(w) \/ FailForNow(w) PROVE Durable'
  <2>1. PICK state \in {"failed_retryable", "failed_terminal"} : Fail(w, state)
    BY <1>9 DEF FailOnConflict, FailForGood, FailForNow
  <2>2. /\ job[w] \in Ops /\ row' = [row EXCEPT ![job[w]] = Failed(@, state)]
        /\ Leave(w) /\ UNCHANGED <<stored, acked>>
    BY <2>1 DEF Fail, Failed, TypeOK, gateway
  <2>3. \A r \in Row : /\ Failed(r, state).offset = r.offset /\ Failed(r, state).stage = r.stage
                       /\ Failed(r, state).state = state
    BY DEF Failed, Row
  <2>4. \A o \in Ops : /\ row'[o].offset = row[o].offset /\ row'[o].stage = row[o].stage
                       /\ row'[o].state \in {row[o].state, "failed_retryable", "failed_terminal"}
    BY <2>2, <2>3 DEF TypeOK
  <2>5. QED
    BY <2>2, <2>4, LeaveKeeps
<1>10. ASSUME NEW w \in Workers, Look(w) \/ AdoptNothing(w) PROVE Durable'
  BY <1>10 DEF Look, AdoptNothing, TypeOK, gateway
<1>11. CASE UNCHANGED vars
  BY <1>11 DEF vars, worker, gateway
<1>12. QED
  BY <1>1, <1>2, <1>3, <1>4, <1>5, <1>6, <1>7, <1>8, <1>9, <1>10, <1>11, CommitsKeep
  DEF Next, Adopting, Process, Ops

\* At the start nothing is stored, and no offset says otherwise.
LEMMA InitDurable == Init => Durable
BY ConstantsAssumption DEF Init, Durable, OffsetsAreDurable, CommittedIsImported, Absent

\* Records are acknowledged only once all of them are durable, and no offset is
\* ahead of them, however the workers interleave.
THEOREM Durability == Spec => [](AckedIsPersisted /\ OffsetIsPersisted)
<1>1. Durable => AckedIsPersisted /\ OffsetIsPersisted
  BY DEF Durable, OffsetsAreDurable, CommittedIsImported, Imported, AckedIsPersisted,
         OffsetIsPersisted
<1>2. QED
  BY <1>1, InitDurable, DurableNext, Typing, PTL DEF Spec

\* The batches become durable in order, without a gap, and then the operation
\* is acknowledged: what PersistThenAck promises.
THEOREM Refinement == Spec => PersistsThenAcks
<1>1. Init => Promise!Init
  BY DEF Init, Promise!Init
<1>2. TypeOK /\ Durable /\ [Next]_vars => [Promise!Next]_<<stored, acked>>
  <2> SUFFICES ASSUME TypeOK, Durable, [Next]_vars
               PROVE  Promise!Next \/ UNCHANGED <<stored, acked>>
    OBVIOUS
  <2>1. ASSUME NEW w \in Workers, PersistBatch(w)
        PROVE  Promise!Next \/ UNCHANGED <<stored, acked>>
    <3> DEFINE o == job[w]
               offset == view[w].offset + 1
    <3>1. /\ o \in Ops /\ stored[o] \in Nat /\ Batches[o] \in Nat /\ view[w].offset \in Nat
          /\ view[w].offset <= stored[o]
      BY <2>1, ConstantsAssumption
         DEF PersistBatch, At, TypeOK, Idle, Durable, OffsetsAreDurable, Row
    <3>2. /\ offset <= Batches[o] /\ acked' = acked
          /\ stored' = [stored EXCEPT ![o] = AtLeast(@, offset)]
      BY <2>1 DEF PersistBatch, gateway
    <3>3. CASE stored[o] >= offset
      BY <3>1, <3>2, <3>3 DEF AtLeast, TypeOK
    <3>4. CASE stored[o] < offset
      <4>1. stored[o] + 1 = offset /\ stored[o] < Batches[o]
        BY <3>1, <3>2, <3>4
      <4>2. AtLeast(stored[o], offset) = stored[o] + 1
        BY <3>1, <4>1 DEF AtLeast
      <4>3. stored' = [stored EXCEPT ![o] = @ + 1]
        BY <3>2, <4>2
      <4>4. QED
        BY <3>1, <3>2, <4>1, <4>3 DEF Promise!Next, Promise!Persist
    <3>5. QED
      BY <3>1, <3>3, <3>4
  <2>2. ASSUME NEW w \in Workers, Acknowledge(w) PROVE Promise!Next
    <3>1. /\ job[w] \in Ops /\ Imported(job[w])
          /\ acked' = acked \cup {job[w]} /\ stored' = stored
      BY <2>2 DEF Acknowledge, At, TypeOK, Idle, Durable, CommittedIsImported
    <3>2. QED
      BY <3>1 DEF Imported, Promise!Next, Promise!Acknowledge
  <2>3. ASSUME NEW w \in Workers,
               \/ Publish(w) \/ StartImport(w) \/ Fetch(w) \/ Yield(w) \/ FinishImport(w)
               \/ StartAck(w) \/ Complete(w) \/ Release(w) \/ FailOnConflict(w)
               \/ FailForGood(w) \/ FailForNow(w) \/ Crash(w)
               \/ Look(w) \/ AdoptNothing(w) \/ \E o \in Ops : Claim(w, o) \/ Adopt(w, o)
        PROVE  UNCHANGED <<stored, acked>>
    BY <2>3 DEF Publish, StartImport, Fetch, Yield, FinishImport, StartAck, Complete, Release,
       FailOnConflict, FailForGood, FailForNow, Fail, Crash, Look, AdoptNothing, Claim, Adopt,
       gateway
  <2>4. ASSUME NEW o \in Ops,
               Create(o) \/ Retry(o) \/ ExpireLease(o)
        PROVE  UNCHANGED <<stored, acked>>
    BY <2>4 DEF Create, Retry, ExpireLease, gateway
  <2>5. ASSUME NEW o \in Backlog \cup {None}, ReplaceSnapshot(o)
        PROVE  UNCHANGED <<stored, acked>>
    BY <2>5 DEF ReplaceSnapshot
  <2>6. CASE UNCHANGED vars
    BY <2>6 DEF vars, gateway
  <2>7. QED
    BY <2>1, <2>2, <2>3, <2>4, <2>5, <2>6 DEF Next, Adopting, Process, Ops
<1>3. QED
  BY <1>1, <1>2, InitDurable, DurableNext, Typing, PTL DEF Spec, PersistsThenAcks, Promise!Spec

-----------------------------------------------------------------------------
(* Workers whose leases outlive their work.                                *)
(*                                                                         *)
(* Nothing in the code asks who holds the claim before it writes: what     *)
(* keeps two workers apart is that a lease does not expire while its       *)
(* holder is at work.  Then the holder's copy of the row is the row.       *)

\* Whoever processes an operation holds its claim, alone.
Exclusive ==
    /\ \A w \in Workers : job[w] # None => claim[job[w]] = "leased"
    /\ OneWorkerEach

\* The holder's copy of the row is the row, and its offset counts the records.
InStep ==
    /\ \A o \in Ops : row[o].offset = stored[o]
    /\ \A w \in Workers : job[w] # None =>
          /\ view[w] = row[job[w]]
          /\ row[job[w]].state \in Resumable \cup {"completed"}

Importing  == {"publishing", "published", "fetching", "persisting", "yielding"}
PastCommit == {"committed", "acknowledging"}

\* No state, and no worker, would import an operation that is past its commit.
Onward ==
    /\ \A o \in Ops : row[o].state \in {"queued", "published", "central_importing"}
                        => row[o].stage \notin PastCommit
    /\ \A w \in Workers : pc[w] \in Importing => row[job[w]].stage \notin PastCommit

\* Only the holder expires with its lease; a claim is of an operation without one.
LEMMA ExclusiveNext ==
    ASSUME ~SlowWork, TypeOK, TypeOK', Exclusive, [Next]_vars
    PROVE  Exclusive'
<1> USE DEF Exclusive, OneWorkerEach
<1>1. CASE job' = job /\ claim' = claim
  BY <1>1
<1>2. ASSUME NEW o \in Ops, ExpireLease(o) PROVE Exclusive'
  BY <1>2 DEF ExpireLease, TypeOK, worker
<1>3. ASSUME NEW w \in Workers, NEW o \in Ops, Claim(w, o) PROVE Exclusive'
  BY <1>3 DEF Claim, IsAvailable, TypeOK
<1>4. ASSUME NEW w \in Workers, Leave(w), job[w] # None,
             claim' \in {claim, [claim EXCEPT ![job[w]] = "free"]}
      PROVE  Exclusive'
  BY <1>4 DEF Leave, TypeOK
<1>5. ASSUME NEW w \in Workers, Yield(w) \/ Release(w) \/ Crash(w) PROVE Exclusive'
  <2>1. job[w] # None
    BY <1>5 DEF Yield, Release, Crash, At, TypeOK, Idle
  <2>2. QED
    BY <1>4, <1>5, <2>1 DEF Yield, Release, Crash
<1>6. ASSUME NEW w \in Workers, FailOnConflict(w) \/ FailForGood(w) \/ FailForNow(w)
      PROVE  Exclusive'
  BY <1>4, <1>6 DEF FailOnConflict, FailForGood, FailForNow, Fail
<1>7. ASSUME NEW w \in Workers,
             \/ Publish(w) \/ StartImport(w) \/ Fetch(w) \/ PersistBatch(w)
             \/ FinishImport(w) \/ StartAck(w) \/ Acknowledge(w) \/ Complete(w)
             \/ Look(w) \/ AdoptNothing(w) \/ \E o \in Ops : Adopt(w, o)
      PROVE  job' = job /\ claim' = claim
  BY <1>7 DEF Publish, StartImport, Fetch, PersistBatch, FinishImport, StartAck, Acknowledge,
     Complete, Commit, Look, AdoptNothing, Adopt
<1>8. ASSUME NEW o \in Ops, Create(o) \/ Retry(o) PROVE job' = job /\ claim' = claim
  BY <1>8 DEF Create, Retry, worker
<1>9. ASSUME NEW o \in Backlog \cup {None}, ReplaceSnapshot(o) PROVE job' = job /\ claim' = claim
  BY <1>9 DEF ReplaceSnapshot, worker
<1>10. CASE UNCHANGED vars
  BY <1>10 DEF vars, worker
<1>11. QED
  BY <1>1, <1>2, <1>3, <1>5, <1>6, <1>7, <1>8, <1>9, <1>10 DEF Next, Adopting, Process, Ops

\* A worker that commits is at work on an operation.
LEMMA Busy ==
    ASSUME TypeOK, NEW w \in Workers,
           \/ Publish(w) \/ StartImport(w) \/ PersistBatch(w)
           \/ FinishImport(w) \/ StartAck(w) \/ Complete(w)
    PROVE  job[w] \in Ops /\ pc[w] \in Place
BY DEF TypeOK, Publish, StartImport, PersistBatch, FinishImport, StartAck, Complete, At,
       Place, Idle

\* What a commit of the only worker on an operation leaves behind.
Writes(w, new, next) ==
    /\ row' = [row EXCEPT ![job[w]] = new] /\ view' = [view EXCEPT ![w] = new]
    /\ pc' = [pc EXCEPT ![w] = next]
    /\ stored' = [stored EXCEPT ![job[w]] = new.offset]
    /\ job' = job /\ claim' = claim
    /\ new.state \in Resumable \cup {"completed"}
    /\ new.state \in {"queued", "published", "central_importing"} => new.stage \notin PastCommit
    /\ next \in Importing => new.stage \notin PastCommit
    /\ row[job[w]].stage \in PastCommit => new.stage \in PastCommit \cup {"completed"}

\* A copy that equals the row is written as it is.
LEMMA SoleWriter ==
    ASSUME TypeOK, InStep, NEW w \in Workers, pc[w] \in Place, NEW new \in Row, NEW next,
           Commit(w, new, next)
    PROVE  /\ row' = [row EXCEPT ![job[w]] = new] /\ view' = [view EXCEPT ![w] = new]
           /\ pc' = [pc EXCEPT ![w] = next] /\ job' = job
<1>1. job[w] \in Ops /\ job[w] # None /\ row[job[w]] \in Row /\ view[w] = row[job[w]]
  <2>1. job[w] \in Ops /\ row[job[w]] \in Row
    BY DEF TypeOK, Place, Idle
  <2>2. job[w] # None
    BY <2>1, ConstantsAssumption
  <2>3. QED
    BY <2>1, <2>2 DEF InStep
<1>2. \A r \in Row : Written(r, r, new) = new
  BY DEF Written, Row
<1>3. QED
  BY <1>1, <1>2 DEF Commit

\* Every commit of process() is such a write.
LEMMA Writing ==
    ASSUME TypeOK, InStep, Onward, NEW w \in Workers,
           \/ Publish(w) \/ StartImport(w) \/ PersistBatch(w)
           \/ FinishImport(w) \/ StartAck(w) \/ Complete(w)
    PROVE  \E new \in Row, next \in Place : Writes(w, new, next)
<1> DEFINE o == job[w]
<1>1. /\ o \in Ops /\ o # None /\ pc[w] \in Place
      /\ row[o] \in Row /\ view[w] = row[o] /\ view[w].offset = stored[o]
      /\ row[o].state \in Resumable \cup {"completed"}
  <2>1. o \in Ops /\ pc[w] \in Place /\ row[o] \in Row
    BY Busy DEF TypeOK
  <2>2. QED
    BY <2>1, ConstantsAssumption DEF InStep
<1>2. stored[o] \in Nat /\ stored = [stored EXCEPT ![o] = stored[o]]
  BY <1>1 DEF TypeOK
<1>3. pc[w] \in Importing => row[o].stage \notin PastCommit
  BY DEF Onward
<1>4. ASSUME NEW s \in {"published", "central_importing", "committed", "acknowledging", "completed"},
             NEW next \in Place, Commit(w, Moved(view[w], s, s), next),
             claim' = claim, stored' = stored,
             s \in {"published", "central_importing"} => pc[w] \in Importing,
             next \in Importing => s \notin PastCommit
      PROVE  \E new \in Row, n \in Place : Writes(w, new, n)
  <2> DEFINE new == Moved(view[w], s, s)
  <2>1. s \in State /\ s \in Stage /\ s \in Resumable \cup {"completed"}
    BY DEF State, Stage, Resumable
  <2>2. /\ new \in Row /\ new.offset = stored[o] /\ new.state = s /\ new.stage = s
    BY <1>1, <2>1, MovedTyped
  <2>3. Commit(w, new, next)
    BY <1>4
  <2> HIDE DEF new
  <2>4. /\ row' = [row EXCEPT ![o] = new] /\ view' = [view EXCEPT ![w] = new]
        /\ pc' = [pc EXCEPT ![w] = next] /\ job' = job
    BY <1>1, <2>2, <2>3, SoleWriter
  <2>5. stored' = [stored EXCEPT ![o] = new.offset]
    BY <1>2, <1>4, <2>2
  <2>6. Writes(w, new, next)
    BY <1>3, <1>4, <2>1, <2>2, <2>4, <2>5 DEF Writes, PastCommit
  <2>7. QED
    BY <1>4, <2>2, <2>6
<1>5. CASE Publish(w)
  BY <1>4, <1>5 DEF Publish, At, Moved, Importing, PastCommit, Place
<1>6. CASE StartImport(w)
  BY <1>4, <1>6 DEF StartImport, At, Moved, Importing, PastCommit, Place
<1>7. CASE FinishImport(w)
  BY <1>4, <1>7 DEF FinishImport, At, Moved, Importing, PastCommit, Place
<1>8. CASE StartAck(w)
  BY <1>4, <1>8 DEF StartAck, At, Moved, Importing, PastCommit, Place
<1>9. CASE Complete(w)
  BY <1>4, <1>9 DEF Complete, At, Moved, Importing, PastCommit, Place
<1>10. CASE PersistBatch(w)
  <2> DEFINE offset == stored[o] + 1
             new == Grown(view[w], "persisting", offset)
             next == AfterBatch(o, offset)
  <2>1. next \in Place /\ "persisting" \in Stage /\ "persisting" \notin PastCommit
    BY DEF AfterBatch, Place, Stage, PastCommit
  <2>2. /\ Commit(w, new, next) /\ claim' = claim /\ pc[w] = "persisting"
        /\ stored' = [stored EXCEPT ![o] = AtLeast(@, offset)]
    BY <1>1, <1>10 DEF PersistBatch, Grown, At
  <2>3. offset \in Nat /\ AtLeast(stored[o], offset) = offset
    BY <1>2 DEF AtLeast
  <2>4. stored' = [stored EXCEPT ![o] = offset]
    BY <2>2, <2>3
  <2> HIDE DEF offset, next
  <2>5. /\ new \in Row /\ new.offset = offset /\ new.state = view[w].state
        /\ new.stage = "persisting"
    BY <1>1, <2>1, <2>3, GrownTyped
  <2> HIDE DEF new
  <2>6. /\ row' = [row EXCEPT ![o] = new] /\ view' = [view EXCEPT ![w] = new]
        /\ pc' = [pc EXCEPT ![w] = next] /\ job' = job
    BY <1>1, <2>2, <2>5, SoleWriter
  <2>7. row[o].stage \notin PastCommit
    BY <1>3, <2>2 DEF Importing
  <2>8. Writes(w, new, next)
    BY <1>1, <2>1, <2>2, <2>4, <2>5, <2>6, <2>7 DEF Writes
  <2>9. QED
    BY <2>1, <2>5, <2>8
<1>11. QED
  BY <1>5, <1>6, <1>7, <1>8, <1>9, <1>10

\* What a worker that stops processing leaves behind.
Abandons(w) ==
    /\ Leave(w) /\ job[w] \in Ops /\ stored' = stored
    /\ claim' \in {claim, [claim EXCEPT ![job[w]] = "free"]}
    /\ \A o \in Ops : row'[o].offset = row[o].offset /\ row'[o].stage = row[o].stage
    /\ \A o \in Ops : o # job[w] => row'[o] = row[o]
    /\ row'[job[w]].state \in {row[job[w]].state, "failed_retryable", "failed_terminal"}

\* Every way to stop processing is such a step.
LEMMA Abandoning ==
    ASSUME TypeOK, NEW w \in Workers,
           \/ Yield(w) \/ Release(w) \/ Crash(w)
           \/ FailOnConflict(w) \/ FailForGood(w) \/ FailForNow(w)
    PROVE  Abandons(w) /\ overtaken' = overtaken
<1>1. CASE Yield(w) \/ Release(w) \/ Crash(w)
  <2>1. job[w] \in Ops
    BY <1>1 DEF Yield, Release, Crash, At, TypeOK, Idle
  <2>2. QED
    BY <1>1, <2>1 DEF Yield, Release, Crash, Abandons
<1>2. CASE FailOnConflict(w) \/ FailForGood(w) \/ FailForNow(w)
  <2>1. PICK state \in {"failed_retryable", "failed_terminal"} : Fail(w, state)
    BY <1>2 DEF FailOnConflict, FailForGood, FailForNow
  <2>2. /\ job[w] \in Ops /\ row' = [row EXCEPT ![job[w]] = Failed(@, state)]
        /\ claim' = [claim EXCEPT ![job[w]] = "free"]
        /\ Leave(w) /\ UNCHANGED <<stored, overtaken>>
    BY <2>1 DEF Fail, Failed, TypeOK, gateway
  <2>3. \A r \in Row : /\ Failed(r, state).offset = r.offset /\ Failed(r, state).stage = r.stage
                       /\ Failed(r, state).state = state
    BY DEF Failed, Row
  <2>4. row \in [Ops -> Row]
    BY DEF TypeOK
  <2>5. QED
    BY <2>2, <2>3, <2>4 DEF Abandons
<1>3. QED
  BY <1>1, <1>2

\* Nobody else writes the row of an operation that is being processed.
LEMMA InStepNext ==
    ASSUME TypeOK, TypeOK', Exclusive, InStep, Onward, [Next]_vars
    PROVE  InStep'
<1> USE DEF InStep
<1>1. ASSUME NEW o \in Ops, Create(o) \/ Retry(o) \/ \E w \in Workers : Adopt(w, o)
      PROVE  InStep'
  <2>1. /\ \A p \in Ops : row'[p].offset = row[p].offset
        /\ \A p \in Ops : p # o => row'[p] = row[p]
        /\ row[o].state \in {"absent", "failed_retryable"}
        /\ UNCHANGED <<job, view, stored>>
    <3>1. CASE Create(o)
      BY <3>1 DEF Create, TypeOK, Absent, Row, worker
    <3>2. CASE Retry(o)
      BY <3>2 DEF Retry, TypeOK, Row, worker
    <3>3. CASE \E w \in Workers : Adopt(w, o)
      BY <3>3 DEF Adopt, TypeOK, Absent, Row
    <3>4. QED
      BY <1>1, <3>1, <3>2, <3>3
  <2>2. \A w \in Workers : job[w] # o
    BY <2>1, ConstantsAssumption DEF Resumable
  <2>3. ASSUME NEW w \in Workers, job[w] # None
        PROVE  view[w] = row'[job[w]] /\ row'[job[w]].state \in Resumable \cup {"completed"}
    <3>1. job[w] \in Ops /\ job[w] # o
      BY <2>2, <2>3 DEF TypeOK
    <3>2. QED
      BY <2>1, <2>3, <3>1
  <2>4. QED
    BY <2>1, <2>3
<1>2. ASSUME NEW w \in Workers, NEW o \in Ops, Claim(w, o) PROVE InStep'
  BY <1>2 DEF Claim, IsAvailable, TypeOK
<1>3. ASSUME NEW w \in Workers, NEW new \in Row, NEW next \in Place, Writes(w, new, next),
             job[w] \in Ops
      PROVE  InStep'
  <2>1. \A o \in Ops : row'[o].offset = stored'[o]
    BY <1>3 DEF Writes, TypeOK
  <2>2. ASSUME NEW v \in Workers, job'[v] # None
        PROVE  view'[v] = row'[job'[v]] /\ row'[job'[v]].state \in Resumable \cup {"completed"}
    <3>1. CASE v = w
      BY <1>3, <2>2, <3>1 DEF Writes, TypeOK
    <3>2. CASE v # w
      <4>1. job[v] \in Ops /\ job[v] # job[w] /\ job'[v] = job[v] /\ view'[v] = view[v]
        BY <1>3, <2>2, <3>2, ConstantsAssumption DEF Writes, TypeOK, Exclusive, OneWorkerEach
      <4>2. row'[job[v]] = row[job[v]]
        BY <1>3, <4>1 DEF Writes, TypeOK
      <4>3. QED
        BY <2>2, <4>1, <4>2
    <3>3. QED
      BY <3>1, <3>2
  <2>3. QED
    BY <2>1, <2>2
<1>4. ASSUME NEW w \in Workers, Abandons(w) PROVE InStep'
  <2>1. \A o \in Ops : row'[o].offset = stored'[o]
    BY <1>4 DEF Abandons
  <2>2. ASSUME NEW v \in Workers, job'[v] # None
        PROVE  view'[v] = row'[job'[v]] /\ row'[job'[v]].state \in Resumable \cup {"completed"}
    <3>1. v # w /\ job'[v] = job[v] /\ view'[v] = view[v]
      BY <1>4, <2>2 DEF Abandons, Leave, TypeOK
    <3>2. job[v] \in Ops /\ job[v] # job[w]
      BY <2>2, <3>1 DEF TypeOK, Exclusive, OneWorkerEach
    <3>3. row'[job[v]] = row[job[v]]
      BY <1>4, <3>2 DEF Abandons
    <3>4. QED
      BY <2>2, <3>1, <3>3
  <2>3. QED
    BY <2>1, <2>2
<1>5. CASE UNCHANGED <<row, view, job, stored>>
  BY <1>5
<1>6. ASSUME NEW w \in Workers,
             \/ Publish(w) \/ StartImport(w) \/ PersistBatch(w)
             \/ FinishImport(w) \/ StartAck(w) \/ Complete(w)
      PROVE  InStep'
  BY <1>3, <1>6, Busy, Writing
<1>7. ASSUME NEW w \in Workers, Fetch(w) \/ Acknowledge(w) \/ Look(w) \/ AdoptNothing(w)
      PROVE  UNCHANGED <<row, view, job, stored>>
  BY <1>7 DEF Fetch, Acknowledge, Look, AdoptNothing
<1>8. ASSUME NEW o \in Ops, ExpireLease(o) PROVE UNCHANGED <<row, view, job, stored>>
  BY <1>8 DEF ExpireLease, worker
<1>9. ASSUME NEW o \in Backlog \cup {None}, ReplaceSnapshot(o)
      PROVE  UNCHANGED <<row, view, job, stored>>
  BY <1>9 DEF ReplaceSnapshot, worker
<1>10. CASE UNCHANGED vars
  BY <1>10 DEF vars, worker
<1>11. QED
  BY <1>1, <1>2, <1>4, <1>5, <1>6, <1>7, <1>8, <1>9, <1>10, Abandoning
  DEF Next, Adopting, Process, Ops

\* A step never takes an operation back behind its commit, and no worker that
\* would import it is ever at work on it.
LEMMA OnwardNext ==
    ASSUME TypeOK, TypeOK', Exclusive, InStep, Onward, [Next]_vars
    PROVE  /\ Onward'
           /\ \A o \in Ops : row[o].stage \in PastCommit
                                => row'[o].stage \in PastCommit \cup {"completed"}
<1> DEFINE Kept == \A o \in Ops : row[o].stage \in PastCommit
                                    => row'[o].stage \in PastCommit \cup {"completed"}
<1>1. ASSUME NEW o \in Ops, Create(o) \/ Retry(o) \/ \E w \in Workers : Adopt(w, o)
      PROVE  Onward' /\ Kept
  <2>1. /\ \A p \in Ops : p # o => row'[p] = row[p]
        /\ row[o].state \in {"absent", "failed_retryable"}
        /\ row[o].stage \in PastCommit => row'[o].stage = row[o].stage
        /\ row'[o].state \in {"queued", "published", "central_importing"}
             => row'[o].stage \notin PastCommit
        /\ job' = job /\ \A w \in Workers : pc'[w] \in Importing => pc'[w] = pc[w]
    <3>1. CASE Create(o)
      BY <3>1 DEF Create, TypeOK, Absent, Row, worker, PastCommit
    <3>2. CASE Retry(o)
      BY <3>2 DEF Retry, RetryState, TypeOK, Row, worker, PastCommit
    <3>3. CASE \E w \in Workers : Adopt(w, o)
      BY <3>3 DEF Adopt, TypeOK, Absent, Row, PastCommit, Importing
    <3>4. QED
      BY <1>1, <3>1, <3>2, <3>3
  <2>2. ASSUME NEW w \in Workers, pc'[w] \in Importing PROVE row'[job'[w]].stage \notin PastCommit
    <3>1. pc[w] \in Importing /\ job[w] \in Ops
      BY <2>1, <2>2 DEF Importing, TypeOK, Idle
    <3>2. job[w] # o
      BY <2>1, <3>1, ConstantsAssumption DEF InStep, Resumable
    <3>3. QED
      BY <2>1, <3>1, <3>2 DEF Onward
  <2>3. QED
    BY <2>1, <2>2 DEF Onward
<1>2. ASSUME NEW w \in Workers, NEW o \in Ops, Claim(w, o) PROVE Onward' /\ Kept
  BY <1>2 DEF Claim, EntryPoint, TypeOK, Importing, Onward
<1>3. ASSUME NEW w \in Workers, NEW new \in Row, NEW next \in Place, Writes(w, new, next),
             job[w] \in Ops
      PROVE  Onward' /\ Kept
  <2>1. \A o \in Ops : row'[o] = IF o = job[w] THEN new ELSE row[o]
    BY <1>3 DEF Writes, TypeOK
  <2>2. ASSUME NEW v \in Workers, pc'[v] \in Importing PROVE row'[job'[v]].stage \notin PastCommit
    <3>1. CASE v = w
      BY <1>3, <2>1, <2>2, <3>1 DEF Writes, TypeOK
    <3>2. CASE v # w
      <4>1. pc[v] \in Importing /\ job'[v] = job[v]
        BY <1>3, <2>2, <3>2 DEF Writes, TypeOK
      <4>2. job[v] \in Ops
        BY <4>1 DEF Importing, TypeOK, Idle
      <4>3. job[v] # job[w]
        BY <1>3, <3>2, <4>2, ConstantsAssumption DEF Exclusive, OneWorkerEach
      <4>4. QED
        BY <2>1, <4>1, <4>2, <4>3 DEF Onward
    <3>3. QED
      BY <3>1, <3>2
  <2>3. QED
    BY <1>3, <2>1, <2>2 DEF Onward, Writes
<1>4. ASSUME NEW w \in Workers, Abandons(w) PROVE Onward' /\ Kept
  <2>1. ASSUME NEW v \in Workers, pc'[v] \in Importing
        PROVE  pc[v] \in Importing /\ job'[v] = job[v] /\ job[v] \in Ops
    <3>1. v # w /\ pc'[v] = pc[v] /\ job'[v] = job[v]
      BY <1>4, <2>1 DEF Abandons, Leave, TypeOK, Importing
    <3>2. QED
      BY <2>1, <3>1 DEF Importing, TypeOK, Idle
  <2>2. \A o \in Ops : /\ row'[o].stage = row[o].stage
                       /\ row'[o].state \in {"queued", "published", "central_importing"}
                            => row'[o].state = row[o].state
    BY <1>4 DEF Abandons
  <2>3. QED
    BY <2>1, <2>2 DEF Onward
<1>5. ASSUME row' = row, job' = job, \A v \in Workers : pc'[v] \in Importing => pc[v] \in Importing
      PROVE  Onward' /\ Kept
  BY <1>5 DEF Onward
<1>6. ASSUME NEW w \in Workers, Fetch(w) \/ Acknowledge(w) \/ Look(w) \/ AdoptNothing(w)
      PROVE  Onward' /\ Kept
  <2>1. \A v \in Workers : pc'[v] \in Importing => pc[v] \in Importing
    BY <1>6 DEF Fetch, Acknowledge, Look, AdoptNothing, At, TypeOK, Importing
  <2>2. row' = row /\ job' = job
    BY <1>6 DEF Fetch, Acknowledge, Look, AdoptNothing
  <2>3. QED
    BY <1>5, <2>1, <2>2
<1>7. ASSUME NEW o \in Ops, ExpireLease(o) PROVE Onward' /\ Kept
  BY <1>5, <1>7 DEF ExpireLease, worker
<1>8. ASSUME NEW o \in Backlog \cup {None}, ReplaceSnapshot(o) PROVE Onward' /\ Kept
  BY <1>5, <1>8 DEF ReplaceSnapshot, worker
<1>9. CASE UNCHANGED vars
  BY <1>5, <1>9 DEF vars, worker
<1>10. ASSUME NEW w \in Workers,
             \/ Publish(w) \/ StartImport(w) \/ PersistBatch(w)
             \/ FinishImport(w) \/ StartAck(w) \/ Complete(w)
       PROVE  Onward' /\ Kept
  BY <1>3, <1>10, Busy, Writing
<1>11. QED
  BY <1>1, <1>2, <1>4, <1>6, <1>7, <1>8, <1>9, <1>10, Abandoning
  DEF Next, Adopting, Process, Ops

InTurn == Exclusive /\ InStep /\ Onward

\* At the start no worker has an operation.
LEMMA InitInTurn == Init => InTurn
BY ConstantsAssumption DEF Init, InTurn, Exclusive, OneWorkerEach, InStep, Onward, Absent,
   Importing, PastCommit

\* The three hold in every behaviour whose leases outlive the work.
LEMMA InTurnAlways == ASSUME ~SlowWork PROVE Spec => [](TypeOK /\ InTurn)
<1>1. TypeOK /\ TypeOK' /\ InTurn /\ [Next]_vars => InTurn'
  BY ExclusiveNext, InStepNext, OnwardNext DEF InTurn
<1>2. QED
  BY <1>1, InitInTurn, Typing, PTL DEF Spec

\* As long as no lease expires under its holder, no operation is processed by
\* two workers.
THEOREM WorkersKeepApart == ASSUME ~SlowWork PROVE Spec => []OneWorkerEach
<1>1. InTurn => OneWorkerEach
  BY DEF InTurn, Exclusive
<1>2. QED
  BY <1>1, InTurnAlways, PTL

\* And an import resumes at the first batch that is not durable, after any
\* crash, failure, yield or retry.
THEOREM ResumptionIsExact == ASSUME ~SlowWork PROVE Spec => []ResumesWhereItStopped
<1>1. TypeOK /\ InTurn => ResumesWhereItStopped
  <2> SUFFICES ASSUME TypeOK, InTurn, NEW w \in Workers, pc[w] \in {"fetching", "persisting"}
               PROVE  view[w].offset = stored[job[w]]
    BY DEF ResumesWhereItStopped
  <2>1. job[w] \in Ops
    BY DEF TypeOK, Idle
  <2>2. QED
    BY <2>1, ConstantsAssumption DEF InTurn, InStep
<1>2. QED
  BY <1>1, InTurnAlways, PTL

\* And whatever fails after the commit, no retry imports again.
THEOREM CommitIsFinal == ASSUME ~SlowWork PROVE Spec => CommittedIsFinal
<1>1. TypeOK /\ TypeOK' /\ InTurn /\ [Next]_vars
        => \A o \in Ops : row[o].stage \in {"committed", "acknowledging"}
             => row'[o].stage \in {"committed", "acknowledging", "completed"}
  BY OnwardNext DEF InTurn, PastCommit
<1>2. QED
  BY <1>1, InTurnAlways, PTL DEF Spec, CommittedIsFinal

-----------------------------------------------------------------------------
(* The backlog gives way: a batch of the backlog that overtakes a ready    *)
(* interactive operation uses up the place its worker had in flight.       *)

\* The workers that may still commit a batch of the backlog without claiming.
InFlight ==
    {w \in Workers : /\ job[w] \in Backlog /\ pc[w] \in Importing \ {"yielding"}
                     /\ view[w].offset < Batches[job[w]]}

\* What overtook an operation and what still may is bounded by the workers.
Bounded(i) ==
    /\ IsAvailable(i) => overtaken[i] + Cardinality(InFlight) <= Cardinality(Workers)
    /\ ~IsAvailable(i) => overtaken[i] = 0

GivesWay == \A i \in Interactive : Bounded(i)

\* The workers in flight can be counted.
LEMMA Counting ==
    /\ IsFiniteSet(InFlight) /\ Cardinality(InFlight) \in Nat /\ Cardinality(Workers) \in Nat
    /\ Cardinality(InFlight) <= Cardinality(Workers)
BY ConstantsAssumption, FS_Subset, FS_CardinalityType DEF InFlight

\* A step that puts nobody in flight and takes no availability away.
LEMMA Waiting ==
    ASSUME TypeOK, NEW i \in Interactive, Bounded(i), InFlight' \subseteq InFlight,
           overtaken'[i] = overtaken[i], IsAvailable(i) => IsAvailable(i)'
    PROVE  Bounded(i)'
<1>1. /\ Cardinality(InFlight') \in Nat /\ Cardinality(InFlight') <= Cardinality(InFlight)
      /\ overtaken[i] \in Nat /\ Cardinality(InFlight) \in Nat /\ Cardinality(Workers) \in Nat
      /\ Cardinality(InFlight) <= Cardinality(Workers)
  BY Counting, FS_Subset, FS_CardinalityType DEF TypeOK
<1>2. QED
  BY <1>1 DEF Bounded

\* A batch of the backlog lands its worker.
LEMMA BatchLands ==
    ASSUME TypeOK, InStep, GivesWay, NEW w \in Workers, PersistBatch(w), job[w] \in Backlog
    PROVE  InFlight' = InFlight \ {w} /\ w \in InFlight
<1>1. /\ view[w].offset \in Nat /\ Batches[job[w]] \in Nat /\ job[w] \in Ops
      /\ pc[w] = "persisting" /\ view[w].offset + 1 <= Batches[job[w]]
  BY ConstantsAssumption DEF PersistBatch, At, TypeOK, Row, Ops
<1>2. w \in InFlight
  BY <1>1 DEF InFlight, Importing
<1>3. /\ job' = job /\ \A v \in Workers \ {w} : pc'[v] = pc[v] /\ view'[v] = view[v]
      /\ pc'[w] = AfterBatch(job[w], view[w].offset + 1)
      /\ view'[w] = Grown(view[w], "persisting", view[w].offset + 1)
  BY DEF PersistBatch, Commit, TypeOK, Grown
<1>4. view'[w].offset = view[w].offset + 1
  <2>1. view[w] \in Row
    BY DEF TypeOK
  <2>2. \A r \in Row, n \in Nat : Grown(r, "persisting", n).offset = n
    BY DEF Grown, Row
  <2>3. QED
    BY <1>1, <1>3, <2>1, <2>2
<1>5. w \notin InFlight'
  BY <1>1, <1>3, <1>4 DEF InFlight, AfterBatch, Importing
<1>6. QED
  BY <1>2, <1>3, <1>5 DEF InFlight

\* The backlog is claimed only when no interactive operation is ready.
LEMMA ClaimYields ==
    ASSUME TypeOK, NEW w \in Workers, NEW o \in Backlog, Claim(w, o), NEW i \in Interactive
    PROVE  ~IsAvailable(i)
<1>1. i \in Ops \ {o} /\ o \notin Interactive
  BY ConstantsAssumption DEF Ops
<1>2. QED
  BY <1>1 DEF Claim, Precedes

\* Every step keeps the backlog within its bound.
LEMMA GivesWayNext ==
    ASSUME TypeOK, TypeOK', InTurn, GivesWay, [Next]_vars
    PROVE  GivesWay'
<1> USE DEF GivesWay
<1>1. ASSUME NEW o \in Ops,
             \/ Create(o) \/ Retry(o) \/ ExpireLease(o) \/ \E w \in Workers : Adopt(w, o)
      PROVE  GivesWay'
  <2>1. /\ InFlight' \subseteq InFlight /\ overtaken' = overtaken
        /\ \A i \in Interactive : IsAvailable(i) => IsAvailable(i)'
    <3>1. CASE Create(o)
      BY <3>1 DEF Create, TypeOK, worker, Absent, IsAvailable, Resumable, Ops, InFlight
    <3>2. CASE Retry(o)
      BY <3>2 DEF Retry, TypeOK, worker, IsAvailable, Resumable, Ops, InFlight
    <3>3. CASE ExpireLease(o)
      BY <3>3 DEF ExpireLease, TypeOK, worker, IsAvailable, Ops, InFlight
    <3>4. CASE \E w \in Workers : Adopt(w, o)
      BY <3>4 DEF Adopt, TypeOK, Absent, IsAvailable, Resumable, Ops, InFlight, Importing
    <3>5. QED
      BY <1>1, <3>1, <3>2, <3>3, <3>4
  <2>2. QED
    BY <2>1, Waiting
<1>2. ASSUME NEW w \in Workers, NEW o \in Ops, Claim(w, o) PROVE GivesWay'
  <2> SUFFICES ASSUME NEW i \in Interactive PROVE Bounded(i)'
    OBVIOUS
  <2>1. /\ row' = row /\ claim' = [claim EXCEPT ![o] = "leased"]
        /\ overtaken'[i] = IF i = o THEN 0 ELSE overtaken[i]
    BY <1>2 DEF Claim
  <2>2. CASE i = o
    BY <2>1, <2>2 DEF Bounded, IsAvailable, TypeOK
  <2>3. CASE i # o /\ o \in Backlog
    BY <1>2, <2>1, <2>3, ClaimYields DEF Bounded, IsAvailable, TypeOK, Ops
  <2>4. CASE i # o /\ o \in Interactive
    <3>1. InFlight' \subseteq InFlight
      BY <1>2, <2>4, ConstantsAssumption DEF Claim, InFlight, TypeOK
    <3>2. IsAvailable(i) => IsAvailable(i)'
      BY <2>1, <2>4 DEF IsAvailable, TypeOK, Ops
    <3>3. QED
      BY <2>1, <2>4, <3>1, <3>2, Waiting
  <2>5. QED
    BY <2>2, <2>3, <2>4 DEF Ops
<1>3. ASSUME NEW w \in Workers, Abandons(w), overtaken' = overtaken PROVE GivesWay'
  <2>1. InFlight' \subseteq InFlight
    BY <1>3 DEF Abandons, Leave, InFlight, Importing, TypeOK
  <2>2. ASSUME NEW i \in Interactive, IsAvailable(i) PROVE IsAvailable(i)'
    <3>1. i \in Ops /\ job[w] \in Ops /\ claim[job[w]] = "leased"
      BY <1>3, ConstantsAssumption DEF Abandons, InTurn, Exclusive, Ops
    <3>2. i # job[w]
      BY <2>2, <3>1 DEF IsAvailable
    <3>3. row'[i] = row[i] /\ claim'[i] = claim[i]
      BY <1>3, <3>1, <3>2 DEF Abandons, TypeOK
    <3>4. QED
      BY <2>2, <3>3 DEF IsAvailable
  <2>3. QED
    BY <1>3, <2>1, <2>2, Waiting
<1>4. ASSUME NEW w \in Workers,
             \/ Publish(w) \/ StartImport(w) \/ PersistBatch(w)
             \/ FinishImport(w) \/ StartAck(w) \/ Complete(w),
             NEW i \in Interactive
      PROVE  IsAvailable(i) <=> IsAvailable(i)'
  <2>1. PICK new \in Row, next \in Place : Writes(w, new, next)
    BY <1>4, Writing DEF InTurn
  <2>2. i \in Ops /\ job[w] \in Ops /\ claim[job[w]] = "leased" /\ claim' = claim
    BY <1>4, <2>1, Busy, ConstantsAssumption DEF Writes, InTurn, Exclusive, Ops
  <2>3. CASE i = job[w]
    BY <2>2, <2>3 DEF IsAvailable
  <2>4. CASE i # job[w]
    <3>1. row'[i] = row[i]
      BY <2>1, <2>2, <2>4 DEF Writes, TypeOK
    <3>2. QED
      BY <2>2, <3>1 DEF IsAvailable
  <2>5. QED
    BY <2>3, <2>4
<1>5. ASSUME NEW w \in Workers, PersistBatch(w) PROVE GivesWay'
  <2>1. CASE job[w] \in Interactive
    <3>1. overtaken' = overtaken
      BY <1>5, <2>1, ConstantsAssumption DEF PersistBatch, Overtaking, TypeOK
    <3>2. InFlight' \subseteq InFlight
      BY <1>5, <2>1, ConstantsAssumption DEF PersistBatch, Commit, InFlight, TypeOK
    <3>3. QED
      BY <1>4, <1>5, <3>1, <3>2, Waiting
  <2>2. CASE job[w] \in Backlog
    <3> SUFFICES ASSUME NEW i \in Interactive PROVE Bounded(i)'
      OBVIOUS
    <3>1. /\ InFlight' = InFlight \ {w} /\ w \in InFlight
      BY <1>5, <2>2, BatchLands DEF InTurn
    <3>2. Cardinality(InFlight') = Cardinality(InFlight) - 1
      BY <3>1, Counting, FS_RemoveElement
    <3>3. /\ Cardinality(InFlight) \in Nat /\ Cardinality(Workers) \in Nat
          /\ Cardinality(InFlight') \in Nat /\ overtaken[i] \in Nat
      BY <3>1, Counting, FS_Subset, FS_CardinalityType DEF TypeOK
    <3>4. overtaken'[i] = IF IsAvailable(i) /\ overtaken[i] <= Cardinality(Workers)
                          THEN overtaken[i] + 1 ELSE overtaken[i]
      BY <1>5, <2>2 DEF PersistBatch, Overtaking
    <3>5. IsAvailable(i) <=> IsAvailable(i)'
      BY <1>4, <1>5
    <3>6. CASE IsAvailable(i)
      <4>1. overtaken[i] + Cardinality(InFlight) <= Cardinality(Workers)
        BY <3>6 DEF Bounded
      <4>2. overtaken'[i] = overtaken[i] + 1
        BY <3>3, <3>4, <3>6, <4>1
      <4>3. overtaken'[i] + Cardinality(InFlight') <= Cardinality(Workers)
        BY <3>2, <3>3, <4>1, <4>2
      <4>4. QED
        BY <3>5, <3>6, <4>3 DEF Bounded
    <3>7. CASE ~IsAvailable(i)
      BY <3>4, <3>5, <3>7 DEF Bounded
    <3>8. QED
      BY <3>6, <3>7
  <2>3. QED
    BY <1>5, <2>1, <2>2, Busy DEF Ops
<1>6. ASSUME NEW w \in Workers,
             Publish(w) \/ StartImport(w) \/ FinishImport(w) \/ StartAck(w) \/ Complete(w)
      PROVE  GivesWay'
  <2>1. overtaken' = overtaken
    BY <1>6 DEF Publish, StartImport, FinishImport, StartAck, Complete
  <2>2. InFlight' \subseteq InFlight
    <3>1. /\ job' = job /\ \A v \in Workers \ {w} : pc'[v] = pc[v] /\ view'[v] = view[v]
          /\ pc'[w] \in {"published", "fetching"}
               => view'[w].offset = view[w].offset /\ pc[w] \in {"publishing", "published"}
          /\ pc'[w] \notin {"publishing", "persisting"}
      <4>1. CASE Publish(w)
        BY <4>1 DEF Publish, Commit, At, TypeOK, Row
      <4>2. CASE StartImport(w)
        BY <4>2 DEF StartImport, Commit, At, TypeOK, Row
      <4>3. CASE FinishImport(w) \/ StartAck(w) \/ Complete(w)
        BY <4>3 DEF FinishImport, StartAck, Complete, Commit, TypeOK
      <4>4. QED
        BY <1>6, <4>1, <4>2, <4>3
    <3>2. QED
      BY <3>1 DEF InFlight, Importing
  <2>3. QED
    BY <1>4, <1>6, <2>1, <2>2, Waiting
<1>7. ASSUME row' = row, claim' = claim, job' = job, view' = view, overtaken' = overtaken,
             \A v \in Workers : pc'[v] \in Importing \ {"yielding"} => pc[v] \in Importing \ {"yielding"}
      PROVE  GivesWay'
  <2>1. InFlight' \subseteq InFlight /\ \A i \in Interactive : IsAvailable(i) => IsAvailable(i)'
    BY <1>7 DEF InFlight, IsAvailable
  <2>2. QED
    BY <1>7, <2>1, Waiting
<1>8. ASSUME NEW w \in Workers, Fetch(w) \/ Acknowledge(w) \/ Look(w) \/ AdoptNothing(w)
      PROVE  GivesWay'
  <2>1. \A v \in Workers :
           pc'[v] \in Importing \ {"yielding"} => pc[v] \in Importing \ {"yielding"}
    BY <1>8 DEF Fetch, Acknowledge, Look, AdoptNothing, At, TypeOK, Importing
  <2>2. UNCHANGED <<row, claim, job, view, overtaken>>
    BY <1>8 DEF Fetch, Acknowledge, Look, AdoptNothing
  <2>3. QED
    BY <1>7, <2>1, <2>2
<1>9. ASSUME NEW o \in Backlog \cup {None}, ReplaceSnapshot(o) PROVE GivesWay'
  BY <1>7, <1>9 DEF ReplaceSnapshot, worker
<1>10. CASE UNCHANGED vars
  BY <1>7, <1>10 DEF vars, worker
<1>11. ASSUME NEW w \in Workers,
              \/ Yield(w) \/ Release(w) \/ Crash(w)
              \/ FailOnConflict(w) \/ FailForGood(w) \/ FailForNow(w)
       PROVE  GivesWay'
  BY <1>3, <1>11, Abandoning
<1>12. QED
  BY <1>1, <1>2, <1>5, <1>6, <1>8, <1>9, <1>10, <1>11 DEF Next, Adopting, Process, Ops

\* As long as no lease expires under its holder, a ready interactive operation
\* is overtaken by no more backlog batches than there are workers.
THEOREM BacklogIsBounded == ASSUME ~SlowWork PROVE Spec => []BacklogGivesWay
<1>1. Init => GivesWay
  <2>1. InFlight \subseteq Workers
    BY DEF InFlight
  <2>2. QED
    BY <2>1, Counting DEF Init, GivesWay, Bounded, IsAvailable, Absent, Resumable, Ops
<1>2. TypeOK /\ GivesWay => BacklogGivesWay
  <2> SUFFICES ASSUME TypeOK, NEW i \in Interactive, Bounded(i)
               PROVE  overtaken[i] <= Cardinality(Workers)
    BY DEF GivesWay, BacklogGivesWay
  <2>1. Cardinality(InFlight) \in Nat /\ Cardinality(Workers) \in Nat /\ overtaken[i] \in Nat
    BY Counting DEF TypeOK
  <2>2. QED
    BY <2>1 DEF Bounded
<1>3. QED
  BY <1>1, <1>2, GivesWayNext, InTurnAlways, PTL DEF Spec
=============================================================================
