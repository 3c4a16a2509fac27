----------------------------- MODULE FeedRead -----------------------------
(***************************************************************************)
(* A read of the external feed, from the Gateway's files to the import     *)
(* that is acknowledged (external_feed in infra/vps/gateway/app.py, fetch  *)
(* in http_connector.py, run_external_feed and acknowledge_external_feed   *)
(* in pipeline_service.py).  The Gateway answers page by page, from a      *)
(* cache, under the checkpoint of the delivery state; publications, stops  *)
(* of either side and other reads come in between.                         *)
(*                                                                         *)
(* Abstraction.  The digest of a body is the body.  What a merge retains   *)
(* is GatewayFeed's subject: a publication leaves any of Snapshots.  A     *)
(* batch of the import is one item; one worker reads.  MaxStamp and        *)
(* MaxFaults are bounds.                                                   *)
(***************************************************************************)
EXTENDS Naturals, Sequences, SequencesExt

CONSTANTS Snapshots, Batches, BatchItems, None, PageSize, MaxPages, MaxStamp, MaxFaults

VARIABLES
    file,       \* the body that each path holds
    known,      \* the checkpoint the delivery state has for it
    cache,      \* the bodies in memory, by checkpoint
    etag,       \* the validator the backend sends when it looks for a snapshot
    ops,        \* the ingestion operations
    read,       \* the read under way
    stamp,      \* the last generated_at
    delivered,  \* history: what was imported under an acknowledged checkpoint
    faults

vars == <<file, known, cache, etag, ops, read, stamp, delivered, faults>>

Snapshot == "snapshot"
Paths    == Batches \cup {Snapshot}
Body(items, n) == [items |-> items, stamp |-> n]
Bodies   == {Body(s, n) : s \in Snapshots \cup {BatchItems[b] : b \in Batches}, n \in 1..MaxStamp}
NoRead   == [step |-> "idle", op |-> 0, path |-> None, tag |-> None, got |-> <<>>, pages |-> 0]

TypeOK ==
    /\ \A p \in Paths : file[p] # None => file[p] \in Bodies
    /\ \A p \in Paths : known[p] # None => known[p] \in Bodies
    /\ DOMAIN cache \subseteq Bodies
    /\ \A i \in DOMAIN ops : /\ ops[i].path \in Paths /\ ops[i].done \in 0..Len(ops[i].items)
                             /\ ops[i].state \in {"open", "committed", "completed", "failed"}
    /\ read.step \in {"idle", "page", "import"} /\ read.pages \in 0..MaxPages
    /\ read.op \in 0..Len(ops)
    /\ stamp \in 0..MaxStamp /\ faults \in 0..MaxFaults

Init ==
    /\ file = [p \in Paths |-> None] /\ known = file /\ cache = <<>> /\ etag = None
    /\ ops = <<>> /\ read = NoRead /\ stamp = 0 /\ delivered = {} /\ faults = 0

Fault == faults < MaxFaults /\ faults' = faults + 1

-----------------------------------------------------------------------------
(* The Gateway.                                                            *)

Cached(body, content) ==
    cache' = [t \in DOMAIN cache \cup {body} |-> IF t = body THEN content ELSE cache[t]]

\* A legacy publication: the files one after the other, then the cache.  The
\* state it writes has no batches.
PublishLegacy(items, whole) ==
    LET body == Body(items, stamp + 1) IN
    /\ stamp < MaxStamp /\ stamp' = stamp + 1 /\ file' = [file EXCEPT ![Snapshot] = body]
    /\ IF whole
       THEN /\ known' = [p \in Paths |-> IF p = Snapshot THEN body ELSE None]
            /\ Cached(body, body) /\ UNCHANGED faults
       ELSE Fault /\ UNCHANGED <<known, cache>>
    /\ UNCHANGED <<etag, ops, read, delivered>>

\* The state of the batches, when it is written, has the digest of the snapshot
\* that is there; one that had it keeps it.
WithBatches == IF \E b \in Batches : known[b] # None THEN known
               ELSE [known EXCEPT ![Snapshot] = file[Snapshot]]

\* A batch that is known is not written again, and the answer is cached as it
\* came; its operation begins with the checkpoint of the answer.
PublishBatch(b, whole) ==
    LET body  == Body(BatchItems[b], stamp + 1)
        first == known[b] = None
        tag   == IF first THEN body ELSE known[b]
    IN
    /\ stamp < MaxStamp /\ stamp' = stamp + 1
    /\ file' = IF first THEN [file EXCEPT ![b] = body] ELSE file
    /\ IF whole
       THEN /\ known' = IF first THEN [WithBatches EXCEPT ![b] = body] ELSE known
            /\ Cached(tag, body)
            /\ ops' = Append(ops, [path |-> b, tag |-> tag, items |-> <<>>, done |-> 0, state |-> "open"])
            /\ UNCHANGED faults
       ELSE first /\ Fault /\ UNCHANGED <<known, cache, ops>>
    /\ UNCHANGED <<etag, read, delivered>>

\* A batch is served while the delivery state lists it.
IsServed(p) == file[p] # None /\ (p \in Batches => known[p] # None)

\* The checkpoint of the state, if it has one for the path.
Tag(p) == IF known[p] # None THEN known[p] ELSE file[p]

Payload(p) == IF Tag(p) \in DOMAIN cache THEN cache[Tag(p)] ELSE file[p]

\* A page after what the read has; its cursor holds for one checkpoint.
Page(p) ==
    LET items == Payload(p).items
        last  == Len(read.got) + PageSize
    IN SubSeq(items, Len(read.got) + 1, IF last < Len(items) THEN last ELSE Len(items))
HasMore(p) == Len(read.got) + PageSize < Len(Payload(p).items)
CursorHolds(p) == read.pages = 0 \/ read.tag = Tag(p)

Restart ==
    /\ Fault /\ cache # <<>> /\ cache' = <<>>
    /\ UNCHANGED <<file, known, etag, ops, read, stamp, delivered>>

-----------------------------------------------------------------------------
(* The backend.                                                            *)

\* A worker takes up an operation, or looks for a snapshot to adopt.
Begin(i) ==
    /\ read.step = "idle"
    /\ IF i = 0 THEN TRUE ELSE ops[i].state = "open"
    /\ read' = [NoRead EXCEPT !.step = "page", !.op = i,
                              !.path = IF i = 0 THEN Snapshot ELSE ops[i].path]
    /\ UNCHANGED <<file, known, cache, etag, ops, stamp, delivered, faults>>

Leave(changed) == read' = NoRead /\ ops' = changed

Ended(state) == IF read.op = 0 THEN ops ELSE [ops EXCEPT ![read.op].state = state]

\* One request.  The first one of a search for a snapshot is conditional.
NotModified ==
    /\ read.step = "page" /\ read.op = 0 /\ read.pages = 0 /\ IsServed(Snapshot)
    /\ etag = Tag(Snapshot) /\ Leave(ops)
    /\ UNCHANGED <<file, known, cache, etag, stamp, delivered, faults>>

\* 404, 422 for a cursor of another checkpoint, or too many pages: an operation
\* fails for good.
ReadFails ==
    /\ read.step = "page"
    /\ \/ ~IsServed(read.path)
       \/ ~CursorHolds(read.path)
       \/ read.pages = MaxPages
    /\ Leave(Ended("failed"))
    /\ UNCHANGED <<file, known, cache, etag, stamp, delivered, faults>>

\* A snapshot whose checkpoint has no operation yet gets one.
Adopted(tag, items) ==
    IF \E i \in DOMAIN ops : ops[i].tag = tag THEN ops
    ELSE Append(ops, [path |-> Snapshot, tag |-> tag, items |-> <<>>, done |-> 0, state |-> "open"])

\* After the last page the checkpoint is compared with the operation's.
ReadPage ==
    LET p == read.path
        got == read.got \o Page(p)
    IN
    /\ read.step = "page" /\ IsServed(p) /\ CursorHolds(p) /\ read.pages < MaxPages
    /\ read.op = 0 /\ read.pages = 0 => etag # Tag(p)
    /\ IF Tag(p) \in DOMAIN cache THEN UNCHANGED cache
       ELSE cache' = [t \in {Tag(p)} |-> file[p]]
    /\ IF HasMore(p)
       THEN read' = [read EXCEPT !.tag = Tag(p), !.got = got, !.pages = @ + 1] /\ UNCHANGED ops
       ELSE IF read.op = 0 THEN Leave(Adopted(Tag(p), got))
       ELSE IF ops[read.op].tag # Tag(p) THEN Leave(Ended("failed"))
       ELSE read' = [read EXCEPT !.step = "import", !.tag = Tag(p), !.got = got] /\ UNCHANGED ops
    /\ UNCHANGED <<file, known, etag, stamp, delivered, faults>>

\* Mutation: a page more, a batch less.
From_Next(op) == op.done + 2

\* The import goes on where it stopped.
From(op) == op.done + 1

\* One batch and its offset.  A backlog operation then gives way to others, and
\* is read again from the start.
Import ==
    LET op == ops[read.op] IN
    /\ read.step = "import" /\ op.done < Len(read.got)
    /\ ops' = [ops EXCEPT ![read.op].done = @ + 1,
          ![read.op].items = IF From(op) <= Len(read.got) THEN Append(@, read.got[From(op)]) ELSE @]
    /\ read' = IF op.path = Snapshot /\ op.done + 1 < Len(read.got) THEN NoRead ELSE read
    /\ UNCHANGED <<file, known, cache, etag, stamp, delivered, faults>>

Commit ==
    /\ read.step = "import" /\ ops[read.op].done >= Len(read.got) /\ Leave(Ended("committed"))
    /\ UNCHANGED <<file, known, cache, etag, stamp, delivered, faults>>

\* The Gateway takes an acknowledgement of the bytes it has, or of the batch as
\* its state has it.
IsCurrent(op) ==
    IF op.path = Snapshot THEN op.tag = file[Snapshot] ELSE op.tag = known[op.path]

\* A legacy acknowledgement, too, writes a state without batches.  After a 409
\* the operation can be retried, from here.
Acknowledge(i) ==
    /\ ops[i].state = "committed" /\ IsCurrent(ops[i])
    /\ known' = IF ops[i].path # Snapshot THEN known
                ELSE [p \in Paths |-> IF p = Snapshot THEN file[p] ELSE None]
    /\ etag' = ops[i].tag /\ ops' = [ops EXCEPT ![i].state = "completed"]
    /\ delivered' = delivered \cup {[items |-> ops[i].items, tag |-> ops[i].tag]}
    /\ UNCHANGED <<file, cache, read, stamp, faults>>

\* The Gateway does not know the batch: 404.
AcknowledgeFails(i) ==
    /\ ops[i].state = "committed" /\ ~IsServed(ops[i].path)
    /\ ops' = [ops EXCEPT ![i].state = "failed"]
    /\ UNCHANGED <<file, known, cache, etag, read, stamp, delivered, faults>>

\* A request fails or the worker stops: what is committed stays.
Stop ==
    /\ read.step # "idle" /\ Fault /\ Leave(ops)
    /\ UNCHANGED <<file, known, cache, etag, stamp, delivered>>

Next ==
    \/ \E whole \in BOOLEAN : \/ \E s \in Snapshots : PublishLegacy(s, whole)
                              \/ \E b \in Batches : PublishBatch(b, whole)
    \/ \E i \in 0..Len(ops) : Begin(i)
    \/ \E i \in DOMAIN ops : Acknowledge(i) \/ AcknowledgeFails(i)
    \/ Restart \/ NotModified \/ ReadFails \/ ReadPage \/ Import \/ Commit \/ Stop

Spec == Init /\ [][Next]_vars

-----------------------------------------------------------------------------
(***************************************************************************)
(* What the Gateway was acknowledged is what was imported: all of that     *)
(* body and nothing else, although its pages were read in several          *)
(* requests, again for each batch, while the feed was published, its       *)
(* publisher interrupted and the Gateway restarted.                        *)
(***************************************************************************)
AckedIsTheBody == \A d \in delivered : d.items = d.tag.items

=============================================================================
