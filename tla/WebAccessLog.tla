---------------------------- MODULE WebAccessLog ----------------------------
(***************************************************************************)
(* The web-access log of the VPS Gateway and the backend pulls that drain  *)
(* it.  The middleware of infra/vps/gateway/app.py admits a request only   *)
(* while the log has room for its event, and appends the event when the    *)
(* response is sent.  A pull (pipeline_service.run_security_sensor_api)    *)
(* reads pages from the checkpoint stored in PostgreSQL, commits their     *)
(* records, then commits the new checkpoint in a second transaction.  The  *)
(* first request of the NEXT pull acknowledges that checkpoint, and the    *)
(* Gateway compacts the log up to it.                                      *)
(*                                                                         *)
(* The Gateway is one event loop in one process: a handler that does not   *)
(* await is one step.  Pulls run in the backend's threads and interleave   *)
(* at each of their HTTP requests and transactions.                        *)
(*                                                                         *)
(* Abstractions.  An event is its absolute index, and its size.  A cursor, *)
(* signed by the Gateway, is the offset it encodes, and no checkpoint is   *)
(* offset 0.  Sizes in the file and in a page are the same number.         *)
(***************************************************************************)
EXTENDS Integers, Sequences

CONSTANTS
    Pullers,        \* pulls that may run at the same time
    EventBytes,     \* encoded sizes of an event
    HeaderBytes,    \* size of the {"_gateway_web_base_offset": n} line
    Reservation,    \* WEB_LOG_RESERVATION_BYTES
    MaxBytes,       \* max_web_log_bytes
    Legacy,         \* logs an earlier version left: sequences of end positions
    Limit,          \* page_size of a pull
    PageBytes,      \* WEB_PAGE_MAX_BYTES
    PullBytes,      \* internal_sensor_max_bytes, for all the pages of a pull
    MaxPages,       \* internal_sensor_max_pages
    MaxEvents,      \* bound on the events of a behaviour
    Failures        \* requests, transactions, appends and processes may fail

At(positions, n) == IF n = 0 THEN 0 ELSE positions[n]

\* Every event takes at least HeaderBytes.
IsLog(positions) ==
    /\ positions \in Seq(Nat)
    /\ \A m, n \in 0..Len(positions) :
           m < n => At(positions, m) + HeaderBytes <= At(positions, n)

ASSUME ConstantsAssumption ==
    /\ HeaderBytes \in Nat \ {0} /\ Reservation \in Nat
    /\ EventBytes \subseteq HeaderBytes..Reservation
    /\ MaxBytes \in Nat /\ PageBytes \in Nat /\ PullBytes \in Nat
    /\ Limit \in Nat \ {0} /\ MaxPages \in Nat \ {0} /\ MaxEvents \in Nat
    /\ \A positions \in Legacy : IsLog(positions)
    /\ Failures \in BOOLEAN

VARIABLES
    written,    \* written[n]: bytes of the first n events the log ever held
    base,       \* the events before it have been compacted away
    reserved,   \* reserved_bytes of the middleware, in memory
    stored,     \* indices of the events committed as raw items
    checkpoint, \* Source.config["checkpoint"]
    pc,         \* where each pull stands
    from,       \* the cursor a pull started from
    upto,       \* the checkpoint of the last page a pull has read
    bytes,      \* response_bytes of a pull
    pages       \* pages a pull has read

gateway == <<written, base, reserved>>
central == <<stored, checkpoint>>
pull    == <<pc, from, upto, bytes, pages>>
vars    == <<written, base, reserved, stored, checkpoint, pc, from, upto, bytes, pages>>

End  == Len(written)
Size == At(written, End) - At(written, base) + (IF base > 0 THEN HeaderBytes ELSE 0)

TypeOK ==
    /\ written \in Seq(Nat) /\ base \in 0..End
    /\ reserved \in Nat
    /\ stored \subseteq 0..(End - 1)
    /\ checkpoint \in 0..End
    /\ pc \in [Pullers -> {"idle", "started", "paging", "fetched", "recorded"}]
    /\ from \in [Pullers -> 0..End] /\ upto \in [Pullers -> 0..End]
    /\ bytes \in [Pullers -> Nat] /\ pages \in [Pullers -> 0..MaxPages]

Init ==
    /\ written \in Legacy \cup {<<>>}
    /\ base = 0 /\ reserved = 0
    /\ stored = {} /\ checkpoint = 0
    /\ pc = [p \in Pullers |-> "idle"]
    /\ from = [p \in Pullers |-> 0] /\ upto = [p \in Pullers |-> 0]
    /\ bytes = [p \in Pullers |-> 0] /\ pages = [p \in Pullers |-> 0]

-----------------------------------------------------------------------------
(* The Gateway's middleware. *)

\* Mutation: the requests in flight are forgotten.
HasRoom_IgnoresReserved == Size + Reservation <= MaxBytes

HasRoom == Size + reserved + Reservation <= MaxBytes

\* __call__ up to the call of the application.  A request for which there is
\* no room is answered 503, which changes nothing.
Admit ==
    /\ HasRoom
    /\ reserved' = reserved + Reservation
    /\ reserved' + End * Reservation <= MaxEvents * Reservation     \* bound
    /\ UNCHANGED <<written, base, central, pull>>

\* _append_web_event, and the release of the reservation that follows it.
Fits(size) == Size + size <= MaxBytes

AppendEvent(size) ==
    /\ reserved > 0
    /\ Fits(size)
    /\ written' = Append(written, At(written, End) + size)
    /\ reserved' = reserved - Reservation
    /\ UNCHANGED <<base, central, pull>>

\* The append is refused (503) or raises: the event is not in the log.
LoseEvent ==
    /\ reserved > 0
    /\ Failures \/ \E size \in EventBytes : ~Fits(size)
    /\ reserved' = reserved - Reservation
    /\ UNCHANGED <<written, base, central, pull>>

\* The file survives a restart of the process.
RestartGateway ==
    /\ Failures
    /\ reserved # 0 /\ reserved' = 0
    /\ UNCHANGED <<written, base, central, pull>>

-----------------------------------------------------------------------------
(* A pull, and the Gateway's answers to it. *)

\* Mutation: an off-by-one: the oldest retained cursor is refused.
IsRetained_Strict(offset) == offset \in (base + 1)..End

\* _web_page and _compact_web_log accept a cursor inside the retained log.
IsRetained(offset) == offset \in base..End

\* _web_page: the longest prefix within both limits, and never an empty one.
InPage(start, n) ==
    /\ n - start <= Limit
    /\ n <= start + 1 \/ At(written, n) - At(written, start) <= PageBytes

EndsPage(start, end) ==
    /\ end \in start..End /\ InPage(start, end)
    /\ \A n \in start..End : InPage(start, n) => n <= end

PageSize(start, end) == At(written, end) - At(written, start)

\* fetch after a page: go on, or stop at the end or at max_pages.
AfterPage(end, number) == IF end < End /\ number < MaxPages THEN "paging" ELSE "fetched"

\* run_security_sensor_api reads the checkpoint.
Begin(p) ==
    /\ pc[p] = "idle"
    /\ pc' = [pc EXCEPT ![p] = "started"]
    /\ from' = [from EXCEPT ![p] = checkpoint]
    /\ upto' = [upto EXCEPT ![p] = checkpoint]
    /\ bytes' = [bytes EXCEPT ![p] = 0] /\ pages' = [pages EXCEPT ![p] = 0]
    /\ UNCHANGED <<gateway, central>>

\* Mutation: the acknowledgement covers the page about to be read.
Acknowledged_Page(p) == CHOOSE end \in from[p]..End : EndsPage(from[p], end)

\* Mutation: the acknowledgement compacts nothing.
Acknowledged_None(p) == base

\* The offset the first request acknowledges: its own cursor.
Acknowledged(p) == from[p]

\* The first request: compaction, then the first page.
FirstPage(p) ==
    /\ pc[p] = "started"
    /\ IsRetained(from[p])
    /\ base' = Acknowledged(p)
    /\ \E end \in from[p]..End :
          /\ EndsPage(from[p], end)
          /\ PageSize(from[p], end) <= PullBytes
          /\ upto' = [upto EXCEPT ![p] = end]
          /\ bytes' = [bytes EXCEPT ![p] = PageSize(from[p], end)]
          /\ pc' = [pc EXCEPT ![p] = AfterPage(end, 1)]
    /\ pages' = [pages EXCEPT ![p] = 1]
    /\ UNCHANGED <<written, reserved, central, from>>

\* A later request.
NextPage(p) ==
    /\ pc[p] = "paging"
    /\ IsRetained(upto[p])
    /\ \E end \in upto[p]..End :
          /\ EndsPage(upto[p], end)
          /\ bytes[p] + PageSize(upto[p], end) <= PullBytes
          /\ upto' = [upto EXCEPT ![p] = end]
          /\ bytes' = [bytes EXCEPT ![p] = @ + PageSize(upto[p], end)]
          /\ pc' = [pc EXCEPT ![p] = AfterPage(end, pages[p] + 1)]
    /\ pages' = [pages EXCEPT ![p] = @ + 1]
    /\ UNCHANGED <<gateway, central, from>>

\* A page that would exceed max_bytes is not kept: the batch is partial.
StopAtBytes(p) ==
    /\ pc[p] = "paging"
    /\ IsRetained(upto[p])
    /\ \E end \in upto[p]..End :
          EndsPage(upto[p], end) /\ bytes[p] + PageSize(upto[p], end) > PullBytes
    /\ pc' = [pc EXCEPT ![p] = "fetched"]
    /\ UNCHANGED <<gateway, central, from, upto, bytes, pages>>

\* The Gateway answers 409, or the first page alone exceeds max_bytes (the
\* compaction has been done then): the pull raises and stores nothing.
Reject(p) ==
    /\ \/ pc[p] = "started" /\ ~IsRetained(from[p]) /\ UNCHANGED base
       \/ pc[p] = "paging" /\ ~IsRetained(upto[p]) /\ UNCHANGED base
       \/ /\ pc[p] = "started" /\ IsRetained(from[p])
          /\ \E end \in from[p]..End :
                EndsPage(from[p], end) /\ PageSize(from[p], end) > PullBytes
          /\ base' = Acknowledged(p)
    /\ pc' = [pc EXCEPT ![p] = "idle"]
    /\ UNCHANGED <<written, reserved, central, from, upto, bytes, pages>>

\* _run_internal_records commits the raw items of all the pages.
CommitRecords(p) ==
    /\ pc[p] = "fetched"
    /\ stored' = stored \cup from[p]..(upto[p] - 1)
    /\ pc' = [pc EXCEPT ![p] = "recorded"]
    /\ UNCHANGED <<gateway, checkpoint, from, upto, bytes, pages>>

\* Mutation: the checkpoint is committed with the raw items still uncommitted.
CommitCheckpoint_Early(p) ==
    /\ pc[p] \in {"fetched", "recorded"}
    /\ checkpoint' = upto[p]
    /\ pc' = [pc EXCEPT ![p] = "idle"]
    /\ UNCHANGED <<gateway, stored, from, upto, bytes, pages>>

\* The second commit of run_security_sensor_api.
CommitCheckpoint(p) ==
    /\ pc[p] = "recorded"
    /\ checkpoint' = upto[p]
    /\ pc' = [pc EXCEPT ![p] = "idle"]
    /\ UNCHANGED <<gateway, stored, from, upto, bytes, pages>>

\* A request or a commit fails, or the backend stops.  An answer lost on the
\* way back is FirstPage followed by this.
Abort(p) ==
    /\ Failures
    /\ pc[p] # "idle"
    /\ pc' = [pc EXCEPT ![p] = "idle"]
    /\ UNCHANGED <<gateway, central, from, upto, bytes, pages>>

-----------------------------------------------------------------------------

PullerStep(p) ==
    \/ Begin(p) \/ FirstPage(p) \/ NextPage(p) \/ StopAtBytes(p) \/ Reject(p)
    \/ CommitRecords(p) \/ CommitCheckpoint(p) \/ Abort(p)

Next ==
    \/ Admit \/ LoseEvent \/ RestartGateway
    \/ \E size \in EventBytes : AppendEvent(size)
    \/ \E p \in Pullers : PullerStep(p)

Spec == Init /\ [][Next]_vars

\* Pulls keep being requested, and no part of a pull fails for ever.  An
\* admitted request is eventually answered.
Fairness ==
    /\ SF_vars(LoseEvent \/ \E size \in EventBytes : AppendEvent(size))
    /\ \A p \in Pullers :
           /\ SF_vars(Begin(p)) /\ SF_vars(FirstPage(p))
           /\ SF_vars(NextPage(p)) /\ SF_vars(StopAtBytes(p)) /\ SF_vars(Reject(p))
           /\ SF_vars(CommitRecords(p)) /\ SF_vars(CommitCheckpoint(p))

FairSpec == Spec /\ Fairness

-----------------------------------------------------------------------------
(* Properties. *)

\* The Gateway never compacts an event away before the backend has committed
\* it, however pulls interleave and wherever they or the Gateway stop.
PrunedWasStored == \A n \in 0..(base - 1) : n \in stored

\* A request that was admitted never finds the log too full for its event,
\* even when a compaction or other appends come between.
RoomForAppend == reserved > 0 => Size + Reservation <= MaxBytes

\* The next pull can resume: the stored checkpoint is inside the log.
CheckpointIsRetained == checkpoint \in base..End

\* Every event that reached the log is eventually committed.
EveryEventIsStored == \A n \in 0..(MaxEvents - 1) : n < End ~> n \in stored

\* A full log does not stay full: admission resumes once pulls drain it.
AdmissionResumes == []<>HasRoom
=============================================================================
