---------------------------- MODULE ManualPreviews ----------------------------
(***************************************************************************)
(* The approval of a manual source (manual_preview_service.py and the      *)
(* handlers of integration/api.py).  A preview is kept in SQLite with a    *)
(* time to live.  A request to approve claims it, queues a job that        *)
(* registers the source, and remembers its answer under the idempotency key*)
(* of the caller; a request to reject decides at once.                     *)
(*                                                                         *)
(* Abstraction.  A transaction of the store is one step.  The key of a     *)
(* request belongs to its preview and kind.  One clean-up reaches every    *)
(* row that is due (50 at most in the code).  MaxClock and MaxFaults are   *)
(* bounds.                                                                 *)
(***************************************************************************)
EXTENDS Naturals, FiniteSets

CONSTANTS Previews, Requests, Ttl, MaxClock, MaxFaults, None

Decisions == {"approve", "reject"}

VARIABLES
    now,
    row,        \* manual_url_previews: state and expiry of each preview
    request,    \* a request: its step, decision and preview
    job,        \* the job a request queued
    cache,      \* InMemoryIdempotencyStore: the request that was remembered
    registered, \* history: how many times the source of a preview was registered
    faults

vars == <<now, row, request, job, cache, registered, faults>>

States   == {"none", "pending", "approving", "approved", "rejected", "expired"}
NoAsk    == [step |-> "new", decision |-> "approve", preview |-> None]
Keys     == Decisions \X Previews

TypeOK ==
    /\ now \in 0..MaxClock /\ faults \in 0..MaxFaults
    /\ row \in [Previews -> [state : States, expires : 0..(MaxClock + Ttl)]]
    /\ request \in [Requests -> [step : {"new", "claim", "enqueue", "release", "remember",
                                         "answered", "replayed", "refused", "lost"},
                                 decision : Decisions, preview : Previews \cup {None}]]
    /\ job \in [Requests -> {"none", "queued", "running", "committed", "done", "failed"}]
    /\ cache \in [Keys -> Requests \cup {None}]
    /\ registered \in [Previews -> 0..Cardinality(Requests)]

Init ==
    /\ now = 0 /\ row = [p \in Previews |-> [state |-> "none", expires |-> 0]]
    /\ request = [r \in Requests |-> NoAsk] /\ job = [r \in Requests |-> "none"]
    /\ cache = [k \in Keys |-> None] /\ registered = [p \in Previews |-> 0] /\ faults = 0

Fault == faults < MaxFaults /\ faults' = faults + 1

-----------------------------------------------------------------------------
(* The store.                                                              *)

Due(p) == row[p].expires <= now

\* _cleanup: what is due is expired, also what is being approved.
Cleaned ==
    [p \in Previews |->
        IF row[p].state \in {"pending", "approving"} /\ Due(p)
        THEN [row[p] EXCEPT !.state = "expired"] ELSE row[p]]

\* A decision is taken of a pending preview only.
Decidable(p) == Cleaned[p].state = "pending" /\ ~Due(p)

\* _decide; an old preview ends up expired whatever it was before.
Decided(p, ok, state) ==
    CASE Decidable(p) /\ ok                   -> [Cleaned EXCEPT ![p].state = state]
      [] Due(p) /\ Cleaned[p].state # "none"  -> [Cleaned EXCEPT ![p].state = "expired"]
      [] OTHER                                -> Cleaned

Create(p) ==
    /\ row[p].state = "none"
    /\ row' = [Cleaned EXCEPT ![p] = [state |-> "pending", expires |-> now + Ttl]]
    /\ UNCHANGED <<now, request, job, cache, registered, faults>>

Tick ==
    /\ now < MaxClock /\ now' = now + 1
    /\ UNCHANGED <<row, request, job, cache, registered, faults>>

-----------------------------------------------------------------------------
(* A request.                                                              *)

\* _cached: a key that was remembered is answered without a decision.
Ask(r, d, p) ==
    /\ request[r].step = "new" /\ row[p].state # "none"
    /\ request' = [request EXCEPT ![r] =
          [step |-> IF cache[<<d, p>>] # None THEN "replayed" ELSE "claim",
           decision |-> d, preview |-> p]]
    /\ UNCHANGED <<now, row, job, cache, registered, faults>>

\* claim_approval or reject; "ok" is that the hash, or the reason, is right.
Claim(r, ok) ==
    LET p == request[r].preview
    IN  /\ request[r].step = "claim"
        /\ \/ /\ request[r].decision = "approve" /\ row' = Decided(p, ok, "approving")
              /\ request' = [request EXCEPT ![r].step =
                    IF Decidable(p) /\ ok THEN "enqueue" ELSE "refused"]
           \/ /\ request[r].decision = "reject" /\ row' = Decided(p, ok, "rejected")
              /\ request' = [request EXCEPT ![r].step =
                    IF Decidable(p) /\ ok THEN "remember" ELSE "refused"]
        /\ UNCHANGED <<now, job, cache, registered, faults>>

Enqueue(r) ==
    /\ request[r].step = "enqueue"
    /\ job' = [job EXCEPT ![r] = "queued"]
    /\ request' = [request EXCEPT ![r].step = "remember"]
    /\ UNCHANGED <<now, row, cache, registered, faults>>

EnqueueFails(r) ==
    /\ request[r].step = "enqueue" /\ Fault
    /\ request' = [request EXCEPT ![r].step = "release"]
    /\ UNCHANGED <<now, row, job, cache, registered>>

\* release_approval.
Release(r) ==
    LET p == request[r].preview
    IN  /\ request[r].step = "release"
        /\ row' = IF row[p].state = "approving"
                  THEN [row EXCEPT ![p].state = IF Due(p) THEN "expired" ELSE "pending"]
                  ELSE row
        /\ request' = [request EXCEPT ![r].step = "refused"]
        /\ UNCHANGED <<now, job, cache, registered, faults>>

Remember(r) ==
    /\ request[r].step = "remember"
    /\ cache' = [cache EXCEPT ![<<request[r].decision, request[r].preview>>] = r]
    /\ request' = [request EXCEPT ![r].step = "answered"]
    /\ UNCHANGED <<now, row, job, registered, faults>>

-----------------------------------------------------------------------------
(* The job: approve_claimed.                                               *)

Start(r) ==
    /\ job[r] = "queued" /\ job' = [job EXCEPT ![r] = "running"]
    /\ UNCHANGED <<now, row, request, cache, registered, faults>>

\* commit_preview saves the root.
Commit(r) ==
    /\ job[r] = "running" /\ job' = [job EXCEPT ![r] = "committed"]
    /\ registered' = [registered EXCEPT ![request[r].preview] = @ + 1]
    /\ UNCHANGED <<now, row, request, cache, faults>>

\* The commit raises, or the job is cancelled in the queue: nothing is released.
JobFails(r) ==
    /\ job[r] \in {"queued", "running"} /\ Fault /\ job' = [job EXCEPT ![r] = "failed"]
    /\ UNCHANGED <<now, row, request, cache, registered>>

\* mark_approved: only what is still being approved.
MarkApproved(r) ==
    LET p == request[r].preview
    IN  /\ job[r] = "committed" /\ job' = [job EXCEPT ![r] = "done"]
        /\ row' = IF row[p].state = "approving" THEN [row EXCEPT ![p].state = "approved"] ELSE row
        /\ UNCHANGED <<now, request, cache, registered, faults>>

\* The collector restarts: jobs, requests and remembered answers are in memory.
Restart ==
    /\ Fault /\ cache' = [k \in Keys |-> None]
    /\ job' = [r \in Requests |-> IF job[r] \in {"queued", "running", "committed"}
                                  THEN "failed" ELSE job[r]]
    /\ request' = [r \in Requests |->
          IF request[r].step \in {"claim", "enqueue", "release", "remember"}
          THEN [request[r] EXCEPT !.step = "lost"] ELSE request[r]]
    /\ UNCHANGED <<now, row, registered>>

Next ==
    \/ Tick \/ Restart
    \/ \E p \in Previews : Create(p)
    \/ \E r \in Requests, d \in Decisions, p \in Previews : Ask(r, d, p)
    \/ \E r \in Requests, ok \in BOOLEAN : Claim(r, ok)
    \/ \E r \in Requests : Enqueue(r) \/ EnqueueFails(r) \/ Release(r) \/ Remember(r)
    \/ \E r \in Requests : Start(r) \/ Commit(r) \/ JobFails(r) \/ MarkApproved(r)

Spec == Init /\ [][Next]_vars

-----------------------------------------------------------------------------
(* Properties.                                                             *)

Live(r) == job[r] \in {"queued", "running", "committed"}

\* However requests, the clock, failures and restarts interleave, one decision
\* is taken of a preview: its source is registered at most once, by the one job
\* there is for it, and never once it was rejected.
OneDecision == \A p \in Previews :
    /\ registered[p] + Cardinality({r \in Requests :
            request[r].preview = p /\ job[r] \in {"queued", "running"}}) <= 1
    /\ row[p].state \in {"pending", "rejected"} =>
            registered[p] = 0 /\ \A r \in Requests : request[r].preview = p => ~Live(r)
    /\ row[p].state = "approved" => registered[p] = 1

\* A preview whose source was registered is shown as approved in the end, not as
\* one that expired before anyone decided.
RegisteredIsApproved == \A p \in Previews :
    registered[p] > 0 /\ (\A r \in Requests : request[r].preview = p => ~Live(r)) =>
        row[p].state = "approved"
=============================================================================
