------------------------------ MODULE MispDelivery ------------------------------
(***************************************************************************)
(* Delivery of threat events to MISP: the requests of router.py (one event *)
(* of the intelligence page, a batch, and the older endpoint) over         *)
(* MISPClient.send_event.  MISP is another program; events and attributes  *)
(* have UUIDs made from the platform's own ids, and MISP refuses a UUID it *)
(* already holds.                                                          *)
(*                                                                         *)
(* Abstraction.  The attributes of an event are the indicators MISP takes, *)
(* told apart by type and lower-case value: so the client compares them,   *)
(* and their UUID is made of that.  An id without an event is None.        *)
(* MaxFaults and MaxRequests are bounds.                                   *)
(***************************************************************************)
EXTENDS Naturals, FiniteSets, Functions

CONSTANTS Events, Attributes, Requests, None, MaxFaults, MaxRequests

VARIABLES
    event,     \* the attributes each event has in the database
    misp,      \* the attributes MISP holds of each event
    req,       \* a request: its step, the events it was read with, what it sends
    audit,     \* the audit log, as a set of entries
    started, faults

vars == <<event, misp, req, audit, started, faults>>

Idle  == [step |-> "idle", kind |-> "one", id |-> 0, left |-> {}, read |-> <<>>, on |-> None,
          expected |-> {}, pending |-> {}, disturbed |-> FALSE]
Running(q) == req[q].step \notin {"idle", "next"}

TypeOK ==
    /\ \A e \in Events : event[e] # None => event[e] \subseteq Attributes
    /\ \A e \in Events : misp[e] # None => misp[e] \subseteq Attributes
    /\ \A q \in Requests :
        /\ req[q].step \in {"idle", "next", "find", "create", "post", "verify"}
        /\ req[q].left \subseteq Events /\ req[q].pending \subseteq req[q].expected
        /\ Running(q) => req[q].on \in Events
    /\ \A a \in audit : a.on \in Events /\ a.id \in 1..started
    /\ started \in 0..MaxRequests /\ faults \in 0..MaxFaults

Init ==
    /\ event \in [Events -> {None, {}}] /\ misp = [e \in Events |-> None]
    /\ req = [q \in Requests |-> Idle] /\ audit = {} /\ started = 0 /\ faults = 0

Fault == faults < MaxFaults /\ faults' = faults + 1

-----------------------------------------------------------------------------
\* The pipeline, or a reviewer, changes the indicators of an event.
Change(e, a) ==
    /\ event[e] # None
    /\ event' = [event EXCEPT ![e] = IF a \in @ THEN @ \ {a} ELSE @ \cup {a}]
    /\ UNCHANGED <<misp, req, audit, started, faults>>

\* All the events of a request are read at its start.
Begin(q, kind, ids) ==
    /\ req[q].step = "idle" /\ started < MaxRequests /\ started' = started + 1
    /\ kind # "batch" => Cardinality(ids) = 1 /\ \A e \in ids : event[e] # None
    /\ req' = [req EXCEPT ![q] = [Idle EXCEPT !.step = "next", !.kind = kind, !.id = started + 1,
                                              !.left = ids, !.read = Restrict(event, ids)]]
    /\ UNCHANGED <<event, misp, audit, faults>>

\* The requests that are at the same event learn of a step of request q.
Disturbing(q) ==
    [r \in Requests |-> [req[r] EXCEPT !.disturbed =
        @ \/ (r # q /\ Running(r) /\ req[r].on = req[q].on)]]

\* An entry is committed with the outcome of its event; the older endpoint
\* leaves none when the delivery fails.
Outcome(q, e, status) ==
    /\ audit' = audit \cup IF req[q].kind = "older" /\ status # "delivered" THEN {} ELSE
                   {[on |-> e, id |-> req[q].id, status |-> status, sent |-> req[q].expected]}
    /\ req' = [Disturbing(q) EXCEPT ![q] =
                  IF req[q].left = {} THEN Idle
                  ELSE [@ EXCEPT !.step = "next", !.on = None, !.expected = {}, !.pending = {}]]

Take(q, e) ==
    /\ req[q].step = "next" /\ e \in req[q].left
    /\ req[q].read[e] # None /\ (req[q].read[e] # {} \/ req[q].kind = "older")
    /\ req' = [req EXCEPT ![q].step = "find", ![q].left = @ \ {e}, ![q].on = e,
                          ![q].expected = req[q].read[e],
                          ![q].disturbed = \E r \in Requests : Running(r) /\ req[r].on = e]
    /\ UNCHANGED <<event, misp, audit, started, faults>>

\* The event is unknown, or nothing of it can be sent.
Skip(q, e) ==
    /\ req[q].step = "next" /\ e \in req[q].left /\ req[q].kind # "older"
    /\ req[q].read[e] \in {None, {}}
    /\ audit' = audit \cup {[on |-> e, id |-> req[q].id, status |-> "skipped", sent |-> {}]}
    /\ req' = [req EXCEPT ![q] = IF @.left = {e} THEN Idle
                               ELSE [@ EXCEPT !.left = req[q].left \ {e}]]
    /\ UNCHANGED <<event, misp, started, faults>>

\* Mutation: an event that is there is taken for an empty one.
Missing_All(expected, held) == expected

\* The attributes that MISP did not hold when it was asked for the event.
Missing(expected, held) == expected \ held

\* restSearch for the UUID of the event.
Find(q) ==
    /\ req[q].step = "find"
    /\ LET held == misp[req[q].on] IN
       req' = IF held = None THEN [req EXCEPT ![q].step = "create"]
              ELSE [req EXCEPT ![q].step = "post",
                               ![q].pending = Missing(req[q].expected, held)]
    /\ UNCHANGED <<event, misp, audit, started, faults>>

\* One call of MISP by request q: MISP refuses it or does what it was asked.
Failed(q) == Outcome(q, req[q].on, "failed")

Create(q) ==
    /\ req[q].step = "create"
    /\ IF misp[req[q].on] = None
       THEN /\ misp' = [misp EXCEPT ![req[q].on] = {}]
            /\ req' = [Disturbing(q) EXCEPT ![q].step = "post", ![q].pending = req[q].expected]
            /\ UNCHANGED audit
       ELSE Failed(q) /\ UNCHANGED misp
    /\ UNCHANGED <<event, started, faults>>

Post(q, a) ==
    /\ req[q].step = "post" /\ a \in req[q].pending
    /\ IF a \notin misp[req[q].on]
       THEN /\ misp' = [misp EXCEPT ![req[q].on] = @ \cup {a}]
            /\ req' = [Disturbing(q) EXCEPT ![q].pending = @ \ {a}] /\ UNCHANGED audit
       ELSE Failed(q) /\ UNCHANGED misp
    /\ UNCHANGED <<event, started, faults>>

\* MISP answers that it took the attribute, and did not keep it.
Discard(q, a) ==
    /\ req[q].step = "post" /\ a \in req[q].pending /\ Fault
    /\ req' = [req EXCEPT ![q].pending = @ \ {a}, ![q].disturbed = TRUE]
    /\ UNCHANGED <<event, misp, audit, started>>

Posted(q) ==
    /\ req[q].step = "post" /\ req[q].pending = {}
    /\ req' = [req EXCEPT ![q].step = "verify"]
    /\ UNCHANGED <<event, misp, audit, started, faults>>

\* A call fails before or after MISP did what it was asked.
CallFails(q) ==
    /\ Running(q) /\ Fault /\ Failed(q)
    /\ \/ UNCHANGED misp
       \/ /\ req[q].step = "create" /\ misp[req[q].on] = None
          /\ misp' = [misp EXCEPT ![req[q].on] = {}]
       \/ \E a \in req[q].pending : misp' = [misp EXCEPT ![req[q].on] = @ \cup {a}]
    /\ UNCHANGED <<event, started>>

\* Mutation: an event that was accepted counts as complete.
Complete_Accepted(expected, stored) == TRUE

\* The event is read back.
Complete(expected, stored) == expected \subseteq stored

Verify(q) ==
    /\ req[q].step = "verify"
    /\ Outcome(q, req[q].on, IF Complete(req[q].expected, misp[req[q].on])
                             THEN "delivered" ELSE "failed")
    /\ UNCHANGED <<event, misp, started, faults>>

\* The backend stops: the entry of the event under way was not committed.
Dies(q) ==
    /\ req[q].step # "idle" /\ Fault
    /\ req' = [req EXCEPT ![q] = Idle] /\ UNCHANGED <<event, misp, audit, started>>

Next ==
    \/ \E e \in Events, a \in Attributes : Change(e, a)
    \/ \E q \in Requests :
        \/ \E kind \in {"one", "batch", "older"}, ids \in (SUBSET Events) \ {{}} : Begin(q, kind, ids)
        \/ \E e \in Events : Take(q, e) \/ Skip(q, e)
        \/ \E a \in Attributes : Post(q, a) \/ Discard(q, a)
        \/ Find(q) \/ Create(q) \/ Posted(q) \/ CallFails(q) \/ Verify(q) \/ Dies(q)

Spec == Init /\ [][Next]_vars

-----------------------------------------------------------------------------
(***************************************************************************)
(* What the audit log calls delivered is in MISP, all that was sent of it, *)
(* whoever delivered the event at the same time, whatever was lost and     *)
(* whatever MISP dropped.                                                  *)
(***************************************************************************)
DeliveredIsStored ==
    \A a \in audit : a.status = "delivered" => misp[a.on] # None /\ a.sent \subseteq misp[a.on]

(***************************************************************************)
(* A delivery can be repeated: it fails only if a call of its own failed,  *)
(* or another request was at the same event while it ran.  What an earlier *)
(* one left in MISP, complete or not, is no reason (the UUIDs are made     *)
(* from the ids so that a repeat adds what is missing).                    *)
(***************************************************************************)
RepeatIsIdempotent ==
    [][\A q \in Requests :
        (\E a \in audit' \ audit : a.id = req[q].id /\ a.status = "failed")
            => req[q].disturbed \/ faults' # faults]_vars

=============================================================================
