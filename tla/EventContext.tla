----------------------------- MODULE EventContext -----------------------------
(***************************************************************************)
(* What raises the risk of an event beyond its own text                    *)
(* (services/pipeline_service.py): the events it is correlated with, the   *)
(* sources that have its indicators, and what the NVD says of its CVEs.    *)
(* Events are imported again meanwhile, enrichments ask the NVD while      *)
(* other requests go on, and what one calculates another may change before *)
(* it is committed.                                                        *)
(*                                                                         *)
(* Abstraction.  Of two texts that are similar the model has only whether  *)
(* they are, and of the answer of the NVD whether it gives a CVSS score.   *)
(* MaxLookups is a limit of the code; MaxChanges bounds imports and failed *)
(* lookups together.                                                       *)
(***************************************************************************)
EXTENDS Naturals, FiniteSets, Sequences, SequencesExt, TLC

CONSTANTS
    Events,           \* numbers, for the order of their identifiers
    Values, Cves,     \* indicators of different types; those that are CVEs, in order
    Source,           \* [event -> its source]
    Indicators,       \* [event -> its indicators at the start]
    Similar,          \* pairs of events (sets) with similar texts
    InNvd,            \* the CVEs that the NVD has
    Requests, MaxLookups, MaxChanges

VARIABLES
    has,      \* the indicators of an event
    rows,     \* rows of correlations
    nvd,      \* rows of enrichments: the status of an event's CVE
    context,  \* what its risk was last calculated from
    stale,    \* history: events whose context changed beside the last calculation
    req,      \* enrichments and correlations under way; history: sure
    changes

vars == <<has, rows, nvd, context, stale, req, changes>>

Pairs   == {p \in SUBSET Events : Cardinality(p) = 2}
Status  == {"completed", "not_found", "failed"}
Idle    == [step |-> "idle", event |-> 0, todo |-> <<>>, found |-> <<>>, rows |-> {}, risks |-> <<>>,
            sure |-> {}]
Alone   == [sources |-> 1, links |-> 0, cvss |-> FALSE]

TypeOK ==
    /\ has \in [Events -> SUBSET Values]
    /\ \A r \in rows : r.a \in Events /\ r.b \in Events /\ r.type \in Values \cup {"text_similarity"}
    /\ \A n \in nvd : n.cve \in has[n.event] /\ n.status \in Status
    /\ \A e \in Events : context[e].sources >= 1
    /\ \A q \in Requests : req[q].step \in {"idle", "asking", "calculated"} /\ Len(req[q].found) <= MaxLookups
    /\ changes \in 0..MaxChanges

Init ==
    /\ has = Indicators /\ rows = {} /\ nvd = {}
    /\ context = [e \in Events |-> Alone] /\ stale = Events
    /\ req = [q \in Requests |-> Idle] /\ changes = 0

Change == changes < MaxChanges /\ changes' = changes + 1

-----------------------------------------------------------------------------
(* _recalculate_risk_scores.                                               *)

SourcesOf(indicators, e) == {Source[f] : f \in {g \in Events : g = e \/ indicators[g] \cap indicators[e] # {}}}

Links(correlations, e) == {r \in correlations : e \in {r.a, r.b}}

HasScore(enrichments, e) == \E n \in enrichments : n.event = e /\ n.status = "completed"

Context(indicators, correlations, enrichments, e) ==
    [sources |-> Cardinality(SourcesOf(indicators, e)),
     links   |-> Cardinality(Links(correlations, e)),
     cvss    |-> HasScore(enrichments, e)]

\* Of the events given, on the rows as they are with those of the request, which
\* nobody else sees before it commits; a risk that is as it was is not written.
Recalculate(q, S, correlations, enrichments) ==
    LET now(e) == Context(has, correlations, enrichments, e) IN
    req' = [req EXCEPT ![q].step = "calculated", ![q].rows = correlations \ rows, ![q].sure = S,
                       ![q].risks = [e \in {x \in S : now(x) # context[x]} |-> now(e)]]

\* What has changed beside a request: its calculation has to be taken as stale.
WithoutSure(S) == [q \in Requests |-> [req[q] EXCEPT !.sure = @ \ S]]

Noted(q) ==
    {n \in nvd : n.event # req[q].event \/ \A f \in ToSet(req[q].found) : f.cve # n.cve}
       \cup {[event |-> req[q].event, cve |-> f.cve, status |-> f.status] : f \in ToSet(req[q].found)}

\* The events that the rows of a request are about, and those whose risk it writes.
Touched(q) ==
    UNION {{r.a, r.b} : r \in req[q].rows} \cup (IF req[q].found = <<>> THEN {} ELSE {req[q].event})
       \cup DOMAIN req[q].risks

\* Of two that write one event's row, either may be the first.
Commit(q) ==
    /\ req[q].step = "calculated" /\ req' = [WithoutSure(Touched(q)) EXCEPT ![q] = Idle]
    /\ rows' = rows \cup req[q].rows /\ nvd' = Noted(q)
    /\ context' = req[q].risks @@ context
    /\ stale' = (stale \cup Touched(q)) \ req[q].sure
    /\ UNCHANGED <<has, changes>>

-----------------------------------------------------------------------------
(* Correlations.                                                           *)

\* upsert_correlation: the identifiers are sorted, so that a pair has one row
\* of a type.
Row(first, second, type) ==
    IF first < second THEN [a |-> first, b |-> second, type |-> type]
    ELSE [a |-> second, b |-> first, type |-> type]

Matches(ids) ==
    UNION {{Row(ids[i], ids[j], v) : v \in has[ids[i]] \cap has[ids[j]]}
             \cup (IF {ids[i], ids[j]} \in Similar THEN {Row(ids[i], ids[j], "text_similarity")} ELSE {}) :
               <<i, j>> \in {p \in (DOMAIN ids) \X (DOMAIN ids) : p[1] < p[2]}}

\* Of some events, in any order, or of all; a row stays when it does not match
\* any more.  A row that another request is inserting is waited for, and then
\* refuses this one (uq_correlation).
Correlate(q, ids) ==
    /\ req[q].step = "idle" /\ Len(ids) >= 2
    /\ \A p \in Requests : req[p].rows \cap Matches(ids) = {}
    /\ Recalculate(q, ToSet(ids), rows \cup Matches(ids), nvd)
    /\ UNCHANGED <<has, rows, nvd, context, stale, changes>>

-----------------------------------------------------------------------------
(* Enrichments.                                                            *)

CvesOf(e) == SelectSeq(Cves, LAMBDA v : v \in has[e])
IsAsked(e, v, refresh) ==
    refresh \/ ~\E n \in nvd : n.event = e /\ n.cve = v /\ n.status \in {"completed", "not_found"}

\* The first of the CVEs that are not settled, and no more of them.
Todo(e, refresh) ==
    LET asked == SelectSeq(CvesOf(e), LAMBDA v : IsAsked(e, v, refresh))
    IN SubSeq(asked, 1, IF Len(asked) < MaxLookups THEN Len(asked) ELSE MaxLookups)

\* The endpoint refuses when there is nothing to ask.
Begin(q, e, refresh) ==
    /\ req[q].step = "idle" /\ Todo(e, refresh) # <<>>
    /\ req' = [req EXCEPT ![q] = [Idle EXCEPT !.step = "asking", !.event = e, !.todo = Todo(e, refresh)]]
    /\ UNCHANGED <<has, rows, nvd, context, stale, changes>>

\* What a request has noted is locked until it commits.
IsHeld(q) ==
    \E p \in Requests \ {q} :
        /\ req[p].event = req[q].event
        /\ \E f \in ToSet(req[p].found) : f.cve = req[q].todo[1]

\* One lookup; a failed one is noted like the others.
Lookup(q, fails) ==
    LET v == req[q].todo[1] IN
    /\ req[q].step = "asking" /\ req[q].todo # <<>> /\ v \in has[req[q].event] /\ ~IsHeld(q)
    /\ IF fails THEN Change ELSE UNCHANGED changes
    /\ req' = [req EXCEPT ![q].todo = Tail(@),
           ![q].found = Append(@, [cve |-> v, status |-> IF fails THEN "failed"
                                                         ELSE IF v \in InNvd THEN "completed" ELSE "not_found"])]
    /\ UNCHANGED <<has, rows, nvd, context, stale>>

\* What is not in the event any more cannot be noted, nor can what another
\* request inserts first: the whole request fails.
LookupFails(q) ==
    /\ req[q].step = "asking" /\ req[q].todo # <<>>
    /\ IsHeld(q) \/ req[q].todo[1] \notin has[req[q].event]
    /\ req' = [req EXCEPT ![q] = Idle]
    /\ UNCHANGED <<has, rows, nvd, context, stale, changes>>

Enriched(q) ==
    /\ req[q].step = "asking" /\ req[q].todo = <<>>
    /\ Recalculate(q, {req[q].event}, rows, Noted(q))
    /\ UNCHANGED <<has, rows, nvd, context, stale, changes>>

-----------------------------------------------------------------------------
\* An event is imported again: indicators that have gone take their
\* enrichments with them, unless a request holds them, and its risk is that of
\* its text alone.
Import(e, S) ==
    LET changed == {e} \cup {f \in Events : has[f] \cap (has[e] \cup S) # {}} IN
    /\ Change /\ S # has[e]
    /\ \A q \in Requests : req[q].event = e => \A f \in ToSet(req[q].found) : f.cve \in S
    /\ has' = [has EXCEPT ![e] = S]
    /\ nvd' = {n \in nvd : n.event # e \/ n.cve \in S}
    /\ context' = [context EXCEPT ![e] = Alone]
    /\ stale' = stale \cup changed /\ req' = WithoutSure(changed)
    /\ UNCHANGED rows

Next ==
    \/ \E q \in Requests :
        \/ \E S \in SUBSET Events : \E ids \in SetToSeqs(S) : Correlate(q, ids)
        \/ \E e \in Events, refresh \in BOOLEAN : Begin(q, e, refresh)
        \/ \E fails \in BOOLEAN : Lookup(q, fails)
        \/ LookupFails(q) \/ Enriched(q) \/ Commit(q)
    \/ \E e \in Events, S \in SUBSET Values : Import(e, S)

Spec == Init /\ [][Next]_vars

-----------------------------------------------------------------------------
(***************************************************************************)
(* The risk of an event takes account of all that is known of it: a run of *)
(* correlations and an enrichment calculate every risk again that they     *)
(* change.  Unless, since it was calculated, the event or one that shares  *)
(* an indicator with it was imported, or another request, which began to   *)
(* calculate before this one was committed, was committed.  A pair of      *)
(* events is correlated once for one reason, however often, in whatever    *)
(* order and beside whom it is asked for.                                  *)
(***************************************************************************)
RiskIsCurrent ==
    /\ \A e \in Events \ stale : context[e] = Context(has, rows, nvd, e)
    /\ \A r, s \in rows : {r.a, r.b} = {s.a, s.b} /\ r.type = s.type => r = s
    /\ \A m, n \in nvd : m.event = n.event /\ m.cve = n.cve => m = n
=============================================================================
