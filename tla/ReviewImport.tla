------------------------------ MODULE ReviewImport ------------------------------
(***************************************************************************)
(* What the backend does with an approved review: the external service has *)
(* made an export for it, and the request imports that export             *)
(* (external_control_review_decision in router.py over sync_external_run   *)
(* and _run_external_records in pipeline_service.py).  Each batch is       *)
(* compared in one transaction, transformed in none and stored in another. *)
(*                                                                         *)
(* Abstraction.  A page and a batch have one item.  An item is a record    *)
(* and the version of its content; the digest of an export is its edition, *)
(* and Items tells what is in each.  An indicator, entity or relationship  *)
(* is part of the record.  MaxRequests, MaxRewrites and MaxFaults are      *)
(* bounds.                                                                 *)
(***************************************************************************)
EXTENDS Naturals, Sequences, FiniteSets

CONSTANTS Exports, Records, Requests, None, Items(_, _), MaxRequests, MaxRewrites, MaxFaults

VARIABLES
    edition,   \* the edition of each export
    raw,       \* the version of each record in the database, 0 for none
    runs,      \* the pipeline runs
    req,       \* a request: its step, the decision, what it has of the export
    audit,     \* the decisions in the audit log
    stored,    \* history: every item the database has had
    started, faults

vars == <<edition, raw, runs, req, audit, stored, started, faults>>

Idle == [step |-> "idle", export |-> None, item |-> <<>>, digest |-> 0, pages |-> {},
         run |-> 0, left |-> {}, batch |-> <<>>, row |-> 0]
AllItems == UNION {Items(x, n) : x \in Exports, n \in 1..MaxRewrites + 1}

TypeOK ==
    /\ edition \in [Exports -> 1..MaxRewrites + 1]
    /\ \A r \in Records : raw[r] # 0 => <<r, raw[r]>> \in stored
    /\ \A i \in DOMAIN runs : /\ runs[i].export \in Exports
                              /\ runs[i].status \in {"running", "completed", "failed"}
    /\ \A q \in Requests :
        /\ req[q].step \in {"idle", "digest", "check", "match", "pages", "compare", "read", "write"}
        /\ req[q].left \subseteq req[q].pages /\ req[q].pages \subseteq AllItems
        /\ req[q].step \in {"compare", "read", "write"} => runs[req[q].run].status = "running"
    /\ stored \subseteq AllItems /\ started \in 0..MaxRequests /\ faults \in 0..MaxFaults

Init ==
    /\ edition = [x \in Exports |-> 1] /\ raw = [r \in Records |-> 0] /\ runs = <<>>
    /\ req = [q \in Requests |-> Idle] /\ audit = {} /\ stored = {} /\ started = 0 /\ faults = 0

Fault == faults < MaxFaults /\ faults' = faults + 1

-----------------------------------------------------------------------------
\* The external service writes the export of a run again.
Rewrite(x) ==
    /\ edition[x] <= MaxRewrites /\ edition' = [edition EXCEPT ![x] = @ + 1]
    /\ UNCHANGED <<raw, runs, req, audit, stored, started, faults>>

\* The decision is made outside, and can be made again with the same answer.
Decide(q, x, item) ==
    /\ req[q].step = "idle" /\ started < MaxRequests /\ started' = started + 1
    /\ item \in Items(x, edition[x])
    /\ req' = [req EXCEPT ![q] = [Idle EXCEPT !.step = "digest", !.export = x, !.item = item]]
    /\ UNCHANGED <<edition, raw, runs, audit, stored, faults>>

Answer(q, state) ==
    /\ audit' = audit \cup {[item |-> req[q].item, export |-> req[q].export, state |-> state]}
    /\ req' = [req EXCEPT ![q] = Idle]

\* The run that was begun, if any, is marked; the decision is to be repeated.
ImportFails(q) ==
    /\ Answer(q, "processing_failed")
    /\ runs' = IF req[q].run = 0 THEN runs ELSE [runs EXCEPT ![req[q].run].status = "failed"]
    /\ UNCHANGED <<edition, raw, stored, started>>

ReadDigest(q) ==
    /\ req[q].step = "digest"
    /\ req' = [req EXCEPT ![q].step = "check", ![q].digest = edition[req[q].export]]
    /\ UNCHANGED <<edition, raw, runs, audit, stored, started, faults>>

CheckDigest(q) ==
    /\ req[q].step = "check"
    /\ IF edition[req[q].export] = req[q].digest
       THEN /\ req' = [req EXCEPT ![q].step = "match", ![q].digest = 0]
            /\ UNCHANGED <<edition, raw, runs, audit, stored, started>>
       ELSE ImportFails(q)
    /\ UNCHANGED faults

\* A run of the same export is taken for its import, whatever became of it.
Matches(x) == \E i \in DOMAIN runs : runs[i].export = x

Match(q) ==
    /\ req[q].step = "match"
    /\ IF Matches(req[q].export) THEN Answer(q, "completed")
       ELSE req' = [req EXCEPT ![q].step = "pages"] /\ UNCHANGED audit
    /\ UNCHANGED <<edition, raw, runs, stored, started, faults>>

\* Every page has to be of the edition of the first one.
SameExport(first, now) == first \in {0, now}

\* The total, too, is that of the first page.
ReadPage(q, item) ==
    /\ req[q].step = "pages" /\ item \in Items(req[q].export, edition[req[q].export])
    /\ item \notin req[q].pages
    /\ IF SameExport(req[q].digest, edition[req[q].export])
       THEN LET first == IF req[q].digest = 0 THEN edition[req[q].export] ELSE req[q].digest
                pages == req[q].pages \cup {item}
            IN /\ IF Cardinality(pages) < Cardinality(Items(req[q].export, first))
                  THEN /\ req' = [req EXCEPT ![q].digest = first, ![q].pages = pages]
                       /\ UNCHANGED runs
                  ELSE /\ runs' = Append(runs, [export |-> req[q].export, edition |-> first,
                                                items |-> pages, status |-> "running"])
                       /\ req' = [req EXCEPT ![q].step = "compare", ![q].digest = first,
                             ![q].pages = pages, ![q].left = pages, ![q].run = Len(runs) + 1]
               /\ UNCHANGED <<edition, raw, audit, stored, started>>
       ELSE ImportFails(q)
    /\ UNCHANGED faults

IsUnchanged(row, item) == row = item[2]

\* One batch is compared with the database; what changed is transformed.
Compare(q, item) ==
    /\ req[q].step = "compare" /\ item \in req[q].left
    /\ req' = [req EXCEPT ![q].left = @ \ {item},
          ![q].batch = IF IsUnchanged(raw[item[1]], item) THEN <<>> ELSE item,
          ![q].step  = IF IsUnchanged(raw[item[1]], item) THEN "compare" ELSE "read"]
    /\ UNCHANGED <<edition, raw, runs, audit, stored, started, faults>>

\* The rows are read again in the transaction that stores the batch.
ReadRow(q) ==
    /\ req[q].step = "read"
    /\ LET row == raw[req[q].batch[1]] IN
       req' = [req EXCEPT ![q].row = row,
                          ![q].step = IF IsUnchanged(row, req[q].batch) THEN "compare" ELSE "write"]
    /\ UNCHANGED <<edition, raw, runs, audit, stored, started, faults>>

\* A row that was not there is inserted, and is unique; another is written over.
WriteRow(q) ==
    /\ req[q].step = "write"
    /\ IF req[q].row = 0 /\ raw[req[q].batch[1]] # 0 THEN ImportFails(q)
       ELSE /\ raw' = [raw EXCEPT ![req[q].batch[1]] = req[q].batch[2]]
            /\ stored' = stored \cup {req[q].batch}
            /\ req' = [req EXCEPT ![q].step = "compare", ![q].batch = <<>>, ![q].row = 0]
            /\ UNCHANGED <<edition, runs, audit, started>>
    /\ UNCHANGED faults

Finish(q) ==
    /\ req[q].step = "compare" /\ req[q].left = {}
    /\ runs' = [runs EXCEPT ![req[q].run].status = "completed"]
    /\ Answer(q, "completed")
    /\ UNCHANGED <<edition, raw, stored, started, faults>>

\* A request to the external service, the model or the database fails.
StepFails(q) == req[q].step # "idle" /\ Fault /\ ImportFails(q)

\* The backend stops; the run it leaves is "running".
Dies(q) ==
    /\ req[q].step # "idle" /\ Fault /\ req' = [req EXCEPT ![q] = Idle]
    /\ UNCHANGED <<edition, raw, runs, audit, stored, started>>

Next ==
    \/ \E x \in Exports : Rewrite(x)
    \/ \E q \in Requests :
        \/ \E x \in Exports, item \in AllItems : Decide(q, x, item)
        \/ \E item \in AllItems : ReadPage(q, item) \/ Compare(q, item)
        \/ ReadDigest(q) \/ CheckDigest(q) \/ Match(q)
        \/ ReadRow(q) \/ WriteRow(q) \/ Finish(q) \/ StepFails(q) \/ Dies(q)

Spec == Init /\ [][Next]_vars

-----------------------------------------------------------------------------
(***************************************************************************)
(* A run imports one edition of its export, whole: an export that is       *)
(* written again between two pages never gives a mixture.                  *)
(***************************************************************************)
ImportsOneEdition == \A i \in DOMAIN runs : runs[i].items = Items(runs[i].export, runs[i].edition)

(***************************************************************************)
(* A run that completed brought every item of its export to the database,  *)
(* with the version it has there; another request may have stored it, or   *)
(* have stored another version since.                                      *)
(***************************************************************************)
CompletedRunStored ==
    \A i \in DOMAIN runs : runs[i].status = "completed" => runs[i].items \subseteq stored

(***************************************************************************)
(* An approval that was answered has been imported: "Review approval was   *)
(* saved but Central import must be retried" is what a failed import says, *)
(* and a repeated decision is that retry.                                  *)
(***************************************************************************)
AnsweredIsImported == \A a \in audit : a.state = "completed" => a.item \in stored

=============================================================================
