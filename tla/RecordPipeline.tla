---------------------------- MODULE RecordPipeline ----------------------------
(***************************************************************************)
(* The records of an import become rows and events                         *)
(* (_run_external_records in services/pipeline_service.py): batch by batch *)
(* they are compared with what is stored, processed outside of a           *)
(* transaction (process_batch in pipeline/orchestrator.py), and stored     *)
(* (repositories/cti_repository.py).  Several runs go on at once.          *)
(*                                                                         *)
(* Abstraction.  A record is its identifier, its reference (the URL that   *)
(* the deduplicator compares) and its text; the entities of a text that    *)
(* is related to CTI are the text itself.  A run takes a record once.      *)
(* MaxFaults is a bound.                                                   *)
(***************************************************************************)
EXTENDS Naturals, FiniteSets, Sequences, SequencesExt

CONSTANTS
    Runs, Inputs,       \* runs, and the sequences of records they may be given
    Earlier,            \* records that may have been stored before
    BatchSize,
    Relevant,           \* the texts that are classified as related to CTI
    None,
    MaxFaults

VARIABLES
    raw,      \* raw_items: the text of a record
    event,    \* threat_events: its text, status and entities
    run,      \* a run: where it is in its input, and what it counts
    held,     \* history: the texts that a record had in raw_items
    raised,   \* history: the texts whose processing raised an exception
    mixed,    \* history: records that another run stored between the read and the write of the last
    faults

vars == <<raw, event, run, held, raised, mixed, faults>>

Records == UNION {ToSet(i) : i \in Inputs}
RecordIds == {r.id : r \in Records}
Texts   == {r.text : r \in Records}

NoRun == [step |-> "idle", input |-> <<>>, at |-> 0, refs |-> {}, todo |-> <<>>,
          objects |-> <<>>, read |-> <<>>, stored |-> 0, failed |-> 0, unchanged |-> 0]
Ended == {"completed", "partial", "failed"}

TypeOK ==
    /\ raw \in [RecordIds -> Texts \cup {None}]
    /\ \A i \in RecordIds : event[i] = None \/
           /\ event[i].text \in Texts /\ event[i].entities \subseteq Texts
           /\ event[i].status \in {"transformed", "ignored", "failed"}
    /\ \A r \in Runs :
        /\ run[r].step \in {"idle", "compare", "process", "read", "write", "broken"} \cup Ended
        /\ run[r].at \in 0..Len(run[r].input)
        /\ run[r].step \in {"read", "write"} => Len(run[r].objects) = Len(run[r].todo)
    /\ faults \in 0..MaxFaults

Fault == faults < MaxFaults /\ faults' = faults + 1

-----------------------------------------------------------------------------
(* process_batch.                                                          *)

\* The deduplicator lives as long as the run.
IsDuplicate(records, refs, n) ==
    records[n].ref \in refs \/ \E k \in 1..(n - 1) : records[k].ref = records[n].ref

\* The records that the extractor is asked about, in order.
Pending(records, refs) ==
    SelectSeq([n \in DOMAIN records |-> n],
              LAMBDA n : ~IsDuplicate(records, refs, n) /\ records[n].text \in Relevant)

Answer(t, failing) == IF t \in failing THEN None ELSE {t}

\* Mutation: the fallback leaves out the texts that fail.
Answers_Skipping(records, refs, failing) ==
    LET asked == SelectSeq(Pending(records, refs), LAMBDA n : records[n].text \notin failing)
    IN [k \in DOMAIN asked |-> Answer(records[asked[k]].text, failing)]

\* One for each of them, an exception also when the batch is asked text by text.
Answers(records, refs, failing) ==
    LET asked == Pending(records, refs)
    IN [k \in DOMAIN asked |-> Answer(records[asked[k]].text, failing)]

Object(r, status, entities) == [text |-> r.text, status |-> status, entities |-> entities]

\* The pending records and the answers are taken in pairs; what has no object
\* in the end has failed.
Processed(records, refs, failing) ==
    LET asked   == Pending(records, refs)
        answers == Answers(records, refs, failing)
        Of(n)   == CHOOSE k \in DOMAIN asked : asked[k] = n
    IN [n \in DOMAIN records |->
           IF n \notin ToSet(asked)
           THEN Object(records[n], IF IsDuplicate(records, refs, n) \/ records[n].text \notin failing
                                   THEN "ignored" ELSE "failed", {})
           ELSE IF Of(n) > Len(answers) \/ answers[Of(n)] = None
           THEN Object(records[n], "failed", {})
           ELSE Object(records[n], "transformed", answers[Of(n)])]

\* Of what was imported before, each record was processed alone.
Init ==
    \E before \in SUBSET Earlier :
        LET at(i) == SelectSeq(SetToSeq(before), LAMBDA x : x.id = i) IN
        /\ raw = [i \in RecordIds |-> IF at(i) = <<>> THEN None ELSE at(i)[1].text]
        /\ event = [i \in RecordIds |-> IF at(i) = <<>> THEN None ELSE Processed(at(i), {}, {})[1]]
        /\ held = {<<x.id, x.text>> : x \in before}
        /\ run = [r \in Runs |-> NoRun] /\ raised = {} /\ mixed = {} /\ faults = 0

-----------------------------------------------------------------------------
(* A run.                                                                  *)

Batch(r) ==
    LET end == run[r].at + BatchSize IN
    SubSeq(run[r].input, run[r].at + 1, IF end < Len(run[r].input) THEN end ELSE Len(run[r].input))

Start(r, input) ==
    /\ run[r].step = "idle"
    /\ run' = [run EXCEPT ![r] = [NoRun EXCEPT !.step = "compare", !.input = input]]
    /\ UNCHANGED <<raw, event, held, raised, mixed, faults>>

\* raw_record_is_unchanged, whatever became of the record's event.
IsStored(record) == raw[record.id] = record.text

\* A short transaction of its own.
Compare(r) ==
    LET todo == SelectSeq(Batch(r), LAMBDA x : ~IsStored(x)) IN
    /\ run[r].step = "compare" /\ run[r].at < Len(run[r].input)
    /\ run' = [run EXCEPT ![r].todo = todo, ![r].step = "process",
                          ![r].unchanged = @ + Len(Batch(r)) - Len(todo)]
    /\ UNCHANGED <<raw, event, held, raised, mixed, faults>>

\* No transaction is open.
Process(r, failing) ==
    LET k == run[r] IN
    /\ k.step = "process" /\ failing \subseteq {x.text : x \in ToSet(k.todo)}
    /\ IF failing = {} THEN UNCHANGED faults ELSE Fault
    /\ raised' = raised \cup failing
    /\ run' = [run EXCEPT ![r].objects = Processed(k.todo, k.refs, failing),
                          ![r].refs = k.refs \cup {x.ref : x \in ToSet(k.todo)},
                          ![r].step = "read"]
    /\ UNCHANGED <<raw, event, held, mixed>>

\* _persist_external_batch: the rows of the batch.  No lock is taken on them.
Read(r) ==
    /\ run[r].step = "read"
    /\ run' = [run EXCEPT ![r].step = "write",
                          ![r].read = [i \in RecordIds |-> [raw |-> raw[i], event |-> event[i]]]]
    /\ UNCHANGED <<raw, event, held, raised, mixed, faults>>

\* What another run has stored since the comparison is left alone.
IsWritten(k, n) == k.read[k.todo[n].id].raw # k.todo[n].text

Old(before) == IF before = None THEN {} ELSE before.entities

\* An insertion meets a row that was inserted after the read.
Collides(was, now, before) ==
    IF was = None THEN FALSE
    ELSE before = None \/ (now.entities \ Old(before)) \cap was.entities # {}

\* The new rows of an event: what the batch read is deleted or kept, and the
\* columns that are as they were read are not written.
Synced(was, now, before) ==
    [text |-> now.text,
     status |-> IF before # None /\ was # None /\ before.status = now.status THEN was.status ELSE now.status,
     entities |-> (Old(was) \ (Old(before) \ now.entities)) \cup (now.entities \ Old(before))]

\* What a batch writes: the places of its records, by identifier.
Written(k) == {n \in DOMAIN k.todo : IsWritten(k, n)}
Place(k, i) == CHOOSE n \in Written(k) : k.todo[n].id = i
Changed(k)  == {k.todo[n].id : n \in Written(k)}

\* Of what is written, and what is left as it was.
Counted(k) ==
    LET bad == {n \in Written(k) : k.objects[n].status = "failed"} IN
    [k EXCEPT !.stored = @ + Cardinality(Written(k) \ bad), !.failed = @ + Cardinality(bad),
              !.unchanged = @ + Len(k.todo) - Cardinality(Written(k))]

\* Rows, events, counters and the offset are committed together.
Write(r) ==
    LET k == run[r] IN
    /\ k.step = "write"
    /\ \A i \in Changed(k) : ~Collides(event[i], k.objects[Place(k, i)], k.read[i].event)
    /\ raw' = [i \in RecordIds |-> IF i \in Changed(k) THEN k.todo[Place(k, i)].text ELSE raw[i]]
    /\ event' = [i \in RecordIds |-> IF i \in Changed(k)
                               THEN Synced(event[i], k.objects[Place(k, i)], k.read[i].event)
                               ELSE event[i]]
    /\ held' = held \cup {<<x.id, x.text>> : x \in ToSet(k.todo)}
    /\ mixed' = (mixed \ Changed(k)) \cup {i \in Changed(k) : k.read[i] # [raw |-> raw[i], event |-> event[i]]}
    /\ run' = [run EXCEPT ![r] = [Counted(k) EXCEPT !.at = @ + Len(Batch(r)), !.step = "compare",
                                                    !.todo = <<>>, !.objects = <<>>, !.read = <<>>]]
    /\ UNCHANGED <<raised, faults>>

\* The batch was counted, and its commit fails: the run ends with the counts
\* of a batch that is not stored.
WriteFails(r) ==
    LET k == run[r] IN
    /\ k.step = "write"
    /\ IF \E i \in Changed(k) : Collides(event[i], k.objects[Place(k, i)], k.read[i].event)
       THEN UNCHANGED faults ELSE Fault
    /\ run' = [run EXCEPT ![r] = [Counted(k) EXCEPT !.step = "broken", !.todo = <<>>,
                                                    !.objects = <<>>, !.read = <<>>]]
    /\ UNCHANGED <<raw, event, held, raised, mixed>>

Breaks(r) ==
    /\ run[r].step \in {"compare", "process", "read"} /\ Fault
    /\ run' = [run EXCEPT ![r].step = "broken", ![r].todo = <<>>, ![r].objects = <<>>]
    /\ UNCHANGED <<raw, event, held, raised, mixed>>

Finish(r) ==
    LET k == run[r] IN
    /\ k.step = "compare" /\ k.at = Len(k.input)
    /\ run' = [run EXCEPT ![r].step = IF k.failed = 0 THEN "completed"
                                      ELSE IF k.stored > 0 THEN "partial" ELSE "failed"]
    /\ UNCHANGED <<raw, event, held, raised, mixed, faults>>

Next ==
    \E r \in Runs :
        \/ \E input \in Inputs : Start(r, input)
        \/ Compare(r) \/ (\E failing \in SUBSET Texts : Process(r, failing))
        \/ Read(r) \/ Write(r) \/ WriteFails(r) \/ Breaks(r) \/ Finish(r)

Spec == Init /\ [][Next]_vars

-----------------------------------------------------------------------------
(***************************************************************************)
(* A record's event is of the text that is stored for it, whatever runs go *)
(* on beside each other.  It has the entities of this text and no others,  *)
(* and failed, or was passed over, because of this text, not of its        *)
(* neighbours in the batch: unless the run that stored it last had read    *)
(* the record before another run stored it, and only until it is stored    *)
(* again.                                                                  *)
(***************************************************************************)
EventsAreOfTheirRecords ==
    \A i \in RecordIds : raw[i] # None =>
        /\ event[i] # None /\ event[i].text = raw[i]
        /\ i \in mixed \/
           /\ event[i].entities = IF event[i].status = "transformed" THEN {raw[i]} ELSE {}
           /\ event[i].status = "transformed" => raw[i] \in Relevant
           /\ event[i].status = "failed" => raw[i] \in raised
           /\ event[i].status = "ignored" => raw[i] \notin Relevant \/
                  \E x, y \in Records : x.id = i /\ x.text = raw[i] /\ y.id # i /\ y.ref = x.ref

(***************************************************************************)
(* A run that came to its end has stored each of its records, and counted  *)
(* each of them once.  (A run that an exception ended may count a batch    *)
(* that was not committed.)                                                *)
(***************************************************************************)
EndedRunIsStored ==
    \A r \in Runs : run[r].step \in Ended =>
        /\ \A x \in ToSet(run[r].input) : <<x.id, x.text>> \in held
        /\ run[r].stored + run[r].failed + run[r].unchanged = Len(run[r].input)
        /\ run[r].failed > 0 <=> run[r].step # "completed"

RecordsHold == EventsAreOfTheirRecords /\ EndedRunIsStored
=============================================================================
