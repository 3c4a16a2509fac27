-------------------------- MODULE AnnotationReview --------------------------
(***************************************************************************)
(* The evaluation of the stored events by people: a sample is exported     *)
(* into files, two people annotate it without seeing the predictions or    *)
(* each other, a third settles where they differ, and the predictions are  *)
(* scored against that.  All of it goes by files that anyone may edit.     *)
(*                                                                         *)
(* Abstraction.  A text is a sequence of words, and its digest is itself.  *)
(* An item of an annotation is a span with its words; kinds of items are   *)
(* not told apart, nor are the scores computed.  Rows is what people write.*)
(* MaxFaults is a bound.                                                   *)
(***************************************************************************)
EXTENDS Naturals, Sequences, FiniteSets, SequencesExt

CONSTANTS
    Populations, \* stored events, in the order of their ids: [text, stratum]
    Plain,       \* a text without case and spaces
    Size,        \* of the sample
    Rows,        \* [annotation files -> [texts -> what is written of them]]
    Named,       \* a reviewer's name without case and spaces: "" for none
    Longest,     \* MAX_TEXT_CHARS
    None, MaxFaults

VARIABLES
    events,
    sample,   \* the selected, while they are written
    written,  \* how many files of the package are there
    sealed,   \* the digests in the manifest
    documents, references, sheets,  \* the files
    report,
    faults

vars == <<events, sample, written, sealed, documents, references, sheets, report, faults>>

Files  == <<"documents", "annotator_a", "annotator_b", "reference", "adjudicated", "manifest">>
Sheets == {"annotator_a", "annotator_b", "adjudicated"}

Init ==
    /\ events \in Populations /\ sample = None /\ written = None /\ sealed = None
    /\ documents = None /\ references = None /\ sheets = [f \in Sheets |-> None]
    /\ report = None /\ faults = 0

-----------------------------------------------------------------------------
(* The sample. *)

IsEligible(n) == Len(events[n].text) \in 1..Longest

\* The first of the events with a text, as it reads.
Representatives ==
    {n \in DOMAIN events :
        /\ IsEligible(n)
        /\ \A m \in 1..(n - 1) : IsEligible(m) => Plain[events[m].text] # Plain[events[n].text]}

Strata     == {events[n].stratum : n \in Representatives}
Stratum(s) == {n \in Representatives : events[n].stratum = s}

\* One of each stratum in turn, while there is one: the orders are by hash.
IsBalanced(S) ==
    \E k \in 0..Size : \A s \in Strata :
        Cardinality(S \cap Stratum(s)) \in
            {IF Cardinality(Stratum(s)) < r THEN Cardinality(Stratum(s)) ELSE r : r \in {k, k + 1}}

\* select_sample.
Samples ==
    {S \in SUBSET Representatives :
        /\ Cardinality(S) = IF Size < Cardinality(Representatives) THEN Size
                            ELSE Cardinality(Representatives)
        /\ IsBalanced(S)}

\* CTIEvaluationService.export, on one snapshot.  It writes over nothing.
Export ==
    /\ written = None /\ Representatives # {} /\ Cardinality(Strata) <= Size
    /\ \E S \in Samples : sample' = S
    /\ written' = 0
    /\ UNCHANGED <<events, sealed, documents, references, sheets, report, faults>>

\* annotation_template
Blank(text) ==
    [text |-> text, status |-> "pending", human |-> TRUE, reviewer |-> "", reviewed |-> FALSE,
     items |-> <<>>, pairs |-> {}, why |-> FALSE]

OfSample(Value(_)) == [n \in sample |-> Value(events[n].text)]

\* write_package: the manifest is the last.
Write ==
    LET file == Files[written + 1] IN
    /\ sample # None /\ written < Len(Files) /\ written' = written + 1
    /\ documents' = IF file = "documents" THEN OfSample(LAMBDA t : t) ELSE documents
    /\ references' = IF file = "reference" THEN OfSample(LAMBDA t : t) ELSE references
    /\ sheets' = IF file \in Sheets THEN [sheets EXCEPT ![file] = OfSample(Blank)] ELSE sheets
    /\ sealed' = IF file = "manifest" THEN [documents |-> documents, references |-> references] ELSE sealed
    /\ sample' = IF file = "manifest" THEN None ELSE sample
    /\ UNCHANGED <<events, report, faults>>

Crash ==
    /\ sample # None /\ faults < MaxFaults /\ faults' = faults + 1 /\ sample' = None
    /\ UNCHANGED <<events, written, sealed, documents, references, sheets, report>>

-----------------------------------------------------------------------------
(* What people do. *)

Annotate(file, n, row) ==
    /\ sealed # None /\ report = None
    /\ sheets' = [sheets EXCEPT ![file][n] = row]
    /\ UNCHANGED <<events, sample, written, sealed, documents, references, report, faults>>

Touch(n, text) ==
    /\ sealed # None /\ report = None /\ faults < MaxFaults /\ faults' = faults + 1
    /\ \/ documents' = [documents EXCEPT ![n] = text] /\ UNCHANGED references
       \/ references' = [references EXCEPT ![n] = text] /\ UNCHANGED documents
    /\ UNCHANGED <<events, sample, written, sealed, sheets, report>>

-----------------------------------------------------------------------------
(* What is accepted. *)

\* _span: with the words of the text there, which are not only spaces.
IsVerbatim(item, text) ==
    /\ item.start >= 0 /\ item.start < item.end /\ item.end <= Len(text)
    /\ item.value = SubSeq(text, item.start + 1, item.end)
    /\ \E w \in Range(item.value) : w # "space"

\* validate_annotations, of one document.
IsValid(file, row, text) ==
    /\ row.text = text /\ row.human
    /\ row.status # "pending" => Named[row.reviewer] # ""
    /\ row.status = "excluded" => row.why
    /\ row.status = "complete" =>
           /\ row.reviewed
           /\ \A i, j \in DOMAIN row.items :
                 /\ IsVerbatim(row.items[i], text)
                 /\ i # j => /\ row.items[i].id # row.items[j].id
                             /\ <<row.items[i].start, row.items[i].end>> # <<row.items[j].start, row.items[j].end>>
           /\ \A p \in row.pairs : {p[1], p[2]} \subseteq {row.items[i].id : i \in DOMAIN row.items}

Of(file, status) == {n \in DOMAIN sheets[file] : sheets[file][n].status = status}

Spans(row) == {<<row.items[i].start, row.items[i].end>> : i \in DOMAIN row.items}
ValueOf(row, id) == (CHOOSE i \in DOMAIN row.items : row.items[i].id = id)
Tuples(row) == {<<row.items[ValueOf(row, p[1])].value, row.items[ValueOf(row, p[2])].value>> : p \in row.pairs}

\* _same_judgments
IsSame(a, b) == Spans(a) = Spans(b) /\ Tuples(a) = Tuples(b)

Reviewers(file, S) == {Named[sheets[file][n].reviewer] : n \in S}

\* load_package
IsLoaded == sealed # None /\ documents = sealed.documents /\ references = sealed.references

AllValid(files) ==
    \A f \in files : \A n \in DOMAIN documents : IsValid(f, sheets[f][n], documents[n])

Both == Of("annotator_a", "complete") \cap Of("annotator_b", "complete")

\* agreement_report; partial is for a pilot.
Agrees(partial) ==
    /\ AllValid({"annotator_a", "annotator_b"})
    /\ ~partial => Of("annotator_a", "pending") \cup Of("annotator_b", "pending") = {}
    /\ Both # {} /\ Reviewers("annotator_a", Both) \cap Reviewers("annotator_b", Both) = {}

Selected == Of("adjudicated", "complete")

\* evaluate_annotations; a report is not written over.
Evaluate ==
    /\ IsLoaded /\ report = None /\ Agrees(FALSE) /\ AllValid({"adjudicated"})
    /\ Of("adjudicated", "pending") = {} /\ Selected # {} /\ Selected \subseteq Both
    /\ \A n \in Selected :
          IsSame(sheets["annotator_a"][n], sheets["annotator_b"][n]) \/ sheets["adjudicated"][n].why
    /\ report' = [mode |-> "evaluate", of |-> Selected]
    /\ UNCHANGED <<events, sample, written, sealed, documents, references, sheets, faults>>

Agreement(partial) ==
    /\ IsLoaded /\ report = None /\ Agrees(partial)
    /\ report' = [mode |-> "agreement", of |-> Both]
    /\ UNCHANGED <<events, sample, written, sealed, documents, references, sheets, faults>>

Next ==
    \/ Export \/ Write \/ Crash \/ Evaluate
    \/ \E partial \in BOOLEAN : Agreement(partial)
    \/ sealed # None /\ \E n \in DOMAIN documents :
          \/ \E file \in Sheets : \E row \in Rows[file][events[n].text] : Annotate(file, n, row)
          \/ \E m \in DOMAIN events : Touch(n, events[m].text)

Spec == Init /\ [][Next]_vars

-----------------------------------------------------------------------------
(* Properties. *)

TypeOK ==
    /\ events \in Populations /\ written \in {None} \cup 0..Len(Files) /\ faults \in 0..MaxFaults
    /\ sealed # None => written = Len(Files) /\ sample = None

(***************************************************************************)
(* A sealed sample has no text twice, has one at least of each stratum,    *)
(* and takes no more than one less from a stratum than from another unless *)
(* there are no more: the weights are those of the population.             *)
(***************************************************************************)
SampleIsFair ==
    sealed # None =>
        LET S == DOMAIN sealed.documents
            taken(s) == {n \in S : events[n].stratum = s} IN
        /\ \A n, m \in S : n # m => Plain[events[n].text] # Plain[events[m].text]
        /\ \A n \in DOMAIN events : IsEligible(n) =>
              \E m \in Stratum(events[n].stratum) \cup Representatives :
                  Plain[events[m].text] = Plain[events[n].text] /\ taken(events[m].stratum) # {}
        /\ \A s, t \in Strata :
              Cardinality(taken(s)) + 1 < Cardinality(taken(t)) => taken(s) = Stratum(s)

(***************************************************************************)
(* The scores are of texts as they were sealed, each read completely by    *)
(* two people and settled with words of the text itself, with a note where *)
(* they did not agree; and of the rest of the sample none is left open.    *)
(***************************************************************************)
ScoredIsReviewed ==
    report # None /\ report.mode = "evaluate" =>
        /\ \A f \in Sheets, n \in DOMAIN sealed.documents : sheets[f][n].status # "pending"
        /\ \A n \in report.of :
              LET a == sheets["annotator_a"][n] b == sheets["annotator_b"][n] g == sheets["adjudicated"][n] IN
              /\ {a.text, b.text, g.text, documents[n]} = {events[n].text}
              /\ \A row \in {a, b, g} :
                    /\ row.status = "complete" /\ row.reviewed
                    /\ \A i \in DOMAIN row.items :
                          row.items[i].value = SubSeq(events[n].text, row.items[i].start + 1, row.items[i].end)
              /\ \A m \in report.of : Named[a.reviewer] # Named[sheets["annotator_b"][m].reviewer]
              /\ (Spans(a) # Spans(b) \/ Tuples(a) # Tuples(b)) => g.why

ReviewHolds == SampleIsFair /\ ScoredIsReviewed
=============================================================================
