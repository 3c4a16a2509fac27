------------------------------ MODULE MCServices ----------------------------
(***************************************************************************)
(* The services of the backend, the collector and the training tools for   *)
(* model checking, beside the ones that have a run of their own. A         *)
(* behaviour takes up one of them, which is chosen at the start: they      *)
(* share no state. The batches of the Gateway's feed are the one that this *)
(* module extends. A service that an action property is about has          *)
(* variables of its own; the others keep theirs, in their order, in part1, *)
(* part2, ..., which mean something to the service taken up alone.         *)
(***************************************************************************)
EXTENDS GatewayFeed, Sequences
LOCAL INSTANCE TLC

CONSTANTS
    None, NoAnswer,
    Parties    \* the requests, runs or jobs of a service that act at once

VARIABLES
    service,    \* what this behaviour takes up
    faults,     \* of a service that has variables of its own
    reviewDataset, reviewReview, reviewManifest, reviewNewest, reviewFile,
    reviewSaves, reviewJob, reviewHeld, reviewAt, reviewKey, reviewChoice,
    reviewPrevious, reviewListing, reviewCache, reviewAnswered, reviewDropped,
    sourceWeb, sourceFile, sourceAccepted, sourceDataset, sourceJob,
    sourceSnapshot, sourceLate, sourceChanges,
    part1, part2, part3, part4, part5, part6, part7, part8, part9, part10

-----------------------------------------------------------------------------
\* What the services are given: small records, texts and data sets.

\* Two versions of a record, and another record that they lose the deduplication to.
Edition(record, content, rank) ==
    [record |-> record, content |-> content, identity |-> "i", rank |-> rank]
Old       == Edition("r", "old", 2)
New       == Edition("r", "new", 3)
Other     == Edition("q", "only", 1)
Collected == {[accepted |-> {}, review |-> {Old}], [accepted |-> {Other}, review |-> {New}]}

\* A page with links is a source that the client has no name for.
SourceMethods == [s \in {"s1", "r1", "p1"} |-> IF s = "r1" THEN "listing" ELSE "rss"]

\* What a collection hands over: records that refer to one page, and new
\* versions of them.
RecordOf(id, ref, text) == [id |-> id, ref |-> ref, text |-> text]
RecordInputs == {<<RecordOf("a", "u", 1), RecordOf("b", "v", 2), RecordOf("c", "u", 3)>>,
                 <<RecordOf("b", "v", 4), RecordOf("a", "u", 1)>>,
                 <<RecordOf("a", "u", 2), RecordOf("c", "u", 3)>>,
                 <<RecordOf("a", "u", 4)>>}

\* Texts longer than a chunk, and calls of several texts, some of them equal.
Spaced    == UNION {{t \in [1..n -> {"x", "space"}] : t[1] = "x" /\ t[n] = "x"} : n \in 5..6}
LongTexts == Spaced \cup {<<"x", "line", "x", "x", "line", "x">>}
Short     == <<"x">>
TwoWords  == <<"x", "space", "x", "x">>
NerInputs ==
    [c \in {"c1", "c2"} |->
        IF c = "c1" THEN {<<t>> : t \in LongTexts}
                           \cup {<<Short, TwoWords, Short>>, <<TwoWords, <<>>, Short>>}
        ELSE {<<Short>>, <<TwoWords>>}]

\* Stored events of the backfill.  In t1 a host is in a URL, a CVE is met in two
\* spellings, one of them in the URL, and a name has no relationships of its own.
Match(kind, value, from, to) == [kind |-> kind, value |-> value, start |-> from, end |-> to, host |-> "h"]
Segment(cues, names)         == [cues |-> cues, names |-> names]
QualityTexts ==
    [t1 |-> [matches  |-> {Match("url", "u", 0, 3), Match("domain", "h", 1, 2), Match("md5", "m", 1, 2),
                           Match("cve", "C1", 4, 5), Match("cve", "c1", 6, 7)},
             segments |-> {Segment({"USES", "EXPLOITS"}, {"apt", "tool", "c1"}),
                           Segment({"TARGETS"}, {"apt", "org", "bad"})},
             tagged   |-> {"APT", "tool", "org", "bad"}],
     t2 |-> [matches  |-> {Match("domain", "d", 0, 1), Match("md5", "m", 2, 3), Match("cve", "c1", 4, 5)},
             segments |-> {Segment({"USES"}, {"apt", "tool"})},
             tagged   |-> {"apt"}]]
LowerCase ==
    [v \in {"u", "h", "C1", "c1", "m", "d", "APT", "apt", "tool", "org", "bad"} |->
        CASE v = "C1" -> "c1" [] v = "APT" -> "apt" [] OTHER -> v]
EntityTypes ==
    [v \in {"APT", "apt", "tool", "org", "bad"} |->
        CASE v \in {"APT", "apt"} -> "threat_actor" [] v = "tool" -> "malware" [] OTHER -> "organization"]
OldEvent(text, indicators, entities, rules, others) ==
    [text |-> text, indicators |-> indicators, entities |-> entities, rules |-> rules, others |-> others]
OlderEvents ==
    [e \in {1, 2} |->
        IF e = 1
        THEN {OldEvent("t1", i, n, r, {<<"apt", "MANUAL", "org">>}) :
                i \in {{}, {<<"cve", "c1">>}, {<<"url", "u">>, <<"cve", "C1">>, <<"cve", "c1">>}},
                n \in {{"APT", "tool", "bad"}, {"APT", "apt", "org", "bad"}},
                r \in {{<<"apt", "USES", "bad">>}, {}}}
        ELSE {OldEvent("t2", {}, {"apt"}, {<<"report", "MENTIONS", "apt">>}, {}), OldEvent("t1", {}, {}, {}, {})}]

\* Data sets: of each, the lines of its three files.
x0   == <<<<"x">>, <<"O">>>>
X0   == <<<<"X">>, <<"O">>>>
y0   == <<<<"y">>, <<"O">>>>
xB   == <<<<"x">>, <<"B", "p">>>>
yI   == <<<<"y">>, <<"I", "p">>>>
Gap  == <<>>
NoLabel  == <<<<"x">>>>            \* a word and no label
BadLabel == <<<<"x">>, <<"y">>>>  \* its last word is no label
TwoWord  == <<<<"x">>, <<"y">>, <<"O">>>>
DataSet(train, valid, test) == [train |-> train, valid |-> valid, test |-> test]
DirtySources ==
    {DataSet(<<xB, yI, Gap, x0>>, <<y0, Gap, Gap, X0>>, <<BadLabel, y0, Gap, x0, Gap>>),
     DataSet(<<xB, Gap, xB, yI, Gap, y0>>, <<xB, yI>>, <<Gap, X0, Gap, x0, Gap, xB>>),
     DataSet(<<TwoWord, Gap, xB>>, <<x0, y0>>, <<NoLabel, Gap, y0, Gap, xB, yI, Gap, yI>>),
     DataSet(<<y0>>, <<y0>>, <<y0, Gap, xB, yI>>)}

\* Groups of sentences: where a sentence is found, as what, and its length.
GroupTypes ==
    [l \in {"a", "c", "cz", "az", "acz", "o", "bad"} |->
        CASE l = "a" -> {"A"} [] l = "c" -> {"C"} [] l = "az" -> {"A", "Z"} [] l = "cz" -> {"C", "Z"}
          [] l = "acz" -> {"A", "C", "Z"} [] OTHER -> {}]
Found(places, length) == [found |-> places, length |-> length]
Once(labels, length)  == Found({<<"train", labels>>}, length)
SentenceGroups ==
    {<<Once("az", 1), Once("az", 1), Once("a", 1), Once("cz", 1), Once("c", 1), Once("c", 1)>>,
     <<Once("acz", 1), Once("acz", 1), Once("a", 1), Once("cz", 1),
       Found({<<"train", "a">>, <<"test", "c">>}, 1), Once("bad", 1), Once("o", 1), Once("o", 2)>>,
     <<Once("acz", 1), Once("acz", 1), Once("az", 1), Once("c", 1), Once("o", 2), Once("o", 2)>>,
     <<Once("az", 1), Once("az", 1), Once("az", 1), Once("c", 1), Once("o", 1), Once("o", 2)>>,
     [n \in 1..10 |-> IF n < 4 THEN Once("acz", 1) ELSE Once("o", 1 + (n % 2))],
     [n \in 1..8 |-> IF n = 1 THEN Found({<<"test", "a">>, <<"valid", "a">>}, 1) ELSE Once("a", 1)]}

\* Events to sample, and what is written of their texts.
Stored(text, stratum) == [text |-> text, stratum |-> stratum]
LongText == <<"x", "space", "y">>
OneWord  == <<"z">>
StoredTexts ==
    {<<Stored(LongText, "s")>>,
     <<Stored(LongText, "s"), Stored(OneWord, "t"), Stored(<<"z", "space">>, "s")>>,
     <<Stored(<<"a">>, "s"), Stored(<<"b">>, "s"), Stored(<<"c">>, "s"), Stored(<<"d">>, "t"), Stored(<<>>, "u")>>,
     <<Stored(<<"a">>, "s"), Stored(<<"b">>, "t"), Stored(<<"c">>, "u"), Stored(<<"d">>, "t")>>,
     <<Stored(<<"a">>, "s"), Stored(<<"b">>, "s"), Stored(<<"c">>, "t"), Stored(<<"d">>, "t"),
       Stored(<<"e">>, "t"), Stored(<<"a", "space">>, "u")>>}
SampleTexts == UNION {{P[n].text : n \in DOMAIN P} : P \in StoredTexts}
WithoutSpace(text) == SelectSeq(text, LAMBDA w : w # "space")
Row(text, status, who, items, pairs, why) ==
    [text |-> text, status |-> status, human |-> TRUE, reviewer |-> who, reviewed |-> TRUE,
     items |-> items, pairs |-> pairs, why |-> why]
Item(id, from, to) == [id |-> id, start |-> from, end |-> to, value |-> SubSeq(LongText, from + 1, to)]
ItemX  == Item("e1", 0, 1)
ItemY  == Item("e2", 2, 3)
Edited == [ItemX EXCEPT !.value = <<"y">>]
ItemRow(status, who, items, pairs, why) == Row(LongText, status, who, items, pairs, why)
RowsOf(file, text) ==
    CASE text = LongText /\ file = "annotator_a" ->
            {ItemRow("complete", "ann", <<ItemX>>, {}, FALSE), ItemRow("complete", "ann", <<Edited>>, {}, FALSE)}
      [] text = LongText /\ file = "annotator_b" ->
            {ItemRow("complete", "Ann", <<ItemX>>, {}, FALSE), ItemRow("complete", "bob", <<ItemX>>, {}, FALSE),
             ItemRow("complete", "bob", <<ItemX, ItemY>>, {<<"e1", "e2">>}, FALSE),
             ItemRow("excluded", "bob", <<>>, {}, TRUE)}
      [] text = LongText /\ file = "adjudicated" ->
            {ItemRow("complete", "cy", <<ItemX>>, {}, FALSE), ItemRow("complete", "cy", <<ItemX, ItemY>>, {}, TRUE),
             ItemRow("excluded", "cy", <<ItemX>>, {}, TRUE)}
      [] text = OneWord /\ file = "annotator_a" -> {Row(OneWord, "complete", "ann", <<>>, {}, FALSE)}
      [] text = OneWord /\ file = "annotator_b" ->
            {Row(OneWord, "complete", "Ann", <<>>, {}, FALSE), Row(OneWord, "complete", "bob", <<>>, {}, FALSE)}
      [] text = OneWord /\ file = "adjudicated" ->
            {Row(OneWord, "complete", "cy", <<>>, {}, FALSE), Row(LongText, "complete", "cy", <<>>, {}, FALSE)}
      [] OTHER -> {}
AnnotationRows ==
    [file \in {"annotator_a", "annotator_b", "adjudicated"} |-> [t \in SampleTexts |-> RowsOf(file, t)]]
ReviewerNames == [w \in {"", "ann", "Ann", "bob", "cy"} |-> IF w = "Ann" THEN "ann" ELSE w]

\* A test with a sentence of the training, one twice, one that is too long, and
\* one with a word of no pieces; and what a model may answer.
OfType(prefix)             == <<prefix, "p">>
Word(word, label, pieces) == [word |-> word, label |-> label, pieces |-> pieces]
Known    == <<Word("a", OfType("B"), 1)>>
Unknown  == <<Word("b", OfType("B"), 2), Word("c", OfType("I"), 1), Word("d", OfType("B"), 2)>>
TooLong  == <<Word("e", OfType("I"), 3), Word("f", <<"B", "q">>, 2), Word("g", OfType("I"), 1)>>
NoPieces == <<Word("h", <<"I", "q">>, 2), Word("i", <<"O">>, 0), Word("j", <<"I", "q">>, 1), Word("k", <<"O">>, 1)>>
ScoredSplits ==
    {[train |-> {<<"a">>}, test |-> test] : test \in {<<Unknown, Known, Unknown>>, <<TooLong, NoPieces>>}}
TaggerOutputs ==
    {[n \in 1..6 |-> label] : label \in {OfType("B"), OfType("I"), <<"O">>}}
        \cup {[n \in 1..6 |-> IF n \in S THEN OfType("I") ELSE <<"I", "q">>] : S \in {{2, 4}, {2, 3, 4}}}
        \cup {<<<<"O">>, OfType("B"), <<"O">>, OfType("I"), OfType("B"), <<"O">>>>}

-----------------------------------------------------------------------------
Reviews == INSTANCE ReviewExports WITH
    Entries <- {Old, New, Other}, Batches <- Collected, MaxRuns <- 2,
    Absent <- None, MaxFaults <- 1, MaxSaves <- 3,
    dataset <- reviewDataset, review <- reviewReview,
    manifest <- reviewManifest, newest <- reviewNewest, file <- reviewFile,
    saves <- reviewSaves, job <- reviewJob, held <- reviewHeld,
    at <- reviewAt, key <- reviewKey, choice <- reviewChoice,
    previous <- reviewPrevious, listing <- reviewListing,
    cache <- reviewCache, answered <- reviewAnswered,
    dropped <- reviewDropped

Previews == INSTANCE ManualPreviews WITH
    Previews <- {"p1"}, Requests <- Parties, Ttl <- 2, MaxClock <- 3,
    MaxFaults <- 1, now <- part1, row <- part2, request <- part3,
    job <- part4, cache <- part5, registered <- part6, faults <- part7

Manual == INSTANCE ManualSources WITH
    Listings <- {"l1"}, Children <- {"c1", "c2"}, Contents <- {1, 2},
    Relevant <- {1}, Workers <- Parties, MaxChanges <- 1, MaxFaults <- 1,
    web <- sourceWeb, file <- sourceFile, accepted <- sourceAccepted,
    dataset <- sourceDataset, job <- sourceJob, snapshot <- sourceSnapshot,
    late <- sourceLate, changes <- sourceChanges

Login == INSTANCE LoginLimiter WITH
    Clients <- {"c1", "c2"}, Accounts <- {"a1"},
    Limits <- [k \in {"c1", "c2", "a1"} |-> 2], Window <- 2, MaxBuckets <- 2,
    MaxClock <- 5, MaxPending <- 1, now <- part1, buckets <- part2,
    pending <- part3, promise <- part4, admitted <- part5

Control == INSTANCE ControlCommands WITH
    Seeded <- {"s1"}, Enabled <- {"s1"}, Roots <- {"r1"}, Promoted <- {"p1"},
    Watches <- {"w1", "w2"}, Methods <- SourceMethods, Canonical <- {"rss"},
    Requests <- {1, 2}, Keys <- {"k1"}, MaxRequests <- 2,
    MaxFaults <- 1, listed <- part1, jobs <- part2, keys <- part3,
    boot <- part4, req <- part5, audit <- part6, told <- part7,
    collected <- part8, sent <- part9, faults <- part10

Lifecycle == INSTANCE ReviewLifecycle WITH
    Versions <- {[record |-> "r", content |-> n] : n \in 1..2},
    Requests <- Parties, PageSize <- 1, MaxPages <- 1, MaxFaults <- 1,
    listed <- part1, decision <- part2, events <- part3, audited <- part4,
    req <- part5, page <- part6, pages <- part7, faults <- part8

Run == INSTANCE RecordPipeline WITH
    Runs <- Parties, Inputs <- RecordInputs, BatchSize <- 2,
    Earlier <- {RecordOf("a", "u", 1)}, Relevant <- {1, 2, 4},
    MaxFaults <- 1, raw <- part1, event <- part2, run <- part3,
    held <- part4, raised <- part5, faults <- part6, mixed <- part7

Ner == INSTANCE NerExtraction WITH
    Unknown <- None, Failed <- NoAnswer, Callers <- {"c1", "c2"},
    Inputs <- NerInputs, ChunkChars <- 3, Overlap <- 2, CacheSize <- 1,
    MinScore <- 1, MaxCalls <- 3, call <- part1, cache <- part2,
    calls <- part3

Risk == INSTANCE EventContext WITH
    Events <- {1, 2}, Values <- {"v1", "v2"}, Cves <- <<"v1", "v2">>,
    Indicators <- [e \in {1, 2} |-> IF e = 1 THEN {"v1", "v2"} ELSE {"v1"}],
    Source <- [e \in {1, 2} |-> e], Similar <- {{1, 2}}, InNvd <- {"v1"},
    Requests <- Parties, MaxLookups <- 1,
    MaxChanges <- 1, has <- part1, rows <- part2, nvd <- part3,
    context <- part4, stale <- part5, req <- part6, changes <- part7

Onion == INSTANCE DarkWebResults WITH
    Watches <- {"w1", "w2", "d"}, Discovery <- {"d"}, Pages <- {"p1"},
    Contents <- {1, 2},
    Matching <- [w \in {"w1", "w2", "d"} |-> IF w = "w2" THEN {1} ELSE {1, 2}],
    MaxResults <- 1, MaxCandidates <- 1, MaxScans <- 3, MaxFaults <- 1,
    site <- part1, enabled <- part2, count <- part3, results <- part4,
    alerts <- part5, sources <- part6, scan <- part7, scans <- part8,
    faults <- part9

Backfill == INSTANCE QualityBackfill WITH
    Events <- {1, 2}, Texts <- QualityTexts, Legacy <- OlderEvents,
    Fold <- LowerCase, TypeOf <- EntityTypes,
    Managed <- {"APT", "apt", "tool", "bad"},
    Passing <- {"APT", "apt", "tool", "org"}, MaxStored <- 1,
    MaxFaults <- 1, store <- part1, job <- part2, applied <- part3,
    before <- part4, stored <- part5, faults <- part6, upsert <- part7,
    crossed <- part8

Cleaning == INSTANCE DatasetConstruction WITH
    Sources <- DirtySources, Lower <- [w \in {<<"X">>} |-> <<"x">>],
    LabelCount <- 3, MaxChanges <- 1, MaxCrashes <- 1, source <- part1,
    job <- part2, dir <- part3, report <- part4, torn <- part5,
    changes <- part6, crashes <- part7

Dealing == INSTANCE DatasetAllocation WITH
    Inputs <- SentenceGroups, TypesIn <- GroupTypes, Invalid <- {"bad"},
    Types <- <<"A", "C", "Z">>,
    Ratio <- [train |-> 6, valid |-> 1, test |-> 1], input <- part1,
    assignment <- part2, reserved <- part3, result <- part4

Fitting == INSTANCE TrainingRuns WITH
    Epochs <- {1, 2}, F1s <- {0, 1}, Scores <- {1, 2}, Enough <- 1,
    MaxFaults <- 1, MaxDrivers <- 2, kind <- part1, out <- part2,
    train <- part3, driver <- part4, file <- part5, judge <- part6,
    decision <- part7, faults <- part8, drivers <- part9

Judging == INSTANCE AnnotationReview WITH
    Populations <- StoredTexts,
    Plain <- [t \in SampleTexts |-> WithoutSpace(t)], Size <- 3,
    Rows <- AnnotationRows, Named <- ReviewerNames, Longest <- 3,
    MaxFaults <- 1, events <- part1, sample <- part2, written <- part3,
    sealed <- part4, documents <- part5, references <- part6,
    sheets <- part7, report <- part8, faults <- part9

Scoring == INSTANCE TaggingScores WITH
    Splits <- ScoredSplits, Outputs <- TaggerOutputs, Room <- 4,
    data <- part1, variant <- part2, unique <- part3, step <- part4,
    next <- part5, chosen <- part6, encoded <- part7, truths <- part8,
    guesses <- part9, counts <- part10

reviewVars == <<reviewDataset, reviewReview, reviewManifest, reviewNewest,
                reviewFile, reviewSaves, reviewJob, reviewHeld, reviewAt,
                reviewKey, reviewChoice, reviewPrevious, reviewListing,
                reviewCache, reviewAnswered, reviewDropped>>
sourceVars == <<sourceWeb, sourceFile, sourceAccepted, sourceDataset,
                sourceJob, sourceSnapshot, sourceLate, sourceChanges>>
partVars == <<part1, part2, part3, part4, part5, part6, part7, part8, part9,
             part10>>

Services == {"batches", "reviews", "previews", "sources", "login", "control",
            "lifecycle", "records", "ner", "context", "results", "backfill",
            "data", "allocation", "training", "annotation", "scores"}

ServicesInit ==
    /\ service \in Services
    /\ Init /\ Reviews!Init /\ Manual!Init
    /\ \/ /\ service \in {"batches", "reviews", "sources"}
          /\ part1 = None /\ part2 = None /\ part3 = None /\ part4 = None
          /\ part5 = None /\ part6 = None /\ part7 = None /\ part8 = None
          /\ part9 = None /\ part10 = None
       \/ service = "previews" /\ Previews!Init
          /\ part8 = None /\ part9 = None /\ part10 = None
       \/ service = "login" /\ Login!Init
          /\ part6 = None /\ part7 = None /\ part8 = None /\ part9 = None
          /\ part10 = None
       \/ service = "control" /\ Control!Init
       \/ service = "lifecycle" /\ Lifecycle!Init
          /\ part9 = None /\ part10 = None
       \/ service = "records" /\ Run!Init
          /\ part8 = None /\ part9 = None /\ part10 = None
       \/ service = "ner" /\ Ner!Init
          /\ part4 = None /\ part5 = None /\ part6 = None /\ part7 = None
          /\ part8 = None /\ part9 = None /\ part10 = None
       \/ service = "context" /\ Risk!Init
          /\ part8 = None /\ part9 = None /\ part10 = None
       \/ service = "results" /\ Onion!Init
          /\ part10 = None
       \/ service = "backfill" /\ Backfill!Init
          /\ part9 = None /\ part10 = None
       \/ service = "data" /\ Cleaning!Init
          /\ part8 = None /\ part9 = None /\ part10 = None
       \/ service = "allocation" /\ Dealing!Init
          /\ part5 = None /\ part6 = None /\ part7 = None /\ part8 = None
          /\ part9 = None /\ part10 = None
       \/ service = "training" /\ Fitting!Init
          /\ part10 = None
       \/ service = "annotation" /\ Judging!Init
          /\ part10 = None
       \/ service = "scores" /\ Scoring!Init

ServicesNext ==
    \/ /\ service = "batches" /\ Next
       /\ UNCHANGED <<service, faults, reviewVars, sourceVars, partVars>>
    \/ /\ service = "reviews" /\ Reviews!Next
       /\ UNCHANGED <<service, vars, sourceVars, partVars>>
    \/ /\ service = "previews" /\ Previews!Next
       /\ UNCHANGED <<service, vars, faults, reviewVars, sourceVars, part8,
                     part9, part10>>
    \/ /\ service = "sources" /\ Manual!Next
       /\ UNCHANGED <<service, vars, reviewVars, partVars>>
    \/ /\ service = "login" /\ Login!Next
       /\ UNCHANGED <<service, vars, faults, reviewVars, sourceVars, part6,
                     part7, part8, part9, part10>>
    \/ /\ service = "control" /\ Control!Next
       /\ UNCHANGED <<service, vars, faults, reviewVars, sourceVars>>
    \/ /\ service = "lifecycle" /\ Lifecycle!Next
       /\ UNCHANGED <<service, vars, faults, reviewVars, sourceVars, part9,
                     part10>>
    \/ /\ service = "records" /\ Run!Next
       /\ UNCHANGED <<service, vars, faults, reviewVars, sourceVars, part8,
                     part9, part10>>
    \/ /\ service = "ner" /\ Ner!Next
       /\ UNCHANGED <<service, vars, faults, reviewVars, sourceVars, part4,
                     part5, part6, part7, part8, part9, part10>>
    \/ /\ service = "context" /\ Risk!Next
       /\ UNCHANGED <<service, vars, faults, reviewVars, sourceVars, part8,
                     part9, part10>>
    \/ /\ service = "results" /\ Onion!Next
       /\ UNCHANGED <<service, vars, faults, reviewVars, sourceVars, part10>>
    \/ /\ service = "backfill" /\ Backfill!Next
       /\ UNCHANGED <<service, vars, faults, reviewVars, sourceVars, part9,
                     part10>>
    \/ /\ service = "data" /\ Cleaning!Next
       /\ UNCHANGED <<service, vars, faults, reviewVars, sourceVars, part8,
                     part9, part10>>
    \/ /\ service = "allocation" /\ Dealing!Next
       /\ UNCHANGED <<service, vars, faults, reviewVars, sourceVars, part5,
                     part6, part7, part8, part9, part10>>
    \/ /\ service = "training" /\ Fitting!Next
       /\ UNCHANGED <<service, vars, faults, reviewVars, sourceVars, part10>>
    \/ /\ service = "annotation" /\ Judging!Next
       /\ UNCHANGED <<service, vars, faults, reviewVars, sourceVars, part10>>
    \/ /\ service = "scores" /\ Scoring!Next
       /\ UNCHANGED <<service, vars, faults, reviewVars, sourceVars>>

allVars == <<service, vars, faults, reviewVars, sourceVars, partVars>>

ServicesSpec == ServicesInit /\ [][ServicesNext]_allVars

\* No service tells its parties apart.
Symmetry == Permutations(Parties)

-----------------------------------------------------------------------------
\* Every variable has its type, in each of the services.
Typed ==
    /\ service = "reviews" => Reviews!TypeOK
    /\ service = "previews" => Previews!TypeOK
    /\ service = "sources" => Manual!TypeOK
    /\ service = "login" => Login!TypeOK
    /\ service = "batches" => TypeOK
    /\ service = "control" => Control!TypeOK
    /\ service = "lifecycle" => Lifecycle!TypeOK
    /\ service = "records" => Run!TypeOK
    /\ service = "ner" => Ner!TypeOK
    /\ service = "context" => Risk!TypeOK
    /\ service = "results" => Onion!TypeOK
    /\ service = "backfill" => Backfill!TypeOK
    /\ service = "data" => Cleaning!TypeOK
    /\ service = "allocation" => Dealing!TypeOK
    /\ service = "training" => Fitting!TypeOK
    /\ service = "annotation" => Judging!TypeOK
    /\ service = "scores" => Scoring!TypeOK

\* A decision a client was told of is never answered otherwise.
DecisionIsKept == Reviews!DecisionIsKept

\* A completed approval can be read from its run, a page begun after a
\* rejection does not offer the record again, one decision is taken of a
\* preview, a page of reviews in the backend offers what is open, and the limit
\* of attempts to sign in holds over every window.
DecisionsHold ==
    /\ service = "reviews" =>
          /\ Reviews!CompletedIsExported
          /\ Reviews!PageIsCurrent
    /\ service = "previews" => Previews!OneDecision
    /\ service = "lifecycle" => Lifecycle!OpenIsOffered
    /\ service = "login" => Login!LimitIsKept

\* A dataset has no record of what a listing's last crawl did not list.
RetiredIsNotExported == Manual!RetiredIsNotExported

\* A command has one job, of the source it names, and its answer is true.
CommandsHold == service = "control" => Control!CommandsHold

\* The events of the records are those of their texts, with the words that the
\* model found in them, their risk is what is known of them, and what was
\* stored by older rules is brought up to the rules of today.
EventsHold ==
    /\ service = "records" => Run!RecordsHold
    /\ service = "ner" => Ner!WordsAreFound /\ Ner!AnswersAgree
    /\ service = "context" => Risk!RiskIsCurrent
    /\ service = "backfill" => Backfill!BackfillHolds

\* Every match of a watch has a result and an alert, and a promoted source is
\* looked at by each scan.
ResultsHold == service = "results" => Onion!ResultsHold

\* What a model is trained on, chosen by and judged by is what it is said to
\* be: no sentence is in two splits, the splits have every type, the weights on
\* offer are those that were measured, what is counted is entities of the words
\* of the test, and scores are of what two people read.
ModelsHold ==
    /\ service = "data" => Cleaning!DataHold
    /\ service = "allocation" => Dealing!AllocationHolds
    /\ service = "training" => Fitting!TrainingHolds
    /\ service = "scores" => Scoring!ScoresHold
    /\ service = "annotation" => Judging!ReviewHolds
=============================================================================
