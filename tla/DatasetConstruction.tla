------------------------ MODULE DatasetConstruction ------------------------
(***************************************************************************)
(* The derived data sets that the tagger is trained on.  Two scripts make  *)
(* them of the same source: remediation/dnrti_clean_v1.py, which refuses a *)
(* directory with anything in it, and preprocessing/clean_dnrti.py, which  *)
(* writes over what is there.  A script may be stopped, and the source may *)
(* be changed under it.                                                    *)
(*                                                                         *)
(* Abstraction.  A file is a sequence of lines, a line its words; a word   *)
(* is a label when it is <<"O">> or <<"B", type>> or <<"I", type>>.  Of    *)
(* the reports the model has what they vouch for.  MaxChanges and          *)
(* MaxCrashes are bounds.                                                  *)
(***************************************************************************)
EXTENDS Naturals, Sequences, FiniteSets, SequencesExt

CONSTANTS
    Sources,    \* data sets: [Splits -> a file]
    Lower,      \* the words that casefold changes
    LabelCount, \* labels that the cleaned data must have: 27 in the code
    None, MaxChanges, MaxCrashes

VARIABLES
    source,  \* the files of the source
    job,     \* the script that runs, what it has read and what it keeps
    dir,     \* the directory of each script
    report,  \* its report
    torn,    \* history: the script wrote over its files, and was stopped
    changes, crashes

vars == <<source, job, dir, report, torn, changes, crashes>>

Splits  == {"train", "valid", "test"}
Order   == <<"train", "valid", "test">>
Scripts == {"remediate", "clean"}
Blank   == <<>>
NoJob   == [script |-> None, step |-> "idle", next |-> 1, hashes |-> None,
            read |-> [s \in Splits |-> <<>>], kept |-> None]

Init ==
    /\ source \in Sources /\ job = NoJob
    /\ dir = [c \in Scripts |-> [s \in Splits |-> None]] /\ report = [c \in Scripts |-> None]
    /\ torn = [c \in Scripts |-> FALSE] /\ changes = 0 /\ crashes = 0

-----------------------------------------------------------------------------
(* Reading.                                                                *)

IsLabel(w) == w = <<"O">> \/ Len(w) = 2

HasToken(line)   == Len(line) >= 2
WellFormed(line) == HasToken(line) /\ IsLabel(Last(line))

Ends(lines, n) == n = Len(lines) \/ lines[n + 1] = Blank

\* The sentences of a file: lines between blank ones.
Blocks(lines) ==
    LET starts == {n \in DOMAIN lines : lines[n] # Blank /\ (n = 1 \/ lines[n - 1] = Blank)}
        end(n) == CHOOSE m \in n..Len(lines) : Ends(lines, m) /\ \A k \in n..(m - 1) : ~Ends(lines, k)
    IN [i \in 1..Cardinality(starts) |->
            LET n == SetToSortSeq(starts, <)[i] IN SubSeq(lines, n, end(n))]

Sentence(block) ==
    [tokens |-> [n \in DOMAIN block |-> Front(block[n])], labels |-> [n \in DOMAIN block |-> Last(block[n])]]

Sentences(blocks) == [i \in DOMAIN blocks |-> Sentence(blocks[i])]

Whole(blocks, Good(_)) == SelectSeq(blocks, LAMBDA b : \A n \in DOMAIN b : Good(b[n]))

\* A sentence with a malformed line is left out.
ParseSplit(lines) == Sentences(Whole(Blocks(lines), WellFormed))
ReadStrict(lines) == Sentences(Whole(Blocks(lines), HasToken))

\* What is trained on: only the malformed line is left out.
ReadLenient(lines) ==
    LET rests == [i \in DOMAIN Blocks(lines) |-> SelectSeq(Blocks(lines)[i], HasToken)]
    IN Sentences(SelectSeq(rests, LAMBDA b : b # <<>>))

Read(c, lines) == IF c = "remediate" THEN ParseSplit(lines) ELSE ReadStrict(lines)

-----------------------------------------------------------------------------
(* Cleaning.                                                               *)

Fold(w) == IF w \in DOMAIN Lower THEN Lower[w] ELSE w

\* token_key, and sentence_key, which does not see where a token ends.
Key(c, sentence) ==
    IF c = "remediate" THEN sentence.tokens
    ELSE LET words == FlattenSeq(sentence.tokens) IN [n \in DOMAIN words |-> Fold(words[n])]

HasInvalid(labels) ==
    \E n \in DOMAIN labels :
        labels[n][1] = "I" /\ (n = 1 \/ labels[n - 1] \notin {<<"B", labels[n][2]>>, labels[n]})

Places(parsed) == UNION {{<<s, n>> : n \in DOMAIN parsed[s]} : s \in Splits}
At(parsed, p)  == parsed[p[1]][p[2]]

Group(c, parsed, p) == {q \in Places(parsed) : Key(c, At(parsed, q)) = Key(c, At(parsed, p))}

IsAmbiguous(parsed, group) == \E p, q \in group : At(parsed, p).labels # At(parsed, q).labels

\* Mutation: the sentence stays where it is met first.
Rank_First(c, s) == CHOOSE n \in DOMAIN Order : Order[4 - n] = s

\* SPLIT_PRECEDENCE, SPLIT_PRIORITY: the scripts prefer opposite ends.
Rank(c, s) ==
    LET n == CHOOSE k \in DOMAIN Order : Order[k] = s IN IF c = "remediate" THEN n ELSE 4 - n

IsSelected(c, group, p) ==
    \A q \in group : Rank(c, q[1]) < Rank(c, p[1]) \/ (q[1] = p[1] /\ q[2] >= p[2])

IsKept(c, parsed, p) ==
    LET group == Group(c, parsed, p) IN
    /\ ~IsAmbiguous(parsed, group) /\ IsSelected(c, group, p)
    /\ c = "remediate" => ~HasInvalid(At(parsed, p).labels)

\* remediate, build_clean_splits.
Kept(c, parsed) ==
    [s \in Splits |->
        LET places == SelectSeq([n \in DOMAIN parsed[s] |-> n], LAMBDA n : IsKept(c, parsed, <<s, n>>))
        IN [i \in DOMAIN places |-> parsed[s][places[i]]]]

LabelsOf(kept) == UNION {ToSet(At(kept, p).labels) : p \in Places(kept)}

IsShared(c, kept, p, q) == Key(c, At(kept, p)) = Key(c, At(kept, q))

\* audit_split_integrity: a sentence is of one split, with one labelling.
PassesGates(c, kept) ==
    /\ \A p, q \in Places(kept) :
           IsShared(c, kept, p, q) => p[1] = q[1] /\ At(kept, p).labels = At(kept, q).labels
    /\ c = "remediate" =>
           /\ \A p \in Places(kept) : ~HasInvalid(At(kept, p).labels)
           /\ Cardinality(LabelsOf(kept)) = LabelCount

Lines(sentence) ==
    [n \in DOMAIN sentence.tokens |-> Append(sentence.tokens[n], sentence.labels[n])] \o <<Blank>>

\* write_split, _write_bio_atomic.
Written(sentences) == FlattenSeq([i \in DOMAIN sentences |-> Lines(sentences[i])])

-----------------------------------------------------------------------------
(* The scripts.                                                            *)

IsEmpty(c) == \A s \in Splits : dir[c][s] = None

Start(c) ==
    /\ job.step = "idle" /\ (c = "remediate" => IsEmpty(c) /\ ~torn[c])
    /\ job' = [NoJob EXCEPT !.script = c, !.step = "read", !.hashes = source]
    /\ UNCHANGED <<source, dir, report, torn, changes, crashes>>

ReadFile ==
    LET s == Order[job.next] IN
    /\ job.step = "read"
    /\ job' = [job EXCEPT !.read[s] = Read(job.script, source[s]),
                          !.next = IF @ = 3 THEN 1 ELSE @ + 1, !.step = IF job.next = 3 THEN "build" ELSE @]
    /\ UNCHANGED <<source, dir, report, torn, changes, crashes>>

Build ==
    LET kept == Kept(job.script, job.read) IN
    /\ job.step = "build"
    /\ job' = IF PassesGates(job.script, kept) THEN [job EXCEPT !.step = "write", !.kept = kept] ELSE NoJob
    /\ UNCHANGED <<source, dir, report, torn, changes, crashes>>

WriteFile ==
    LET s == Order[job.next] IN
    /\ job.step = "write"
    /\ dir' = [dir EXCEPT ![job.script][s] = Written(job.kept[s])]
    /\ torn' = [torn EXCEPT ![job.script] = job.next < 3]
    /\ job' = [job EXCEPT !.next = @ + 1, !.step = IF job.next = 3 THEN "report" ELSE @]
    /\ UNCHANGED <<source, report, changes, crashes>>

\* The report of clean_dnrti has the hashes of the source as it is now.
Report ==
    LET c == job.script IN
    /\ job.step = "report"
    /\ report' = IF c = "remediate" /\ job.hashes # source THEN report
                 ELSE [report EXCEPT ![c] = [source |-> source, files |-> dir[c]]]
    /\ job' = NoJob
    /\ UNCHANGED <<source, dir, torn, changes, crashes>>

\* In the middle of the first file a temporary one may be left.
Stop ==
    /\ job.step # "idle" /\ crashes < MaxCrashes /\ crashes' = crashes + 1 /\ job' = NoJob
    /\ \/ torn' = torn
       \/ job.script = "remediate" /\ job.step = "write" /\ torn' = [torn EXCEPT ![job.script] = TRUE]
    /\ UNCHANGED <<source, dir, report, changes>>

ChangeSource(other) ==
    /\ changes < MaxChanges /\ changes' = changes + 1 /\ source' = other
    /\ UNCHANGED <<job, dir, report, torn, crashes>>

Next ==
    \/ \E c \in Scripts : Start(c)
    \/ ReadFile \/ Build \/ WriteFile \/ Report \/ Stop
    \/ \E other \in Sources : ChangeSource(other)

Spec == Init /\ [][Next]_vars

-----------------------------------------------------------------------------
(* Properties. *)

TypeOK ==
    /\ source \in Sources /\ job.step \in {"idle", "read", "build", "write", "report"}
    /\ job.next \in 1..4 /\ changes \in 0..MaxChanges /\ crashes \in 0..MaxCrashes

IsTrainable(c) == \A s \in Splits : dir[c][s] # None
Trained(c)     == [s \in Splits |-> ReadLenient(dir[c][s])]

(***************************************************************************)
(* What is trained on of a remediated directory, as the lenient reader of  *)
(* the training has it, has no sentence twice, in one split or in two,     *)
(* whenever the script was stopped and the source changed; of a cleaned    *)
(* one, when its last writing was not stopped.                             *)
(***************************************************************************)
NothingLeaks ==
    \A c \in Scripts : IsTrainable(c) /\ (c = "clean" => ~torn[c]) =>
        \A p, q \in Places(Trained(c)) : IsShared(c, Trained(c), p, q) => p = q

(***************************************************************************)
(* The report of a remediation vouches for its files: they are what        *)
(* cleaning the source of its hashes gives, and cleaning them again        *)
(* changes nothing.  Every sentence of the test set that may be kept is    *)
(* there, whatever else it also was in.                                    *)
(***************************************************************************)
ReportIsTrue ==
    LET r == report["remediate"]
        parsed(f) == [s \in Splits |-> ParseSplit(f[s])]
    IN r # None =>
        LET of == parsed(r.source) IN
        /\ parsed(r.files) = Kept("remediate", of)
        /\ Kept("remediate", parsed(r.files)) = parsed(r.files)
        /\ r.files = dir["remediate"]
        /\ \A n \in DOMAIN of["test"] :
               ~HasInvalid(of["test"][n].labels) /\ ~IsAmbiguous(of, Group("remediate", of, <<"test", n>>))
                   => Contains(parsed(r.files)["test"], of["test"][n])

\* The readers of derived files have the same sentences.
ReadersAgree ==
    \A c \in Scripts : IsTrainable(c) => \A s \in Splits : ReadLenient(dir[c][s]) = ReadStrict(dir[c][s])

DataHold == NothingLeaks /\ ReportIsTrue /\ ReadersAgree
=============================================================================
