--------------------------- MODULE TaggingScores ---------------------------
(***************************************************************************)
(* How a tagger is scored: the words of a test are cut into pieces, one    *)
(* piece of each word has the label that is compared, the labels that the  *)
(* model gives are read back as entities, and these are counted.           *)
(*                                                                         *)
(* Abstraction.  A label is its prefix and its type.  A score is kept as   *)
(* the counts that it is a quotient of, so that nothing is rounded.        *)
(* Outputs is what a model may answer; the tokenizer is external: a word   *)
(* has so many pieces, perhaps none.  Room is max_length without the two   *)
(* pieces that mark the ends.                                              *)
(***************************************************************************)
EXTENDS Naturals, Sequences, FiniteSets, SequencesExt

CONSTANTS
    Splits,   \* [train: of word sequences, test: sentences of [word, label, pieces]]
    Outputs,  \* sequences of labels, of Room + 2
    Room, None

VARIABLES
    data, variant,
    unique,   \* unique_unseen_test, not the test as it is
    step, next,
    chosen,   \* the sentences that are scored
    encoded,
    truths, guesses,  \* true_sequences, pred_sequences
    counts

vars == <<data, variant, unique, step, next, chosen, encoded, truths, guesses, counts>>

Outside == <<"O">>

NoCounts == [tp |-> 0, fp |-> 0, fn |-> 0]
NoTokens == [tp |-> 0, fp |-> 0, fn |-> 0, support |-> 0, positive |-> 0]

\* types: from the types that were met.
NoScores == [types |-> <<>>, micro |-> NoCounts, every |-> NoTokens, inside |-> NoTokens, correct |-> 0]

Init ==
    /\ data \in Splits /\ variant \in {"first_subword", "bio_aware"} /\ unique \in BOOLEAN
    /\ step = "choose" /\ next = 1 /\ chosen = <<>> /\ encoded = <<>>
    /\ truths = <<>> /\ guesses = <<>> /\ counts = NoScores

-----------------------------------------------------------------------------
(* The test. *)

Words(sentence) == [k \in DOMAIN sentence |-> sentence[k].word]

Choose ==
    /\ step = "choose"
    /\ IF ~unique
       THEN step' = "encode" /\ chosen' = data.test /\ UNCHANGED next
       ELSE IF next > Len(data.test)
       THEN step' = "encode" /\ next' = 1 /\ UNCHANGED chosen
       ELSE LET words == Words(data.test[next]) IN
            /\ next' = next + 1 /\ UNCHANGED step
            /\ chosen' = IF words \in data.train \cup {Words(chosen[n]) : n \in DOMAIN chosen}
                         THEN chosen ELSE Append(chosen, data.test[next])
    /\ UNCHANGED <<data, variant, unique, encoded, truths, guesses, counts>>

-----------------------------------------------------------------------------
(* EncodedNerDataset *)

Pieces(sentence) ==
    FlattenSeq([k \in DOMAIN sentence |-> [p \in 1..sentence[k].pieces |-> k]])

\* word_ids: of which word each piece is; the ends and the padding are of none.
WordIds(sentence) ==
    LET pieces == Pieces(sentence) IN
    [n \in 1..(Room + 2) |-> IF n \in 2..(Room + 1) /\ n - 1 <= Len(pieces) THEN pieces[n - 1] ELSE None]

continuation_label(label) ==
    IF Len(label) = 2 /\ label[1] = "B" THEN <<"I", label[2]>> ELSE label

\* None is -100: of no weight.
Encoding(sentence) ==
    LET ids == WordIds(sentence)
        label(n) == sentence[ids[n]].label
        isFirst(n) == n = 1 \/ ids[n - 1] # ids[n] IN
    [words |-> [n \in DOMAIN ids |-> IF ids[n] # None /\ isFirst(n) THEN label(n) ELSE None],
     loss  |-> [n \in DOMAIN ids |->
                  IF ids[n] = None THEN None
                  ELSE IF isFirst(n) THEN label(n)
                  ELSE IF variant = "bio_aware" THEN continuation_label(label(n)) ELSE None]]

Encode ==
    /\ step = "encode" /\ step' = "predict"
    /\ encoded' = [n \in DOMAIN chosen |-> Encoding(chosen[n])]
    /\ UNCHANGED <<data, variant, unique, next, chosen, truths, guesses, counts>>

-----------------------------------------------------------------------------
(* evaluate *)

\* Where a word begins.
Mask(n) == SelectSeq([k \in 1..(Room + 2) |-> k], LAMBDA k : encoded[n].words[k] # None)

Predict(output) ==
    /\ step = "predict" /\ Len(truths) < Len(chosen)
    /\ LET n == Len(truths) + 1 IN
       /\ truths' = Append(truths, [k \in DOMAIN Mask(n) |-> encoded[n].words[Mask(n)[k]]])
       /\ guesses' = Append(guesses, [k \in DOMAIN Mask(n) |-> output[Mask(n)[k]]])
    /\ UNCHANGED <<data, variant, unique, step, next, chosen, encoded, counts>>

Predicted ==
    /\ step = "predict" /\ Len(truths) = Len(chosen) /\ step' = "count" /\ next' = 1
    /\ UNCHANGED <<data, variant, unique, chosen, encoded, truths, guesses, counts>>

-----------------------------------------------------------------------------
(* ml/common/metrics.py *)

TypeOf(label)   == label[Len(label)]
PrefixOf(label) == IF Len(label) = 1 THEN "B" ELSE label[1]

Closed(scan, end) ==
    [found  |-> scan.found \cup (IF scan.active = None THEN {} ELSE {<<scan.active, scan.start, end>>}),
     active |-> None, start |-> 0]

\* An I of the type that is open goes on with it.
extract_bio_entities(labels) ==
    LET after[n \in 0..Len(labels)] ==
          IF n = 0 THEN [found |-> {}, active |-> None, start |-> 0]
          ELSE IF labels[n] = Outside THEN Closed(after[n - 1], n - 1)
          ELSE IF PrefixOf(labels[n]) = "I" /\ after[n - 1].active = TypeOf(labels[n]) THEN after[n - 1]
          ELSE [Closed(after[n - 1], n - 1) EXCEPT !.active = TypeOf(labels[n]), !.start = n]
    IN Closed(after[Len(labels)], Len(labels)).found

Add(c, true, pred) ==
    [tp |-> c.tp + Cardinality(true \cap pred),
     fp |-> c.fp + Cardinality(pred \ true),
     fn |-> c.fn + Cardinality(true \ pred)]

Of(type, spans) == {s \in spans : s[1] = type}

\* entity_metrics_by_type, of one more sentence.
ByType(types, true, pred) ==
    [t \in DOMAIN types \cup {s[1] : s \in true \cup pred} |->
        Add(IF t \in DOMAIN types THEN types[t] ELSE NoCounts, Of(t, true), Of(t, pred))]

\* token_micro_metrics, of one more sentence.
Tokens(c, true, pred, excluded) ==
    LET isTrue(n) == true[n] \notin excluded
        isPred(n) == pred[n] \notin excluded
        many(Test(_)) == Cardinality({n \in DOMAIN true : Test(n)}) IN
    [tp |-> c.tp + many(LAMBDA n : isTrue(n) /\ true[n] = pred[n]),
     fp |-> c.fp + many(LAMBDA n : isPred(n) /\ true[n] # pred[n]),
     fn |-> c.fn + many(LAMBDA n : isTrue(n) /\ true[n] # pred[n]),
     support  |-> c.support + many(isTrue),
     positive |-> c.positive + many(isPred)]

\* token_accuracy, of one more sentence.
Correct(c, true, pred) == c + Cardinality({n \in DOMAIN true : true[n] = pred[n]})

Count ==
    /\ step = "count" /\ next <= Len(truths) /\ next' = next + 1
    /\ LET true == truths[next] pred == guesses[next]
           trueSpans == extract_bio_entities(true) predSpans == extract_bio_entities(pred) IN
       counts' = [types   |-> ByType(counts.types, trueSpans, predSpans),
                  micro   |-> Add(counts.micro, trueSpans, predSpans),
                  every   |-> Tokens(counts.every, true, pred, {}),
                  inside  |-> Tokens(counts.inside, true, pred, {Outside}),
                  correct |-> Correct(counts.correct, true, pred)]
    /\ UNCHANGED <<data, variant, unique, step, chosen, encoded, truths, guesses>>

\* What entity_macro_metrics takes the average of.
Supported == {t \in DOMAIN counts.types : counts.types[t].tp + counts.types[t].fn > 0}

Next == Choose \/ Encode \/ (\E output \in Outputs : Predict(output)) \/ Predicted \/ Count

Spec == Init /\ [][Next]_vars

-----------------------------------------------------------------------------
(* Properties. *)

TypeOK ==
    /\ data \in Splits /\ step \in {"choose", "encode", "predict", "count"}
    /\ next \in 1..(Len(data.test) + 1) /\ Len(guesses) = Len(truths) /\ Len(truths) <= Len(chosen)
    /\ \A n \in DOMAIN truths : Len(truths[n]) = Len(guesses[n])

(***************************************************************************)
(* The test of unseen sentences has each sentence of the test that is not  *)
(* in the training once, and no other.                                     *)
(***************************************************************************)
UnseenIsUnseen ==
    unique /\ step # "choose" =>
        /\ \A n, m \in DOMAIN chosen : n # m => Words(chosen[n]) # Words(chosen[m])
        /\ {Words(s) : s \in Range(chosen)} = {Words(s) : s \in Range(data.test)} \ data.train

\* What is compared is one label for each word that has a piece in the room.
WordsHaveOneLabel ==
    \A n \in DOMAIN truths :
        LET s == chosen[n]
            before(k) == Len(Pieces(SubSeq(s, 1, k - 1)))
            kept == SelectSeq([k \in DOMAIN s |-> k], LAMBDA k : s[k].pieces > 0 /\ before(k) < Room) IN
        truths[n] = [k \in DOMAIN kept |-> s[kept[k]].label]

\* The maximal runs of a type: an I does not begin one behind another of its type.
Runs(labels) ==
    LET goesOn(n) == /\ n > 1 /\ labels[n] # Outside /\ PrefixOf(labels[n]) = "I"
                     /\ labels[n - 1] # Outside /\ TypeOf(labels[n - 1]) = TypeOf(labels[n]) IN
    {<<t, i, j>> \in {TypeOf(l) : l \in Range(labels)} \X (DOMAIN labels) \X (DOMAIN labels) :
        /\ i <= j /\ labels[i] # Outside /\ TypeOf(labels[i]) = t /\ ~goesOn(i)
        /\ \A k \in (i + 1)..j : goesOn(k)
        /\ j = Len(labels) \/ ~goesOn(j + 1)}

SpansAreRuns ==
    \A labels \in Range(truths) \cup Range(guesses) : extract_bio_entities(labels) = Runs(labels)

(***************************************************************************)
(* Where every piece has a label, the model is trained on pieces that form *)
(* the entities of the words: each from the first piece of its first word  *)
(* to the last of its last, as far as there is room.                       *)
(***************************************************************************)
PiecesFormTheEntities ==
    variant = "bio_aware" => \A n \in DOMAIN truths :
        LET places == SelectSeq([k \in 1..(Room + 2) |-> k], LAMBDA k : encoded[n].loss[k] # None)
            begins == Mask(n)
            first(w) == CHOOSE p \in DOMAIN places : places[p] = begins[w]
            last(w)  == IF w = Len(begins) THEN Len(places) ELSE first(w + 1) - 1 IN
        extract_bio_entities([p \in DOMAIN places |-> encoded[n].loss[places[p]]])
            = {<<s[1], first(s[2]), last(s[3])>> : s \in extract_bio_entities(truths[n])}

\* What the counts are of, when all is counted.
IsCounted == step = "count" /\ next > Len(truths)

All(sequences) == UNION {{<<n, s>> : s \in extract_bio_entities(sequences[n])} : n \in DOMAIN sequences}

TokensAgree(c) == c.tp + c.fn = c.support /\ c.tp + c.fp = c.positive

(***************************************************************************)
(* The counts by type add up to those of all, every entity of the test is  *)
(* found or missed, every one of the model right or wrong, the average is  *)
(* over the types of the test, and of all the labels the precision is the  *)
(* recall and the accuracy.                                                *)
(***************************************************************************)
CountsAgree ==
    IsCounted =>
        LET true == All(truths) pred == All(guesses) IN
        /\ \A t \in {s[2][1] : s \in true \cup pred} :
              /\ counts.types[t].tp + counts.types[t].fn = Cardinality({s \in true : s[2][1] = t})
              /\ counts.types[t].tp + counts.types[t].fp = Cardinality({s \in pred : s[2][1] = t})
        /\ counts.micro = [tp |-> Cardinality(true \cap pred), fp |-> Cardinality(pred \ true),
                           fn |-> Cardinality(true \ pred)]
        /\ Supported = {s[2][1] : s \in true}
        /\ TokensAgree(counts.every) /\ TokensAgree(counts.inside)
        /\ counts.every.fp = counts.every.fn /\ counts.every.tp = counts.correct

ScoresHold ==
    UnseenIsUnseen /\ WordsHaveOneLabel /\ SpansAreRuns /\ PiecesFormTheEntities /\ CountsAgree
=============================================================================
