---------------------------- MODULE NerExtraction ----------------------------
(***************************************************************************)
(* The named entities of texts (pipeline/extraction/ner_extractor.py), as  *)
(* the pipeline asks for them (process_batch in orchestrator.py): all the  *)
(* texts at once, and if that raises, one after the other.  A text longer  *)
(* than ChunkChars is cut into chunks that overlap, each chunk is tagged,  *)
(* what its chunks give is filtered and deduplicated, and a cache keeps    *)
(* the entities of the last texts.  There is one extractor in a process,   *)
(* and the workers and requests of the backend call it without a lock.     *)
(*                                                                         *)
(* Abstraction.  A text is a sequence of letters, spaces and line ends.    *)
(* The model tags every word of a chunk with its length as the score.      *)
(* MaxCalls bounds.                                                        *)
(***************************************************************************)
EXTENDS Naturals, Sequences, SequencesExt

CONSTANTS
    Callers, Inputs,        \* the threads, and the texts that each may ask for
    Unknown, Failed,        \* no answer yet; the extractor raised an exception
    ChunkChars, Overlap, CacheSize, MinScore, MaxCalls

VARIABLES
    call,     \* a call: its texts, its answers, and where it is
    cache,    \* texts with their entities, the least recently used first
    calls

vars == <<call, cache, calls>>

IsSpace(c) == c \in {"space", "line"}
Least(S) == CHOOSE n \in S : \A k \in S : n <= k
Most(S)  == CHOOSE n \in S : \A k \in S : k <= n

NoCall == [step |-> "idle", single |-> FALSE, texts |-> <<>>, out |-> <<>>, at |-> 1,
           pending |-> <<>>, start |-> 0, raw |-> {}]

TypeOK ==
    /\ IsInjective([i \in DOMAIN cache |-> cache[i].text])
    /\ \A c \in Callers :
        /\ call[c].step \in {"idle", "look", "hit", "tag"}
        /\ DOMAIN call[c].out = DOMAIN call[c].texts /\ IsInjective(call[c].pending)
        /\ call[c].step = "tag" => call[c].start \in 0..Len(call[c].pending[1])
    /\ calls \in 0..MaxCalls

Init == call = [c \in Callers |-> NoCall] /\ cache = <<>> /\ calls = 0

-----------------------------------------------------------------------------
(* Chunks: offsets into a text, the first letter at 0.                     *)

Char(t, n) == t[n + 1]

\* The end of a chunk: a space in its second half, if there is one.
Cut(t, from) ==
    LET to     == from + ChunkChars
        spaces == {n \in (from + ChunkChars \div 2)..(to - 1) : n > from /\ Char(t, n) = "space"}
    IN IF to >= Len(t) THEN Len(t) ELSE IF spaces = {} THEN to ELSE Most(spaces)

\* The start of the next one: past the first space of the overlap.
After(t, from, end) ==
    LET back   == IF end - Overlap > from + 1 THEN end - Overlap ELSE from + 1
        spaces == {n \in back..(end - 1) : IsSpace(Char(t, n))}
    IN IF spaces # {} THEN Least(spaces) + 1 ELSE IF back > end THEN back ELSE end

\* The words of a chunk, with the places where they begin.
WordsIn(t, from, end) ==
    {w \in [at : from..(end - 1), size : 1..(end - from)] :
        /\ w.at + w.size <= end
        /\ \A n \in w.at..(w.at + w.size - 1) : ~IsSpace(Char(t, n))
        /\ w.at = from \/ IsSpace(Char(t, w.at - 1))
        /\ w.at + w.size = end \/ IsSpace(Char(t, w.at + w.size))}

Value(t, w) == SubSeq(t, w.at + 1, w.at + w.size)

Tagged(t, from, end) == {[value |-> Value(t, w), score |-> w.size] : w \in WordsIn(t, from, end)}

Kept(found) == {e.value : e \in {f \in found : f.score >= MinScore}}

-----------------------------------------------------------------------------
(* The cache.                                                              *)

IsCached(t) == \E i \in DOMAIN cache : cache[i].text = t
Cached(t)   == cache[CHOOSE i \in DOMAIN cache : cache[i].text = t].result

\* The text is put last.
Touched(t, result) == Append(SelectSeq(cache, LAMBDA e : e.text # t), [text |-> t, result |-> result])

\* _cache_set: the first ones go.
Stored(t, result) ==
    LET s == Touched(t, result) IN
    IF CacheSize = 0 THEN cache
    ELSE IF Len(s) > CacheSize THEN SubSeq(s, Len(s) - CacheSize + 1, Len(s)) ELSE s

-----------------------------------------------------------------------------
Text(c) == call[c].texts[call[c].at]

\* The call goes on with the text after this one; the last one ends it, or
\* ends the lookups of a batch.
Past(c, k) ==
    LET next == [k EXCEPT !.at = k.at + 1] IN
    IF next.at <= Len(k.texts) THEN [next EXCEPT !.step = "look"]
    ELSE IF k.single \/ k.pending = <<>> THEN [next EXCEPT !.step = "idle"]
    ELSE [next EXCEPT !.step = "tag", !.start = 0, !.raw = {}]

Begin(c, input) ==
    /\ call[c].step = "idle" /\ calls < MaxCalls /\ calls' = calls + 1
    /\ call' = [call EXCEPT ![c] = [NoCall EXCEPT !.step = "look", !.texts = input,
                                       !.out = [i \in DOMAIN input |-> Unknown]]]
    /\ UNCHANGED cache

\* _cache_get: the entry is read.
Look(c) ==
    LET k == call[c] IN
    /\ k.step = "look"
    /\ call' = [call EXCEPT ![c] =
           IF Text(c) = <<>> THEN Past(c, [k EXCEPT !.out[k.at] = {}])
           ELSE IF IsCached(Text(c)) THEN [k EXCEPT !.step = "hit"]
           ELSE IF k.single
           THEN [k EXCEPT !.step = "tag", !.pending = <<Text(c)>>, !.start = 0, !.raw = {}]
           ELSE Past(c, [k EXCEPT !.pending = IF Contains(k.pending, Text(c)) THEN k.pending
                                              ELSE Append(k.pending, Text(c))])]
    /\ UNCHANGED <<cache, calls>>

\* _cache_get: move_to_end.  It raises a KeyError if the entry has gone since,
\* and the pipeline goes back to the first text, or on to the next one.
Move(c) ==
    LET k == call[c] IN
    /\ k.step = "hit"
    /\ IF IsCached(Text(c))
       THEN /\ cache' = Touched(Text(c), Cached(Text(c)))
            /\ call' = [call EXCEPT ![c] = Past(c, [k EXCEPT !.out[k.at] = Cached(Text(c))])]
       ELSE /\ call' = [call EXCEPT ![c] =
                   IF k.single THEN Past(c, [k EXCEPT !.out[k.at] = Failed])
                   ELSE [NoCall EXCEPT !.step = "look", !.single = TRUE, !.texts = k.texts,
                                       !.out = [i \in DOMAIN k.texts |-> Unknown]]]
            /\ UNCHANGED cache
    /\ UNCHANGED calls

\* A chunk of the first pending text.
Chunk(c) ==
    LET k == call[c]
        t == k.pending[1]
        end == Cut(t, k.start)
    IN
    /\ k.step = "tag" /\ k.start < Len(t)
    /\ call' = [call EXCEPT ![c].raw = k.raw \cup Tagged(t, k.start, end),
                            ![c].start = IF end = Len(t) THEN end ELSE After(t, k.start, end)]
    /\ UNCHANGED <<cache, calls>>

\* All the places of a text; of a single call, its own.
Places(c, t) ==
    IF call[c].single THEN {call[c].at} ELSE {i \in DOMAIN call[c].texts : call[c].texts[i] = t}

\* _store_pending_result.
Store(c) ==
    LET k == call[c]
        t == k.pending[1]
        done == [k EXCEPT !.out = [i \in DOMAIN k.out |-> IF i \in Places(c, t) THEN Kept(k.raw) ELSE k.out[i]],
                          !.pending = Tail(k.pending), !.start = 0, !.raw = {}]
    IN
    /\ k.step = "tag" /\ k.start >= Len(t)
    /\ cache' = Stored(t, Kept(k.raw))
    /\ call' = [call EXCEPT ![c] = IF k.single THEN Past(c, done)
                                   ELSE IF done.pending = <<>> THEN [done EXCEPT !.step = "idle"] ELSE done]
    /\ UNCHANGED calls

Next ==
    \E c \in Callers :
        \/ \E input \in Inputs[c] : Begin(c, input)
        \/ Look(c) \/ Move(c) \/ Chunk(c) \/ Store(c)

Spec == Init /\ [][Next]_vars

-----------------------------------------------------------------------------
(* Properties. *)

\* A word that the overlap has room for is found although its text was cut.
WordsAreFound ==
    \A c \in Callers : \A i \in DOMAIN call[c].texts :
        LET t == call[c].texts[i] IN
        call[c].out[i] \notin {Unknown, Failed} /\ t # <<>> =>
            \A w \in WordsIn(t, 0, Len(t)) :
                w.size <= Overlap /\ w.size >= MinScore => Value(t, w) \in call[c].out[i]

\* A call that ends has an answer for each of its texts, and a text has one
\* answer: at each of its places, in the cache and for every caller.
AnswersAgree ==
    /\ \A c \in Callers : call[c].step = "idle" =>
           \A i \in DOMAIN call[c].texts : call[c].out[i] # Unknown
    /\ \A c, d \in Callers : \A i \in DOMAIN call[c].texts, j \in DOMAIN call[d].texts :
           /\ call[c].texts[i] = call[d].texts[j]
           /\ {call[c].out[i], call[d].out[j]} \cap {Unknown, Failed} = {}
           => call[c].out[i] = call[d].out[j]
    /\ \A c \in Callers : \A i \in DOMAIN call[c].texts, j \in DOMAIN cache :
           call[c].texts[i] = cache[j].text /\ call[c].out[i] \notin {Unknown, Failed}
               => call[c].out[i] = cache[j].result
=============================================================================
