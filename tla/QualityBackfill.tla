-------------------------- MODULE QualityBackfill --------------------------
(***************************************************************************)
(* What is stored of the events is brought up to the rules of today        *)
(* (services/cti_quality_service.py): observables that are found now are   *)
(* added (pipeline/extraction/ioc_extractor.py), entities that the policy  *)
(* rejects are flagged or removed, and the relationships that were made by *)
(* rules are made again (pipeline/extraction/relation_extractor.py).       *)
(* Meanwhile the pipeline stores events anew: either may have read an      *)
(* event before the other writes it.                                       *)
(*                                                                         *)
(* Abstraction.  Of a text the model has the matches of the expressions    *)
(* and the segments, with the cues and the names in them; no segment has   *)
(* more pairs than MAX_PAIRS_PER_SEGMENT.  A relationship has the folded   *)
(* names, as it is compared.  MaxStored and MaxFaults are bounds.          *)
(***************************************************************************)
EXTENDS Naturals, Sequences, FiniteSets

CONSTANTS
    Events,
    Texts,     \* [texts -> [matches, segments, tagged]]
    Legacy,    \* [Events -> what an older version may have stored]
    Fold,      \* [values -> values], casefold
    TypeOf,    \* of an entity
    Managed,   \* entities of a DNRTI extractor
    Passing,   \* entities that the quality policy accepts
    None,
    MaxStored, MaxFaults

VARIABLES
    store,
    job,      \* the service, with what it has read
    upsert,   \* an event that the pipeline stores, with what it has read of it
    applied,  \* history: what the last application left of an event that was as it was read
    before,   \* history: the store as the pipeline last wrote it
    crossed,  \* history: events that the service, since then, wrote on what it had read before
    stored, faults

vars == <<store, job, upsert, applied, before, crossed, stored, faults>>

NoJob   == [mode |-> None, remove |-> FALSE, read |-> None]
NoStore == [event |-> None, text |-> None, read |-> None]

Init ==
    /\ store \in {f \in [Events -> UNION {Legacy[e] : e \in Events}] : \A e \in Events : f[e] \in Legacy[e]}
    /\ job = NoJob /\ upsert = NoStore /\ applied = [e \in Events |-> None] /\ before = store
    /\ crossed = {} /\ stored = 0 /\ faults = 0

-----------------------------------------------------------------------------
(* IoCExtractor.extract *)

MatchesOf(t, kind) == {m \in Texts[t].matches : m.kind = kind}

Overlaps(m, u) == m.start < u.end /\ m.end > u.start

\* Within a URL only domains are looked for, other than that of a URL.
IsFound(t, m) ==
    CASE m.kind = "url"    -> TRUE
      [] m.kind = "domain" -> \A u \in MatchesOf(t, "url") : u.host # m.value
      [] OTHER             -> \A u \in MatchesOf(t, "url") : ~Overlaps(m, u)

\* _deduplicate, _key: the first of the spellings.
Observables(t) ==
    LET found == {m \in Texts[t].matches : IsFound(t, m)}
        isFirst(m) == \A n \in found : n.kind = m.kind /\ Fold[n.value] = Fold[m.value] => m.start <= n.start
    IN {<<m.kind, m.value>> : m \in {x \in found : isFirst(x)}}

Key(i)  == <<i[1], Fold[i[2]]>>
Keys(S) == {Key(i) : i \in S}

-----------------------------------------------------------------------------
(* RelationExtractor.extract *)

Actors  == {"threat_actor", "hackorg"}
Tools   == {"tool", "malware", "tool_or_malware", "sample_file"}
Targets == {"organization", "industry_sector", "location", "security_team"}

OfType(entities, types) == {Fold[e] : e \in {x \in entities : TypeOf[x] \in types}}

\* The names that are in one segment, when it has the word for it.
InSegment(segment, entities, indicators) ==
    LET named(S) == S \cap segment.names
        cves     == {Fold[i[2]] : i \in {x \in indicators : x[1] = "cve"}}
        pairs(cue, subjects, objects) ==
            IF cue \in segment.cues
            THEN {<<s, cue, o>> : s \in named(subjects), o \in named(objects)} ELSE {}
    IN pairs("USES", OfType(entities, Actors), OfType(entities, Tools))
       \cup pairs("TARGETS", OfType(entities, Actors), OfType(entities, Targets))
       \cup pairs("EXPLOITS", OfType(entities, Tools), cves)

Relationships(t, entities, indicators) ==
    UNION {InSegment(s, entities, indicators) : s \in Texts[t].segments}
    \cup {<<"report", "MENTIONS", Fold[e]>> : e \in entities}

-----------------------------------------------------------------------------
(* The pipeline. *)

\* What it stores of a text today.
Processed(t) ==
    LET entities == {e \in Texts[t].tagged : e \in Passing} IN
    [text |-> t, indicators |-> Observables(t), entities |-> entities,
     rules |-> Relationships(t, entities, Observables(t)), others |-> {}]

\* upsert_cti_object begins with the rows of the event.
StoreReads(e, t) ==
    /\ upsert = NoStore /\ stored < MaxStored /\ stored' = stored + 1
    /\ upsert' = [event |-> e, text |-> t, read |-> store[e]]
    /\ UNCHANGED <<store, job, applied, before, crossed, faults>>

\* Rows that were read are kept or deleted, whatever else is there now.
Synced(now, read, new) == (now \ (read \ new)) \cup (new \ read)

\* Relationships that the service has made again are other rows than those that were read.
SyncedRules(now, read, new) == IF now = read THEN new ELSE now \cup (new \ read)

StoredAnew(now, read, new) ==
    [new EXCEPT !.indicators = Synced(now.indicators, read.indicators, @),
                !.entities = Synced(now.entities, read.entities, @),
                !.rules = SyncedRules(now.rules, read.rules, @),
                !.others = Synced(now.others, read.others, @)]

\* An observable that the other one has inserted meanwhile (uq_event_indicator).
IsInserted(now, read, added) == (added \ read.indicators) \cap now.indicators # {}

StoreWrites ==
    LET e == upsert.event  new == Processed(upsert.text) IN
    /\ upsert # NoStore /\ ~IsInserted(store[e], upsert.read, new.indicators)
    /\ store' = [store EXCEPT ![e] = StoredAnew(@, upsert.read, new)]
    /\ before' = [before EXCEPT ![e] = store'[e]] /\ crossed' = crossed \ {e}
    /\ upsert' = NoStore /\ UNCHANGED <<job, applied, stored, faults>>

StoreFails ==
    /\ upsert # NoStore
    /\ IsInserted(store[upsert.event], upsert.read, Processed(upsert.text).indicators)
    /\ upsert' = NoStore /\ UNCHANGED <<store, job, applied, before, crossed, stored, faults>>

-----------------------------------------------------------------------------
(* The service. *)

Added(x) == {i \in Observables(x.text) : Key(i) \notin Keys(x.indicators)}

IsRejected(e) == e \in Managed /\ e \notin Passing

Retained(x) == {e \in x.entities : ~IsRejected(e)}

Desired(x) == Relationships(x.text, Retained(x), x.indicators \cup Added(x))

IsChanged(x, remove) == Added(x) # {} \/ x.rules # Desired(x) \/ (remove /\ Retained(x) # x.entities)

\* What is written of an event that was read as it is in x.
Updated(now, x, remove) ==
    [now EXCEPT !.indicators = @ \cup Added(x),
                !.entities = IF remove THEN @ \ (x.entities \ Retained(x)) ELSE @,
                !.rules = IF x.rules = Desired(x) THEN @ ELSE (@ \ x.rules) \cup Desired(x)]

Read(mode, remove) ==
    /\ job = NoJob /\ remove => mode = "apply"
    /\ job' = [mode |-> mode, remove |-> remove, read |-> store]
    /\ UNCHANGED <<store, upsert, applied, before, crossed, stored, faults>>

\* A row to delete that is not there any more is none; one to insert that is there is an error.
Collides == \E e \in Events : IsInserted(store[e], job.read[e], Added(job.read[e]))

Apply ==
    /\ job.mode = "apply" /\ ~Collides
    /\ store' = [e \in Events |-> IF IsChanged(job.read[e], job.remove)
                                  THEN Updated(store[e], job.read[e], job.remove) ELSE store[e]]
    /\ applied' = [e \in Events |-> IF store[e] = job.read[e] THEN store'[e] ELSE None]
    /\ crossed' = crossed \cup {e \in Events : store[e] # job.read[e]}
    /\ job' = NoJob /\ UNCHANGED <<upsert, before, stored, faults>>

\* The transaction is rolled back: of a preview, and of an error.
RollBack ==
    /\ job # NoJob
    /\ IF job.mode = "preview" \/ Collides THEN UNCHANGED faults
       ELSE faults < MaxFaults /\ faults' = faults + 1
    /\ job' = NoJob /\ UNCHANGED <<store, upsert, applied, before, crossed, stored>>

Next ==
    \/ \E e \in Events, t \in DOMAIN Texts : StoreReads(e, t)
    \/ StoreWrites \/ StoreFails
    \/ \E mode \in {"preview", "apply"}, remove \in BOOLEAN : Read(mode, remove)
    \/ Apply \/ RollBack

Spec == Init /\ [][Next]_vars

-----------------------------------------------------------------------------
(* Properties. *)

TypeOK ==
    /\ \A e \in Events : store[e].text \in DOMAIN Texts /\ store[e].entities \subseteq DOMAIN TypeOf
    /\ job.mode \in {None, "preview", "apply"} /\ upsert.event \in Events \cup {None} /\ stored \in 0..MaxStored /\ faults \in 0..MaxFaults

(***************************************************************************)
(* An application leaves nothing for another one to do in an event that    *)
(* the pipeline did not store since the service read it, and what it       *)
(* leaves of its relationships is between what is stored of the event.     *)
(***************************************************************************)
RepeatFindsNothing ==
    \A e \in Events : store[e] = applied[e] =>
        /\ ~IsChanged(store[e], FALSE)
        /\ \A r \in store[e].rules :
              /\ r[1] \in {"report"} \cup {Fold[x] : x \in Retained(store[e])}
              /\ r[3] \in {Fold[x] : x \in Retained(store[e])} \cup {Fold[i[2]] : i \in store[e].indicators}

(***************************************************************************)
(* Nothing that was stored is lost but relationships of rules and what the *)
(* policy rejects, also of an event that the pipeline stores beside the    *)
(* service, and an observable that is only beside a URL is found.  No      *)
(* value is stored in two spellings that was not, unless the pipeline has  *)
(* stored the event since the service read it.                             *)
(***************************************************************************)
NothingElseIsLost ==
    \A e \in Events :
        /\ before[e].indicators \subseteq store[e].indicators
        /\ {x \in before[e].entities : ~IsRejected(x)} \subseteq store[e].entities
        /\ store[e].others = before[e].others
        /\ e \in crossed \/ \A i, j \in store[e].indicators :
              i # j /\ Key(i) = Key(j) => {i, j} \subseteq before[e].indicators
        /\ store[e] = applied[e] =>
              \A m \in Texts[store[e].text].matches :
                  m.kind # "domain" /\ (\A u \in MatchesOf(store[e].text, "url") :
                                           u.end <= m.start \/ m.end <= u.start)
                      => <<m.kind, Fold[m.value]>> \in Keys(store[e].indicators)

BackfillHolds == RepeatFindsNothing /\ NothingElseIsLost
=============================================================================
