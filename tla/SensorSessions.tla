----------------------------- MODULE SensorSessions -----------------------------
(***************************************************************************)
(* Alerts of a sensor become sessions (run_wazuh_indexer, run_dionaea_api  *)
(* and run_security_sensor_api in pipeline_service.py, over                *)
(* InternalSessionizer): a pull asks for what is after the cursor, groups  *)
(* the alerts it got by address and idle time, stores a row per session,   *)
(* and then saves the cursor.  A copy of the log can also be uploaded.     *)
(* Pulls and uploads overlap: each has a session of the database.          *)
(*                                                                         *)
(* Abstraction.  The log is what the sensor has, in the order it gives it  *)
(* out; an alert is its position, and has a time and an address.  The id   *)
(* of a session is made of its address and the time of its first alert.    *)
(* The detector's verdict and the event of an outlier go with the row, in  *)
(* one transaction, and are left out.  Limit is what one pull takes;       *)
(* MaxLog, MaxTime and MaxFaults are bounds.                               *)
(***************************************************************************)
EXTENDS Naturals, Sequences, FiniteSets

CONSTANTS Addresses, Pullers, Idle, Limit, MaxLog, MaxTime, MaxFaults

VARIABLES
    log,     \* the alerts: time and address
    whole,   \* a pull fails unless it reaches the end (Dionaea, host log-ins)
    cursor,  \* the position the state of the source has
    raw,     \* the alerts that are stored
    rows,    \* the sessions: id -> alerts
    pull,    \* a pull: its step and the alerts it got
    late,    \* history: sessions of a copy of the log that was not the newest stored
    faults

vars == <<log, whole, cursor, raw, rows, pull, late, faults>>

NoPull    == [step |-> "idle", batch |-> {}, to |-> 0]
Alerts    == 1..Len(log)
Observations == Addresses \X (1..MaxTime)
Id(p)     == <<log[p].ip, log[p].time>>
Newest    == IF log = <<>> THEN 0 ELSE log[Len(log)].time

TypeOK ==
    /\ log \in Seq([time : 1..MaxTime, ip : Addresses]) /\ Len(log) <= MaxLog
    /\ whole \in BOOLEAN /\ cursor \in 0..Len(log) /\ raw \subseteq Alerts
    /\ DOMAIN rows \subseteq Observations /\ \A i \in DOMAIN rows : rows[i] \subseteq raw
    /\ \A q \in Pullers : /\ pull[q].step \in {"idle", "store", "save"}
                          /\ pull[q].batch \subseteq Alerts /\ pull[q].to \in 0..Len(log)
    /\ late \subseteq DOMAIN rows /\ faults \in 0..MaxFaults

Init ==
    /\ log = <<>> /\ whole \in BOOLEAN /\ cursor = 0 /\ raw = {} /\ rows = <<>>
    /\ pull = [q \in Pullers |-> NoPull] /\ late = {} /\ faults = 0

Fault == faults < MaxFaults /\ faults' = faults + 1

-----------------------------------------------------------------------------
Alert(time, ip) ==
    /\ Len(log) < MaxLog
    /\ time >= Newest
    /\ log' = Append(log, [time |-> time, ip |-> ip])
    /\ UNCHANGED <<whole, cursor, raw, rows, pull, late, faults>>

\* One search after the cursor, or pages up to the end of the log.
Begin(q) ==
    /\ pull[q].step = "idle" /\ whole => Len(log) - cursor <= Limit
    /\ LET to == IF Len(log) < cursor + Limit THEN Len(log) ELSE cursor + Limit IN
       pull' = [pull EXCEPT ![q] = [step |-> "store", batch |-> cursor + 1..to, to |-> to]]
    /\ UNCHANGED <<log, whole, cursor, raw, rows, late, faults>>

\* The first alert of each session of a batch.
Starts(batch) ==
    {p \in batch : \A b \in batch : b < p /\ log[b].ip = log[p].ip
                                        => log[p].time - log[b].time > Idle}

SessionOf(p, batch) ==
    {b \in batch : /\ b >= p /\ log[b].ip = log[p].ip
                   /\ \A s \in Starts(batch) : log[s].ip = log[p].ip /\ s > p => b < s}

\* The rows of a batch: nothing of it is joined to the sessions stored before.
SessionRows(batch) ==
    [i \in {Id(p) : p \in Starts(batch)} |->
        SessionOf(CHOOSE p \in Starts(batch) : Id(p) = i, batch)]

\* Alerts and sessions are one transaction; a row with the same id is stored over.
Store(batch) ==
    LET new == SessionRows(batch) IN
    /\ raw' = raw \cup batch
    /\ rows' = [i \in DOMAIN new \cup DOMAIN rows |-> IF i \in DOMAIN new THEN new[i] ELSE rows[i]]
    /\ late' = late \cup (IF \E r \in raw : \A b \in batch : b < r THEN DOMAIN new ELSE {})

StoreRecords(q) ==
    /\ pull[q].step = "store" /\ Store(pull[q].batch)
    /\ pull' = [pull EXCEPT ![q] = [@ EXCEPT !.step = "save", !.batch = {}]]
    /\ UNCHANGED <<log, whole, cursor, faults>>

SaveCursor(q) ==
    /\ pull[q].step = "save" /\ cursor' = pull[q].to
    /\ pull' = [pull EXCEPT ![q] = NoPull] /\ UNCHANGED <<log, whole, raw, rows, late, faults>>

\* The request ends between two of its steps.
Fail(q) ==
    /\ pull[q].step # "idle" /\ Fault /\ pull' = [pull EXCEPT ![q] = NoPull]
    /\ UNCHANGED <<log, whole, cursor, raw, rows, late>>

\* A file with the log as it is, or as it was.
Upload(n) == n \in Alerts /\ Store(1..n) /\ UNCHANGED <<log, whole, cursor, pull, faults>>

Next ==
    \/ \E t \in 1..MaxTime, ip \in Addresses : Alert(t, ip)
    \/ \E q \in Pullers : Begin(q) \/ StoreRecords(q) \/ SaveCursor(q) \/ Fail(q)
    \/ \E n \in Alerts : Upload(n)

Spec == Init /\ [][Next]_vars

-----------------------------------------------------------------------------
\* Why an alert may have left its session: the row was stored again from a copy
\* of the log that was older, or for a session that starts at its own moment.
Overtaken(p) ==
    \/ \E i \in late : i[1] = log[p].ip /\ i[2] <= log[p].time
    \/ \E r \in Alerts : r > p /\ log[r] = log[p]

(***************************************************************************)
(* An alert that no pull will bring again is stored and in a session,      *)
(* however pulls, their failures and uploads overlap, unless its session   *)
(* was stored over: by what had read the log before a newer copy of it was *)
(* stored, or by a session with the same address and start.                *)
(***************************************************************************)
PassedIsInASession ==
    \A p \in 1..cursor : p \in raw /\ (Overtaken(p) \/ \E i \in DOMAIN rows : p \in rows[i])

(***************************************************************************)
(* Two sessions of an address are apart by more than the idle time: "the   *)
(* start of a source session is stable while an append-only log grows".    *)
(***************************************************************************)
SessionsAreApart ==
    \A i, j \in DOMAIN rows : i # j /\ i[1] = j[1] =>
        \A p \in rows[i], r \in rows[j] :
            p < r => log[r].time - log[p].time > Idle

=============================================================================
