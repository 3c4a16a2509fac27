----------------------------- MODULE LoginLimiter -----------------------------
(***************************************************************************)
(* Sign-in attempts (core/rate_limit.py, used by login in                  *)
(* api/v1/router.py).  An attempt is counted for the client and for the    *)
(* account it names, each over a sliding window; the password is then      *)
(* checked, and a success forgets both counts.  The limiter keeps at most  *)
(* MaxBuckets keys and drops the oldest one to make room.                  *)
(*                                                                         *)
(* Abstraction.  The clock is a number.  The key of an account is the      *)
(* account.  Both counts of an attempt are taken in one step; the check of *)
(* the password, for which other attempts do not wait, is another.         *)
(***************************************************************************)
EXTENDS Naturals, FiniteSets, Sequences, SequencesExt

CONSTANTS Clients, Accounts, Limits, Window, MaxBuckets, MaxClock, MaxPending

Keys == Clients \cup Accounts

VARIABLES
    now,
    buckets,  \* _buckets: the keys in the order they came, each with its times
    pending,  \* the attempts whose password is being checked
    promise,  \* history: when a refused key was told to try again (0: not)
    admitted  \* history: when attempts of a key passed since it was forgotten

vars == <<now, buckets, pending, promise, admitted>>

TypeOK ==
    /\ now \in 0..MaxClock /\ Len(buckets) <= MaxBuckets
    /\ \A i \in DOMAIN buckets : buckets[i].key \in Keys /\ buckets[i].times \in Seq(0..MaxClock)
    /\ pending \in [Clients \X Accounts -> 0..MaxPending]
    /\ promise \in [Keys -> 0..(MaxClock + Window)] /\ admitted \in [Keys -> Seq(0..MaxClock)]

Init ==
    /\ now = 0 /\ buckets = <<>> /\ pending = [p \in Clients \X Accounts |-> 0]
    /\ promise = [k \in Keys |-> 0] /\ admitted = [k \in Keys |-> <<>>]

-----------------------------------------------------------------------------
(* The limiter, on the buckets b.                                          *)

TimesOf(b, k) ==
    LET found == SelectSeq(b, LAMBDA x : x.key = k)
    IN  IF found = <<>> THEN <<>> ELSE found[1].times

Known(b, k) == \E i \in DOMAIN b : b[i].key = k

\* Mutation: room is made only when there is one key too many.
Roomy_OneMore(b) == IF Len(b) <= MaxBuckets THEN b ELSE Tail(b)

\* _make_room: no bucket is ever left empty, so it is the oldest key that goes.
Roomy(b) == IF Len(b) < MaxBuckets THEN b ELSE Tail(b)

\* Mutation: an attempt is dropped a tick later.
Inside_Longer(times) == SelectSeq(times, LAMBDA t : t + Window >= now)

\* What the window still holds: bucket[0] <= cutoff is dropped.
Inside(times) == SelectSeq(times, LAMBDA t : t + Window > now)

IsFull(b, k) == Len(Inside(TimesOf(b, k))) >= Limits[k]

\* consume, refused or not: a new key makes room, an old one is pruned.
Consumed(b, k) ==
    LET kept  == Inside(TimesOf(b, k))
        times == IF IsFull(b, k) THEN kept ELSE Append(kept, now)
    IN  IF Known(b, k)
        THEN [i \in DOMAIN b |-> IF b[i].key = k THEN [key |-> k, times |-> times] ELSE b[i]]
        ELSE Append(Roomy(b), [key |-> k, times |-> times])

\* window_seconds - (now - bucket[0]).
RetryAt(b, k) == Head(Inside(TimesOf(b, k))) + Window

\* clear.
Forgotten(b, c, a) == SelectSeq(b, LAMBDA x : x.key \notin {c, a})

-----------------------------------------------------------------------------
\* What the history keeps: nothing of a key the limiter has dropped.
Kept(b, f, none) == [k \in Keys |-> IF Known(b, k) THEN f[k] ELSE none]

\* login, up to the password: the client's count, and if it passes the account's.
Attempt(c, a) ==
    LET first  == Consumed(buckets, c)
        second == Consumed(first, a)
        byClient == IsFull(buckets, c)
        byAccount == ~byClient /\ IsFull(first, a)
        passed == (IF byClient THEN {} ELSE {c}) \cup (IF byClient \/ byAccount THEN {} ELSE {a})
    IN  /\ buckets' = IF byClient THEN first ELSE second
        /\ IF a \in passed
           THEN pending[<<c, a>>] < MaxPending /\ pending' = [pending EXCEPT ![<<c, a>>] = @ + 1]
           ELSE UNCHANGED pending
        /\ admitted' = Kept(buckets', [k \in Keys |->
              LET before == Kept(first, admitted, <<>>)[k]
              IN  IF k \in passed THEN Append(before, now) ELSE before], <<>>)
        /\ promise' = Kept(buckets', [k \in Keys |->
              CASE k \in passed          -> 0
                [] k = c /\ byClient     -> RetryAt(first, c)
                [] k = a /\ byAccount    -> RetryAt(second, a)
                [] OTHER                 -> Kept(first, promise, 0)[k]], 0)
        /\ UNCHANGED now

\* The password is wrong, or the account is not active: the counts stand.
Rejected(c, a) ==
    /\ pending[<<c, a>>] > 0 /\ pending' = [pending EXCEPT ![<<c, a>>] = @ - 1]
    /\ UNCHANGED <<now, buckets, promise, admitted>>

\* login: AUTH_RATE_LIMITER.clear.
SignedIn(c, a) ==
    /\ pending[<<c, a>>] > 0 /\ pending' = [pending EXCEPT ![<<c, a>>] = @ - 1]
    /\ buckets' = Forgotten(buckets, c, a)
    /\ promise' = [promise EXCEPT ![c] = 0, ![a] = 0]
    /\ admitted' = [admitted EXCEPT ![c] = <<>>, ![a] = <<>>]
    /\ UNCHANGED now

\* Nothing older than the window matters to the history either.
Tick ==
    /\ now < MaxClock /\ now' = now + 1
    /\ admitted' = [k \in Keys |-> SelectSeq(admitted[k], LAMBDA t : t + Window > now')]
    /\ UNCHANGED <<buckets, pending, promise>>

Next ==
    \/ Tick
    \/ \E c \in Clients, a \in Accounts : Attempt(c, a) \/ Rejected(c, a) \/ SignedIn(c, a)

Spec == Init /\ [][Next]_vars

-----------------------------------------------------------------------------
(* Properties.                                                             *)

\* The limit holds over every window, not only over those that start with a
\* bucket: no key has more attempts admitted in one than its limit, and a key
\* that was told when to try again is refused no longer then.
LimitIsKept == \A k \in Keys :
    /\ Len(admitted[k]) <= Limits[k]
    /\ promise[k] # 0 /\ now >= promise[k] => ~IsFull(buckets, k)
=============================================================================
