------------------------- MODULE MCCollectionProofs -------------------------
(***************************************************************************)
(* What is proved of the collector that MCCollection puts together, for    *)
(* any records, entries, messages, pages and faults: the types, that what  *)
(* the state of a source has passed was dealt with, and that no record of  *)
(* a feed is handed over twice.                                            *)
(*                                                                         *)
(* The services share no state, so each has an invariant of its own, which *)
(* its steps keep and the steps of the others leave alone.  The jobs have  *)
(* theirs in CollectionJobsProofs.  The names of the others begin with     *)
(* Nvd (the window of a database), Social (the channel and the search) and *)
(* Rss (the feed).                                                         *)
(***************************************************************************)
EXTENDS MCCollection, CollectionJobsProofs, FiniteSetTheorems, TLAPS

(* Counting.                                                                *)

\* The members of S that f puts before r.
Before(S, f, r) == {s \in S : f[s] < f[r]}

\* The order in which a number of their own puts the members of a finite set:
\* each has a place, from 0 on, and each place is taken.
LEMMA PlacesTaken ==
    ASSUME NEW S, IsFiniteSet(S), NEW f, \A s \in S : f[s] \in Int,
           \A r, s \in S : r # s => f[r] # f[s]
    PROVE  /\ Cardinality(S) \in Nat
           /\ \A r \in S : /\ IsFiniteSet(Before(S, f, r))
                           /\ Cardinality(Before(S, f, r)) \in 0..(Cardinality(S) - 1)
           /\ \A r, s \in S : f[r] < f[s] =>
                 Cardinality(Before(S, f, r)) < Cardinality(Before(S, f, s))
           /\ \A k \in 0..(Cardinality(S) - 1) :
                 \E r \in S : Cardinality(Before(S, f, r)) = k
<1> DEFINE P == [r \in S |-> Cardinality(Before(S, f, r))]
<1>1. Cardinality(S) \in Nat  BY FS_CardinalityType
<1>2. ASSUME NEW r \in S
      PROVE  /\ IsFiniteSet(Before(S, f, r)) /\ Cardinality(Before(S, f, r)) \in Nat
             /\ Cardinality(Before(S, f, r)) < Cardinality(S)
  <2>1. /\ IsFiniteSet(S \ {r}) /\ Cardinality(S \ {r}) = Cardinality(S) - 1
    BY FS_RemoveElement
  <2>2. Before(S, f, r) \in SUBSET (S \ {r})  BY DEF Before
  <2>3. /\ IsFiniteSet(Before(S, f, r))
        /\ Cardinality(Before(S, f, r)) <= Cardinality(S \ {r})
    BY <2>1, <2>2, FS_Subset
  <2>4. Cardinality(Before(S, f, r)) \in Nat  BY <2>3, FS_CardinalityType
  <2> QED  BY <1>1, <2>1, <2>3, <2>4
<1>3. ASSUME NEW r \in S, NEW s \in S, f[r] < f[s]
      PROVE  Cardinality(Before(S, f, r)) < Cardinality(Before(S, f, s))
  <2>1. r \notin Before(S, f, r)  BY DEF Before
  <2>2. /\ IsFiniteSet(Before(S, f, r) \cup {r})
        /\ Cardinality(Before(S, f, r) \cup {r}) = Cardinality(Before(S, f, r)) + 1
    BY <1>2, <2>1, FS_AddElement
  <2>3. Before(S, f, r) \cup {r} \in SUBSET Before(S, f, s)  BY <1>3 DEF Before
  <2>4. Cardinality(Before(S, f, r) \cup {r}) <= Cardinality(Before(S, f, s))
    BY <1>2, <2>3, FS_Subset
  <2> QED  BY <1>2, <2>2, <2>4
<1>4. ASSUME NEW k \in 0..(Cardinality(S) - 1)
      PROVE  \E r \in S : Cardinality(Before(S, f, r)) = k
  <2> DEFINE T == 0..(Cardinality(S) - 1)
  <2>1. IsFiniteSet(T) /\ Cardinality(T) = Cardinality(S)
    BY <1>1, FS_Interval
  <2>2. P \in [S -> T]  BY <1>1, <1>2
  <2>3. \A r, s \in S : P[r] = P[s] => r = s
    <3> SUFFICES ASSUME NEW r \in S, NEW s \in S, P[r] = P[s], r # s PROVE FALSE
      OBVIOUS
    <3>1. f[r] < f[s] \/ f[s] < f[r]  OBVIOUS
    <3>2. P[r] \in Nat /\ P[s] \in Nat  BY <1>2
    <3> QED  BY <1>3, <3>1, <3>2
  <2>4. P \in Injection(S, T)  BY <2>2, <2>3 DEF Injection, IsInjective
  <2> HIDE DEF P, T
  <2>5. P \in Surjection(S, T)  BY <2>1, <2>4, FS_Injection
  <2>6. PICK r \in S : P[r] = k  BY <2>5 DEF Surjection, T
  <2> QED  BY <2>6 DEF P
<1> QED  BY <1>1, <1>2, <1>3, <1>4

\* Cardinality means the same in the modules that the composition takes up.
LEMMA Counting ==
    \A S : Advisory!Cardinality(S) = Cardinality(S) /\ Social!Cardinality(S) = Cardinality(S)
BY DEF Advisory!Cardinality, Social!Cardinality, Cardinality

-----------------------------------------------------------------------------
(* The pages of a window.                                                  *)

NvdWindows == [from : 0..nvdClock, to : 0..nvdClock, index : Nat]
Windows == [from : Nat, to : Nat, index : Nat]

\* InWindow and Place, of a given listing.
In(f, w)    == {r \in NvdRecords : f[r] # 0 /\ w.from <= f[r] /\ f[r] <= w.to}
At(f, w, r) == Cardinality(Before(In(f, w), f, r))

\* No two records are modified at the same time.
Distinct(f) == \A r, s \in NvdRecords : r # s /\ f[r] # 0 => f[r] # f[s]

\* The records that were on a page are among those of "had".
Had(f, w, had) == \A r \in In(f, w) : At(f, w, r) < w.index => <<r, f[r]>> \in had

\* A continuation is within its window.
Fits(f, w) == w.index = 0 \/ w.index < Cardinality(In(f, w))

\* The records of a window have places.
LEMMA Listing ==
    ASSUME NEW f \in [NvdRecords -> Nat], Distinct(f), NEW w \in Windows
    PROVE  /\ IsFiniteSet(In(f, w)) /\ Cardinality(In(f, w)) \in Nat
           /\ Cardinality(In(f, w)) <= Cardinality(NvdRecords)
           /\ \A r \in In(f, w) : /\ At(f, w, r) \in 0..(Cardinality(In(f, w)) - 1)
                                  /\ IsFiniteSet(Before(In(f, w), f, r))
           /\ \A r, s \in In(f, w) : f[r] < f[s] => At(f, w, r) < At(f, w, s)
           /\ \A k \in 0..(Cardinality(In(f, w)) - 1) : \E r \in In(f, w) : At(f, w, r) = k
<1>1. IsFiniteSet(NvdRecords) /\ In(f, w) \in SUBSET NvdRecords
  BY SourcesAssumption DEF In
<1>2. IsFiniteSet(In(f, w)) /\ Cardinality(In(f, w)) <= Cardinality(NvdRecords)  BY <1>1, FS_Subset
<1>3. \A s \in In(f, w) : f[s] \in Int  BY DEF In
<1>4. \A r, s \in In(f, w) : r # s => f[r] # f[s]  BY DEF In, Distinct
<1> QED  BY <1>2, <1>3, <1>4, PlacesTaken DEF At

\* r is modified at a time t after all others: the listing f becomes g. A window
\* w becomes v, which ends where w does or is up to t. What was on a page of w
\* is in had, and what moves up to its last one.
Moves(f, g, r, t, w, v, had) ==
    /\ f \in [NvdRecords -> Nat] /\ Distinct(f) /\ r \in NvdRecords
    /\ t \in Nat /\ t # 0 /\ \A s \in NvdRecords : f[s] < t
    /\ g = [f EXCEPT ![r] = t]
    /\ w \in Windows /\ v \in Windows /\ v.from = w.from /\ v.index = w.index
    /\ w.to < t /\ (v.to = w.to \/ (w.to = t - 1 /\ v.to = t))
    /\ Had(f, w, had)
    /\ \A s \in In(f, w) :
          r \in In(f, w) /\ At(f, w, r) < w.index /\ At(f, w, s) = w.index => <<s, f[s]>> \in had

\* Another record that was not on a page, and is in front of the continuation
\* now, is the one that moved up.
LEMMA OthersMove ==
    ASSUME NEW f, NEW g, NEW r, NEW t, NEW w, NEW v, NEW had, Moves(f, g, r, t, w, v, had)
    PROVE  /\ In(g, v) \ {r} = In(f, w) \ {r}
           /\ \A s \in In(g, v) \ {r} : At(g, v, s) < v.index => <<s, g[s]>> \in had
<1>1. g[r] = t /\ \A s \in NvdRecords \ {r} : g[s] = f[s]  BY DEF Moves
<1>2. In(g, v) \ {r} = In(f, w) \ {r}
  <2> SUFFICES ASSUME NEW s \in NvdRecords \ {r}
               PROVE  f[s] <= v.to <=> f[s] <= w.to
    BY <1>1 DEF In, Moves
  <2>1. f[s] \in Nat /\ f[s] < t /\ w.to \in Nat /\ v.to \in Nat  BY DEF Windows, Moves
  <2> QED  BY <2>1 DEF Moves
<1>3. ASSUME NEW s \in In(g, v) \ {r}, At(g, v, s) < v.index
      PROVE  <<s, g[s]>> \in had
  <2>1. s \in In(f, w) /\ s \in NvdRecords /\ g[s] = f[s]  BY <1>1, <1>2 DEF In
  <2>2. Before(In(g, v), g, s) = Before(In(f, w), f, s) \ {r}
    <3>1. ~(g[r] < g[s])  BY <1>1, <2>1 DEF Moves
    <3>2. \A x \in In(g, v) : x # r => g[x] = f[x]  BY <1>1 DEF In
    <3> QED  BY <1>2, <2>1, <3>1, <3>2 DEF Before
  <2>3. /\ IsFiniteSet(Before(In(f, w), f, s)) /\ At(f, w, s) \in Nat
        /\ r \in In(f, w) /\ f[r] < f[s] => At(f, w, r) < At(f, w, s) /\ At(f, w, r) \in Nat
    BY <2>1, Listing DEF Moves
  <2>4. At(g, v, s) = IF r \in Before(In(f, w), f, s) THEN At(f, w, s) - 1 ELSE At(f, w, s)
    <3>1. Cardinality(Before(In(f, w), f, s) \ {r})
             = IF r \in Before(In(f, w), f, s) THEN Cardinality(Before(In(f, w), f, s)) - 1
               ELSE Cardinality(Before(In(f, w), f, s))
      BY <2>3, FS_RemoveElement
    <3> QED  BY <2>2, <3>1 DEF At
  <2>5. w.index \in Nat /\ v.index = w.index  BY DEF Windows, Moves
  <2>6. CASE At(f, w, s) < w.index  BY <2>1, <2>6 DEF Had, Moves
  <2>7. CASE ~(At(f, w, s) < w.index)
    <3>1. r \in Before(In(f, w), f, s) /\ At(f, w, s) = w.index
      BY <1>3, <2>3, <2>4, <2>5, <2>7
    <3> QED  BY <2>1, <2>3, <3>1 DEF Before, Moves
  <2> QED  BY <2>6, <2>7
<1> QED  BY <1>2, <1>3

\* A window whose end is before t loses the record; in one that is up to t it is
\* the last, and not in front of the continuation.
LEMMA Moved ==
    ASSUME NEW f, NEW g, NEW r, NEW t, NEW w, NEW v, NEW had, Moves(f, g, r, t, w, v, had),
           v.to = w.to \/ (Fits(f, w) /\ v.to = t /\ v.from <= t)
    PROVE  Had(g, v, had) /\ (v.to = t => Fits(g, v))
<1> DEFINE O == In(f, w) \ {r}
<1>1. g[r] = t /\ \A s \in NvdRecords \ {r} : g[s] = f[s]  BY DEF Moves
<1>2. /\ In(g, v) \ {r} = O
      /\ \A s \in In(g, v) \ {r} : At(g, v, s) < v.index => <<s, g[s]>> \in had
  BY OthersMove
<1>3. CASE v.to = w.to
  <2>1. r \notin In(g, v) /\ v.to # t  BY <1>1, <1>3 DEF In, Windows, Moves
  <2> QED  BY <1>2, <2>1 DEF Had
<1>4. CASE Fits(f, w) /\ v.to = t /\ v.from <= t
  <2>1. r \in In(g, v) /\ In(g, v) = O \cup {r} /\ r \notin O
    BY <1>1, <1>2, <1>4 DEF In, Moves
  <2>2. IsFiniteSet(In(f, w)) /\ Cardinality(In(f, w)) \in Nat  BY Listing DEF Moves
  <2>3. /\ IsFiniteSet(O) /\ Cardinality(O) \in Nat
        /\ Cardinality(O) + 1 >= Cardinality(In(f, w))
    <3>1. /\ IsFiniteSet(O)
          /\ Cardinality(O) = IF r \in In(f, w) THEN Cardinality(In(f, w)) - 1
                              ELSE Cardinality(In(f, w))
      BY <2>2, FS_RemoveElement
    <3>2. Cardinality(O) \in Nat  BY <3>1, FS_CardinalityType
    <3> QED  BY <2>2, <3>1, <3>2
  <2>4. Cardinality(In(g, v)) = Cardinality(O) + 1  BY <2>1, <2>3, FS_AddElement
  <2>5. At(g, v, r) = Cardinality(O)
    <3>1. \A s \in O : g[s] < g[r]  BY <1>1 DEF In, Moves
    <3>2. ~(g[r] < g[r])  BY <1>1 DEF Moves
    <3>3. Before(In(g, v), g, r) = O  BY <2>1, <3>1, <3>2 DEF Before
    <3> QED  BY <3>3 DEF At
  <2>6. w.index \in Nat /\ v.index = w.index  BY DEF Windows, Moves
  <2> HIDE DEF O
  <2>7. ~(At(g, v, r) < v.index) /\ Fits(g, v)  BY <1>4, <2>2, <2>3, <2>4, <2>5, <2>6 DEF Fits
  <2> QED  BY <1>2, <2>1, <2>7 DEF Had
<1> QED  BY <1>3, <1>4

\* The page of a window, and what is handed over of it.
OnPage(f, w)   == {r \in In(f, w) : w.index <= At(f, w, r) /\ At(f, w, r) < w.index + NvdPageSize}
Rows(f, w)     == {<<r, f[r]>> : r \in OnPage(f, w)}
NextIndex(f, w) == w.index + Cardinality(OnPage(f, w))

\* A page has no more records than it has room for.
LEMMA PageFits ==
    ASSUME NEW f \in [NvdRecords -> Nat], Distinct(f), NEW w \in Windows
    PROVE  /\ IsFiniteSet(OnPage(f, w)) /\ Cardinality(OnPage(f, w)) \in Nat
           /\ Cardinality(OnPage(f, w)) <= NvdPageSize
<1> DEFINE P == OnPage(f, w)
           T == w.index..(w.index + NvdPageSize - 1)
           h == [r \in P |-> At(f, w, r)]
<1>1. w.index \in Nat /\ NvdPageSize \in Nat /\ NvdPageSize > 0
  BY SourcesAssumption DEF Windows
<1>2. IsFiniteSet(T) /\ Cardinality(T) = NvdPageSize  BY <1>1, FS_Interval
<1>3. P \subseteq In(f, w)  BY DEF OnPage
<1>4. h \in [P -> T]
  <2> SUFFICES ASSUME NEW r \in P PROVE At(f, w, r) \in T
    OBVIOUS
  <2>1. At(f, w, r) \in Int  BY <1>3, Listing
  <2> QED  BY <1>1, <2>1 DEF OnPage
<1>5. \A r, s \in P : h[r] = h[s] => r = s
  <2> SUFFICES ASSUME NEW r \in P, NEW s \in P, r # s PROVE At(f, w, r) # At(f, w, s)
    OBVIOUS
  <2>1. r \in In(f, w) /\ s \in In(f, w) /\ f[r] \in Nat /\ f[s] \in Nat /\ f[r] # f[s]
    BY <1>3 DEF In, Distinct
  <2>2. At(f, w, r) \in Int /\ At(f, w, s) \in Int  BY <2>1, Listing
  <2>3. f[r] < f[s] => At(f, w, r) < At(f, w, s)  BY <2>1, Listing
  <2>4. f[s] < f[r] => At(f, w, s) < At(f, w, r)  BY <2>1, Listing
  <2> QED  BY <2>1, <2>2, <2>3, <2>4
<1>6. h \in Injection(P, T)  BY <1>4, <1>5 DEF Injection, IsInjective
<1> HIDE DEF P, T, h
<1>7. IsFiniteSet(P) /\ Cardinality(P) <= NvdPageSize  BY <1>2, <1>6, FS_Injection
<1>8. Cardinality(P) \in Nat  BY <1>7, FS_CardinalityType
<1> QED  BY <1>7, <1>8 DEF P

\* What is in front of the next page was on this one, or on one before.
LEMMA PageRead ==
    ASSUME NEW f \in [NvdRecords -> Nat], Distinct(f), NEW w \in Windows,
           NEW had, Had(f, w, had)
    PROVE  /\ \A r \in In(f, w) : At(f, w, r) < NextIndex(f, w) => <<r, f[r]>> \in had \cup Rows(f, w)
           /\ OnPage(f, w) = {} \/ NextIndex(f, w) >= Cardinality(In(f, w)) =>
                 \A r \in In(f, w) : <<r, f[r]>> \in had \cup Rows(f, w)
<1>1. /\ Cardinality(OnPage(f, w)) \in Nat /\ Cardinality(OnPage(f, w)) <= NvdPageSize
      /\ w.index \in Nat /\ NvdPageSize \in Nat /\ NvdPageSize > 0
  BY PageFits, SourcesAssumption DEF Windows
<1>2. ASSUME NEW r \in In(f, w), At(f, w, r) < NextIndex(f, w)
      PROVE  <<r, f[r]>> \in had \cup Rows(f, w)
  <2>1. At(f, w, r) \in Int  BY Listing
  <2>2. CASE At(f, w, r) < w.index  BY <2>2 DEF Had
  <2>3. CASE ~(At(f, w, r) < w.index)
    <3>1. r \in OnPage(f, w)  BY <1>1, <1>2, <2>1, <2>3 DEF OnPage, NextIndex
    <3> QED  BY <3>1 DEF Rows
  <2> QED  BY <2>2, <2>3
<1>3. ASSUME OnPage(f, w) = {} \/ NextIndex(f, w) >= Cardinality(In(f, w)), NEW r \in In(f, w)
      PROVE  <<r, f[r]>> \in had \cup Rows(f, w)
  <2>1. At(f, w, r) \in Int /\ At(f, w, r) < Cardinality(In(f, w)) /\ Cardinality(In(f, w)) \in Nat
    BY Listing
  <2>2. CASE NextIndex(f, w) >= Cardinality(In(f, w))
    BY <1>1, <1>2, <2>1, <2>2 DEF NextIndex
  <2>3. CASE OnPage(f, w) = {} /\ ~(At(f, w, r) < w.index)
    <3>1. w.index \in 0..(Cardinality(In(f, w)) - 1)  BY <1>1, <2>1, <2>3
    <3>2. PICK s \in In(f, w) : At(f, w, s) = w.index  BY <3>1, Listing
    <3>3. s \in OnPage(f, w)  BY <1>1, <3>2 DEF OnPage
    <3> QED  BY <2>3, <3>3
  <2>4. CASE At(f, w, r) < w.index  BY <2>4 DEF Had
  <2> QED  BY <1>3, <2>2, <2>3, <2>4
<1> QED  BY <1>2, <1>3

\* A page that is not the last is the page of every window that goes on longer,
\* too.
LEMMA PageReadBeyond ==
    ASSUME NEW f \in [NvdRecords -> Nat], Distinct(f), NEW w \in Windows, NEW u \in Windows,
           u.from = w.from, u.index = w.index, w.to <= u.to,
           NEW had, Had(f, w, had), NextIndex(f, w) < Cardinality(In(f, w)),
           NEW v, v = [u EXCEPT !.index = NextIndex(f, w)]
    PROVE  Had(f, v, had \cup Rows(f, w)) /\ Fits(f, v)
<1>1. w.to \in Nat /\ u.to \in Nat /\ NextIndex(f, w) \in Nat
  BY PageFits DEF Windows, NextIndex
<1>2. /\ v \in Windows /\ v.from = w.from /\ v.to = u.to /\ v.index = NextIndex(f, w)
  BY <1>1 DEF Windows
<1>3. In(f, w) \in SUBSET In(f, v)  BY <1>1, <1>2 DEF In
<1>4. /\ IsFiniteSet(In(f, v)) /\ Cardinality(In(f, v)) \in Nat /\ Cardinality(In(f, w)) \in Nat
  BY <1>2, Listing
<1>5. Cardinality(In(f, w)) <= Cardinality(In(f, v))  BY <1>3, <1>4, FS_Subset
<1>6. Fits(f, v)  BY <1>1, <1>2, <1>4, <1>5 DEF Fits
<1>7. ASSUME NEW r \in In(f, v), At(f, v, r) < v.index
      PROVE  <<r, f[r]>> \in had \cup Rows(f, w)
  <2>1. r \in In(f, w)
    <3> SUFFICES ASSUME r \notin In(f, w) PROVE FALSE
      OBVIOUS
    <3>1. \A s \in In(f, w) : f[s] < f[r]  BY <1>1, <1>2 DEF In
    <3>2. In(f, w) \in SUBSET Before(In(f, v), f, r)  BY <1>3, <3>1 DEF Before
    <3>3. IsFiniteSet(Before(In(f, v), f, r)) /\ At(f, v, r) \in Int  BY <1>2, Listing
    <3>4. Cardinality(In(f, w)) <= At(f, v, r)  BY <3>2, <3>3, FS_Subset DEF At
    <3> QED  BY <1>1, <1>2, <1>4, <1>7, <3>3, <3>4
  <2>2. At(f, v, r) = At(f, w, r)
    <3>1. \A s \in In(f, v) : f[s] < f[r] => s \in In(f, w)
      BY <1>1, <1>2, <2>1 DEF In
    <3>2. Before(In(f, v), f, r) = Before(In(f, w), f, r)  BY <1>3, <3>1 DEF Before
    <3> QED  BY <3>2 DEF At
  <2> QED  BY <1>2, <1>7, <2>1, <2>2, PageRead
<1> QED  BY <1>6, <1>7 DEF Had

-----------------------------------------------------------------------------
(* The vulnerability database.                                             *)

NvdVersions == NvdRecords \X (1..NvdMaxClock)
NvdRuns     == [step : {"idle", "page", "more", "whole"}, window : NvdWindows,
                end : 0..nvdClock, pages : 0..NvdMaxPages, got : SUBSET NvdVersions]

NvdTypes ==
    /\ nvdKind \in {"index", "url"} /\ nvdSkipped \subseteq 1..nvdClock
    /\ nvdClock \in 0..NvdMaxClock /\ nvdModified \in [NvdRecords -> 0..nvdClock]
    /\ nvdSaved \in [checkpoint : 0..nvdClock, next : NvdWindows] /\ nvdRun \in NvdRuns
    /\ nvdRun.step = "page" => nvdRun.pages < NvdMaxPages
    /\ nvdCollected \subseteq NvdVersions /\ nvdSlipped \subseteq NvdVersions

\* What was handed over, moved in front of a continuation, or was modified at a
\* time that was skipped.
NvdHandled == nvdCollected \cup nvdSlipped \cup {v \in NvdVersions : v[2] \in nvdSkipped}

\* What the continuation in the state file has passed was handled.
NvdKept ==
    LET w == Advisory!UpToNow(nvdSaved.next)
    IN  Had(nvdModified, w, NvdHandled) /\ (nvdKind = "index" => Fits(nvdModified, w))

\* What a collection has passed was handled, or the collection has it: in its
\* own window, and in that of a collection that would go on from it.
NvdRead ==
    nvdRun.step \in {"page", "more"} =>
        LET w   == nvdRun.window
            u   == Advisory!UpToNow(w)
            had == NvdHandled \cup nvdRun.got
        IN  /\ Had(nvdModified, w, had) /\ Had(nvdModified, u, had)
            /\ nvdKind = "index" => Fits(nvdModified, u)

\* A continuation has at most as many places in front of it as there are records.
NvdBounded ==
    /\ nvdSaved.next.index <= Cardinality(NvdRecords)
    /\ nvdRun.step \in {"page", "more"} => nvdRun.window.index <= Cardinality(NvdRecords)

\* A collection that came to its end has the whole of its window.
NvdWhole ==
    nvdRun.step = "whole" =>
        \A r \in In(nvdModified, nvdRun.window) :
            <<r, nvdModified[r]>> \in NvdHandled \cup nvdRun.got

\* The window of a collection is from the checkpoint to its beginning, or to
\* where a URL was kept; no time is skipped without one.
NvdBegun ==
    /\ nvdSaved.next # Advisory!NoWindow /\ nvdKind = "url" =>
           nvdSaved.next.from = nvdSaved.checkpoint
    /\ nvdRun.step # "idle" =>
           /\ nvdRun.window.from = nvdSaved.checkpoint
           /\ nvdKind = "index" => nvdRun.window.to = nvdRun.end
    /\ nvdKind = "index" => nvdSkipped = {}

\* What the checkpoint has passed was handled.
NvdCovers ==
    \A r \in NvdRecords : 0 < nvdModified[r] /\ nvdModified[r] <= nvdSaved.checkpoint =>
        <<r, nvdModified[r]>> \in NvdHandled

\* What every step of the window keeps.
NvdInv ==
    /\ NvdTypes /\ Distinct(nvdModified)
    /\ NvdKept /\ NvdRead /\ NvdWhole /\ NvdBegun /\ NvdCovers /\ NvdBounded

\* The model's operators are those of the lemmas.
LEMMA NvdListing ==
    ASSUME NEW w
    PROVE  /\ Advisory!InWindow(w) = In(nvdModified, w)
           /\ Advisory!Page(w) = OnPage(nvdModified, w)
           /\ {Advisory!Version(r) : r \in Advisory!Page(w)} = Rows(nvdModified, w)
           /\ w.index + Advisory!Cardinality(Advisory!Page(w)) = NextIndex(nvdModified, w)
           /\ Advisory!IsLast(w) <=>
                OnPage(nvdModified, w) = {}
                \/ NextIndex(nvdModified, w) >= Cardinality(In(nvdModified, w))
           /\ \A r : Advisory!MovesUp(r, w) =
                {<<s, nvdModified[s]>> : s \in {s \in In(nvdModified, w) :
                    (r \in In(nvdModified, w) /\ At(nvdModified, w, r) < w.index)
                    /\ At(nvdModified, w, s) = w.index}}
<1>1. Advisory!InWindow(w) = In(nvdModified, w)  BY DEF Advisory!InWindow, In
<1>2. \A r : Advisory!Place(r, w) = At(nvdModified, w, r)
  <2> SUFFICES ASSUME NEW r PROVE Advisory!Place(r, w) = At(nvdModified, w, r)
    OBVIOUS
  <2>1. {x \in Advisory!InWindow(w) : nvdModified[x] < nvdModified[r]}
           = Before(In(nvdModified, w), nvdModified, r)
    BY <1>1 DEF Before
  <2> QED  BY <2>1, Counting DEF Advisory!Place, At
<1>3. Advisory!Page(w) = OnPage(nvdModified, w)
  BY <1>1, <1>2 DEF Advisory!Page, OnPage
<1>4. \A r : r \in Advisory!Passed(w) <=> r \in In(nvdModified, w) /\ At(nvdModified, w, r) < w.index
  BY <1>1, <1>2 DEF Advisory!Passed
<1>5. {Advisory!Version(r) : r \in Advisory!Page(w)} = Rows(nvdModified, w)
  BY <1>3 DEF Rows, Advisory!Version
<1>6. \A r : Advisory!MovesUp(r, w) =
                {<<s, nvdModified[s]>> : s \in {s \in In(nvdModified, w) :
                    (r \in In(nvdModified, w) /\ At(nvdModified, w, r) < w.index)
                    /\ At(nvdModified, w, s) = w.index}}
  BY <1>1, <1>2, <1>4 DEF Advisory!MovesUp, Advisory!Version
<1>7. w.index + Advisory!Cardinality(Advisory!Page(w)) = NextIndex(nvdModified, w)
  BY <1>3, Counting DEF NextIndex
<1>8. Advisory!IsLast(w) <=>
        OnPage(nvdModified, w) = {} \/ NextIndex(nvdModified, w) >= Cardinality(In(nvdModified, w))
  BY <1>1, <1>3, <1>7, Counting DEF Advisory!IsLast
<1> QED  BY <1>1, <1>3, <1>5, <1>6, <1>7, <1>8

\* The numbers the arguments compare.
LEMMA NvdNumbers ==
    ASSUME NvdTypes
    PROVE  /\ nvdClock \in Nat /\ nvdModified \in [NvdRecords -> Nat]
           /\ \A r \in NvdRecords : nvdModified[r] <= nvdClock
           /\ NvdWindows \subseteq Windows
           /\ nvdSaved.checkpoint \in 0..nvdClock /\ nvdSaved.next \in NvdWindows
           /\ nvdRun.window \in NvdWindows /\ nvdRun.end \in 0..nvdClock
           /\ nvdRun.got \subseteq NvdVersions
           /\ \A w \in NvdWindows :
                 /\ Advisory!UpToNow(w) \in NvdWindows
                 /\ nvdKind = "index" => /\ Advisory!UpToNow(w).from = nvdSaved.checkpoint
                                         /\ Advisory!UpToNow(w).to = nvdClock
                 /\ nvdKind # "index" => Advisory!UpToNow(w) = w
                 /\ Advisory!UpToNow(w).index = w.index
<1>1. nvdClock \in Nat /\ nvdSaved.checkpoint \in 0..nvdClock /\ nvdClock \in 0..nvdClock
  BY SourcesAssumption DEF NvdTypes
<1>2. nvdModified \in [NvdRecords -> Nat] /\ \A r \in NvdRecords : nvdModified[r] <= nvdClock
  BY <1>1 DEF NvdTypes
<1>3. /\ nvdSaved.next \in NvdWindows /\ nvdRun.window \in NvdWindows
      /\ nvdRun.end \in 0..nvdClock /\ nvdRun.got \subseteq NvdVersions
  BY DEF NvdTypes, NvdRuns
<1>4. NvdWindows \subseteq Windows  BY <1>1 DEF NvdWindows, Windows
<1>5. ASSUME NEW w \in NvdWindows
      PROVE  /\ Advisory!UpToNow(w) \in NvdWindows
             /\ nvdKind = "index" => /\ Advisory!UpToNow(w).from = nvdSaved.checkpoint
                                     /\ Advisory!UpToNow(w).to = nvdClock
             /\ nvdKind # "index" => Advisory!UpToNow(w) = w
             /\ Advisory!UpToNow(w).index = w.index
  <2>1. CASE nvdKind = "index"
    <3>1. Advisory!UpToNow(w) = [w EXCEPT !.from = nvdSaved.checkpoint, !.to = nvdClock]
      BY <2>1 DEF Advisory!UpToNow
    <3> QED  BY <1>1, <2>1, <3>1 DEF NvdWindows
  <2>2. CASE nvdKind = "url"  BY <2>2 DEF Advisory!UpToNow
  <2> QED  BY <2>1, <2>2 DEF NvdTypes
<1> QED  BY <1>1, <1>2, <1>3, <1>4, <1>5

\* A version of a record of a window is a version.
LEMMA NvdRowsTyped ==
    ASSUME NvdTypes, NEW w, NEW r \in In(nvdModified, w)
    PROVE  <<r, nvdModified[r]>> \in NvdVersions
<1>1. /\ r \in NvdRecords /\ nvdModified[r] \in 0..nvdClock /\ nvdModified[r] # 0
      /\ nvdClock \in 0..NvdMaxClock
  BY DEF In, NvdTypes
<1>2. nvdModified[r] \in 1..NvdMaxClock  BY <1>1, SourcesAssumption
<1> QED  BY <1>1, <1>2 DEF NvdVersions

\* A record is modified, and takes another up to a page that was read.
LEMMA NvdModify ==
    ASSUME NvdInv, NEW r \in NvdRecords, Advisory!Modify(r)
    PROVE  NvdInv'
<1> DEFINE f == nvdModified
           t == nvdClock + 1
           g == nvdModified'
<1>1. /\ nvdClock < NvdMaxClock /\ nvdClock' = t /\ g = [f EXCEPT ![r] = t]
      /\ nvdSaved' = nvdSaved /\ nvdRun' = nvdRun /\ nvdCollected' = nvdCollected
      /\ nvdSlipped' = nvdSlipped \cup UNION {Advisory!MovesUp(r, w) : w \in Advisory!Open}
      /\ nvdKind' = nvdKind /\ nvdSkipped' = nvdSkipped
  BY DEF Advisory!Modify
<1>2. /\ nvdClock \in Nat /\ NvdMaxClock \in Nat /\ f \in [NvdRecords -> Nat]
      /\ t \in Nat /\ t # 0 /\ \A s \in NvdRecords : f[s] < t
  BY NvdNumbers, SourcesAssumption DEF NvdInv
<1>3. \A w \in Advisory!Open : \A s \in In(f, w) :
          r \in In(f, w) /\ At(f, w, r) < w.index /\ At(f, w, s) = w.index =>
              <<s, f[s]>> \in nvdSlipped'
  <2> SUFFICES ASSUME NEW w \in Advisory!Open, NEW s \in In(f, w),
                      r \in In(f, w), At(f, w, r) < w.index, At(f, w, s) = w.index
               PROVE  <<s, f[s]>> \in Advisory!MovesUp(r, w)
    BY <1>1
  <2> QED  BY NvdListing
<1>4. NvdTypes'
  <2>1. /\ t \in 0..NvdMaxClock /\ 0..nvdClock \subseteq 0..t /\ t \in 0..t
        /\ 1..nvdClock \subseteq 1..t
    BY <1>1, <1>2
  <2>2. g \in [NvdRecords -> 0..t]  BY <1>1, <2>1 DEF NvdInv, NvdTypes
  <2>3. NvdWindows \subseteq NvdWindows'  BY <1>1, <2>1 DEF NvdWindows
  <2>4. NvdRuns \subseteq NvdRuns'  BY <1>1, <2>1, <2>3 DEF NvdRuns
  <2>5. nvdSlipped' \subseteq NvdVersions
    <3>1. \A w : Advisory!MovesUp(r, w) \subseteq NvdVersions
      BY NvdListing, NvdRowsTyped DEF NvdInv
    <3> QED  BY <1>1, <3>1 DEF NvdInv, NvdTypes
  <2> QED  BY <1>1, <2>1, <2>2, <2>3, <2>4, <2>5 DEF NvdInv, NvdTypes
<1>5. Distinct(g)
  <2>1. \A s \in NvdRecords : g[s] = IF s = r THEN t ELSE f[s]  BY <1>1, <1>2
  <2> QED  BY <1>2, <2>1 DEF NvdInv, Distinct
<1>6. ASSUME NEW w \in Windows, NEW v \in Windows, w \in Advisory!Open, NEW had,
             Had(f, w, had), nvdSlipped' \subseteq had, v.from = w.from, v.index = w.index,
             w.to < t, v.to = w.to \/ (w.to = nvdClock /\ v.to = t)
      PROVE  Moves(f, g, r, t, w, v, had)
  <2>1. \A s \in In(f, w) :
          r \in In(f, w) /\ At(f, w, r) < w.index /\ At(f, w, s) = w.index => <<s, f[s]>> \in had
    BY <1>3, <1>6
  <2>2. t - 1 = nvdClock  BY <1>2
  <2> QED  BY <1>1, <1>2, <1>6, <2>1, <2>2 DEF Moves, NvdInv
<1>7. ASSUME NEW x \in NvdWindows, Advisory!UpToNow(x) \in Advisory!Open, NEW had,
             Had(f, Advisory!UpToNow(x), had), nvdSlipped' \subseteq had,
             nvdKind = "index" => Fits(f, Advisory!UpToNow(x))
      PROVE  /\ Had(g, Advisory!UpToNow(x)', had)
             /\ nvdKind = "index" => Fits(g, Advisory!UpToNow(x)')
  <2>1. CASE nvdKind = "index"
    <3> DEFINE u == Advisory!UpToNow(x)
               v == [u EXCEPT !.to = t]
    <3>1. /\ u \in NvdWindows /\ u \in Windows /\ u.from = nvdSaved.checkpoint /\ u.to = nvdClock
          /\ nvdSaved.checkpoint \in Nat /\ nvdSaved.checkpoint <= nvdClock
      BY <1>7, <1>2, <2>1, NvdNumbers DEF NvdInv
    <3>2. Advisory!UpToNow(x)' = [x EXCEPT !.from = nvdSaved.checkpoint, !.to = t]
      BY <1>1, <2>1 DEF Advisory!UpToNow
    <3>3. v = Advisory!UpToNow(x)'
      BY <2>1, <3>2 DEF Advisory!UpToNow, NvdWindows
    <3>4. v \in Windows /\ v.from = u.from /\ v.index = u.index /\ v.to = t
      <4> HIDE DEF u
      <4> QED  BY <1>2, <3>1 DEF Windows
    <3>5. u.to < t  BY <3>1, <1>2
    <3> HIDE DEF u, v
    <3>6. Moves(f, g, r, t, u, v, had)
      BY <1>6, <1>7, <3>1, <3>4, <3>5 DEF u
    <3>7. v.from <= t  BY <1>2, <3>1, <3>4
    <3>8. Had(g, v, had) /\ Fits(g, v)  BY <1>7, <2>1, <3>4, <3>6, <3>7, Moved DEF u
    <3> QED  BY <3>3, <3>8
  <2>2. CASE nvdKind # "index"
    <3>1. Advisory!UpToNow(x) = x /\ Advisory!UpToNow(x)' = x /\ x \in Windows /\ x.to < t
      <4>1. x.to \in 0..nvdClock  BY DEF NvdWindows
      <4>2. x.to < t  BY <1>2, <4>1
      <4>3. nvdKind = "url"  BY <2>2 DEF NvdInv, NvdTypes
      <4>4. Advisory!UpToNow(x)' = x  BY <1>1, <4>3 DEF Advisory!UpToNow
      <4> QED  BY <2>2, <4>2, <4>4, NvdNumbers DEF NvdInv
    <3>2. Moves(f, g, r, t, x, x, had)  BY <1>6, <1>7, <3>1
    <3> QED  BY <2>2, <3>1, <3>2, Moved
  <2> QED  BY <2>1, <2>2
<1>8. NvdKept'
  <2>1. PICK x \in NvdWindows : x = nvdSaved.next  BY NvdNumbers DEF NvdInv
  <2>2. Advisory!UpToNow(nvdSaved.next)' = Advisory!UpToNow(x)'
    BY <1>1, <2>1 DEF Advisory!UpToNow
  <2>3. Advisory!UpToNow(x) \in Advisory!Open  BY <2>1 DEF Advisory!Open
  <2>4. /\ Had(f, Advisory!UpToNow(x), NvdHandled)
        /\ nvdKind = "index" => Fits(f, Advisory!UpToNow(x))
    BY <2>1 DEF NvdInv, NvdKept
  <2>5. Had(f, Advisory!UpToNow(x), NvdHandled')
    BY <1>1, <2>4 DEF Had, NvdHandled
  <2>6. nvdSlipped' \subseteq NvdHandled'  BY DEF NvdHandled
  <2> QED  BY <1>1, <1>7, <2>1, <2>2, <2>3, <2>4, <2>5, <2>6 DEF NvdKept
<1>9. NvdRead'
  <2> SUFFICES ASSUME nvdRun.step \in {"page", "more"}
               PROVE  /\ Had(g, nvdRun.window, (NvdHandled \cup nvdRun.got)')
                      /\ Had(g, Advisory!UpToNow(nvdRun.window)', (NvdHandled \cup nvdRun.got)')
                      /\ nvdKind = "index" => Fits(g, Advisory!UpToNow(nvdRun.window)')
    BY <1>1 DEF NvdRead
  <2> DEFINE had == (NvdHandled \cup nvdRun.got)'
  <2>1. PICK x \in NvdWindows : x = nvdRun.window  BY NvdNumbers DEF NvdInv
  <2>2. Advisory!UpToNow(nvdRun.window)' = Advisory!UpToNow(x)'
    BY <1>1, <2>1 DEF Advisory!UpToNow
  <2>3. x \in Advisory!Open /\ Advisory!UpToNow(x) \in Advisory!Open  BY <2>1 DEF Advisory!Open
  <2>4. NvdHandled \cup nvdRun.got \subseteq had /\ nvdSlipped' \subseteq had
    BY <1>1 DEF NvdHandled
  <2> HIDE DEF had
  <2>5. /\ Had(f, x, had) /\ Had(f, Advisory!UpToNow(x), had)
        /\ nvdKind = "index" => Fits(f, Advisory!UpToNow(x))
    BY <2>1, <2>4 DEF NvdInv, NvdRead, Had
  <2>6. /\ Had(g, Advisory!UpToNow(x)', had)
        /\ nvdKind = "index" => Fits(g, Advisory!UpToNow(x)')
    BY <1>7, <2>3, <2>4, <2>5
  <2>7. x \in Windows /\ x.to < t
    BY <1>2, <2>1, NvdNumbers DEF NvdInv, NvdWindows
  <2>8. Had(g, x, had)
    <3>1. Moves(f, g, r, t, x, x, had)  BY <1>6, <2>3, <2>4, <2>5, <2>7
    <3> QED  BY <3>1, Moved
  <2> QED  BY <2>1, <2>2, <2>6, <2>8 DEF had
<1>10. NvdWhole'
  <2> SUFFICES ASSUME nvdRun.step = "whole", NEW s \in In(g, nvdRun.window)
               PROVE  <<s, g[s]>> \in NvdHandled' \cup nvdRun.got
    BY <1>1 DEF NvdWhole
  <2>1. s # r /\ s \in NvdRecords /\ g[s] = f[s]
    <3>1. nvdRun.window.to \in Nat /\ nvdRun.window.to <= nvdClock
      BY <1>2, NvdNumbers DEF NvdInv, NvdWindows
    <3> QED  BY <1>1, <1>2, <3>1 DEF In
  <2>2. s \in In(f, nvdRun.window)  BY <2>1 DEF In
  <2> QED  BY <1>1, <2>1, <2>2 DEF NvdInv, NvdWhole, NvdHandled
<1>11. NvdBegun' /\ NvdBounded'
  BY <1>1 DEF NvdInv, NvdBegun, NvdBounded
<1>12. NvdCovers'
  <2> SUFFICES ASSUME NEW s \in NvdRecords, 0 < g[s], g[s] <= nvdSaved.checkpoint
               PROVE  <<s, g[s]>> \in NvdHandled'
    BY <1>1 DEF NvdCovers
  <2>1. nvdSaved.checkpoint \in Nat /\ nvdSaved.checkpoint <= nvdClock
    BY <1>2, NvdNumbers DEF NvdInv
  <2>2. s # r /\ g[s] = f[s]  BY <1>1, <1>2, <2>1
  <2> QED  BY <1>1, <2>2 DEF NvdInv, NvdCovers, NvdHandled
<1> QED  BY <1>4, <1>5, <1>8, <1>9, <1>10, <1>11, <1>12 DEF NvdInv

\* A collection begins where the continuation is.
LEMMA NvdBegin ==
    ASSUME NvdInv, Advisory!Begin
    PROVE  NvdInv'
<1> DEFINE w == Advisory!UpToNow(nvdSaved.next)
           x == Advisory!Resumed
<1>1. /\ nvdRun.step = "idle" /\ nvdClock' = nvdClock /\ nvdModified' = nvdModified
      /\ nvdSaved' = nvdSaved /\ nvdCollected' = nvdCollected /\ nvdSlipped' = nvdSlipped
      /\ nvdKind' = nvdKind /\ nvdSkipped' = nvdSkipped
      /\ nvdRun' = [step |-> "page", window |-> x, end |-> nvdClock, pages |-> 0, got |-> {}]
  BY DEF Advisory!Begin, Advisory!Idle
<1>2. /\ nvdSaved.next \in NvdWindows /\ nvdSaved.checkpoint \in 0..nvdClock /\ nvdClock \in Nat
      /\ nvdClock \in 0..nvdClock /\ nvdSaved.next.index \in Nat /\ 0 \in 0..nvdClock
  <2>1. nvdSaved.next \in NvdWindows /\ nvdSaved.checkpoint \in 0..nvdClock /\ nvdClock \in Nat
    BY NvdNumbers DEF NvdInv
  <2> QED  BY <2>1 DEF NvdWindows
<1>3. /\ x \in NvdWindows /\ x.from = nvdSaved.checkpoint
      /\ x.index <= Cardinality(NvdRecords)
      /\ nvdKind = "index" => x.to = nvdClock
      /\ \/ x.from = w.from /\ x.to = w.to /\ x.index = w.index
         \/ nvdKind = "url" /\ x.index = 0
  <2>1. CASE nvdKind = "index"
    <3>1. x = [from |-> nvdSaved.checkpoint, to |-> nvdClock, index |-> nvdSaved.next.index]
      BY <2>1 DEF Advisory!Resumed, Advisory!Window
    <3>2. w.from = nvdSaved.checkpoint /\ w.to = nvdClock /\ w.index = nvdSaved.next.index
      BY <1>2, <2>1, NvdNumbers DEF NvdInv
    <3> HIDE DEF x, w
    <3> QED  BY <1>2, <3>1, <3>2 DEF NvdWindows, NvdInv, NvdBounded
  <2>2. CASE nvdKind = "url" /\ nvdSaved.next # Advisory!NoWindow
    <3>1. x = nvdSaved.next  BY <2>2 DEF Advisory!Resumed
    <3>2. w = nvdSaved.next  BY <2>2 DEF Advisory!UpToNow
    <3> HIDE DEF x, w
    <3> QED  BY <1>2, <2>2, <3>1, <3>2 DEF NvdInv, NvdBegun, NvdBounded
  <2>3. CASE nvdKind = "url" /\ nvdSaved.next = Advisory!NoWindow
    <3>1. nvdSaved.next.index = 0  BY <2>3 DEF Advisory!NoWindow, Advisory!Window
    <3>2. x = [from |-> nvdSaved.checkpoint, to |-> nvdClock, index |-> 0]
      BY <2>3, <3>1 DEF Advisory!Resumed, Advisory!Window
    <3>3. 0 <= Cardinality(NvdRecords)  BY <3>1 DEF NvdInv, NvdBounded
    <3> HIDE DEF x, w
    <3> QED  BY <1>2, <2>3, <3>2, <3>3 DEF NvdWindows
  <2> QED  BY <2>1, <2>2, <2>3 DEF NvdInv, NvdTypes
<1> HIDE DEF x
<1>4. ASSUME NEW v \in Windows, v.from = x.from, v.to = x.to, v.index = x.index
      PROVE  Had(nvdModified, v, NvdHandled) /\ (nvdKind = "index" => Fits(nvdModified, v))
  <2>1. CASE x.from = w.from /\ x.to = w.to /\ x.index = w.index
    <3>1. In(nvdModified, v) = In(nvdModified, w)  BY <1>4, <2>1 DEF In
    <3>2. \A r : At(nvdModified, v, r) = At(nvdModified, w, r)  BY <3>1 DEF At
    <3> QED  BY <1>4, <2>1, <3>1, <3>2 DEF NvdInv, NvdKept, Had, Fits
  <2>2. CASE nvdKind = "url" /\ x.index = 0
    <3>1. \A r \in In(nvdModified, v) : ~(At(nvdModified, v, r) < v.index)
      BY <1>4, <2>2, NvdNumbers, Listing DEF NvdInv
    <3> QED  BY <2>2, <3>1 DEF Had
  <2> QED  BY <1>3, <2>1, <2>2
<1>5. NvdTypes'
  <2>1. NvdWindows' = NvdWindows  BY <1>1 DEF NvdWindows
  <2>2. NvdRuns' = NvdRuns  BY <1>1, <2>1 DEF NvdRuns
  <2>3. 0 \in 0..NvdMaxPages /\ 0 < NvdMaxPages  BY SourcesAssumption
  <2>4. nvdRun' \in NvdRuns  BY <1>1, <1>2, <1>3, <2>3 DEF NvdRuns
  <2> QED  BY <1>1, <2>1, <2>2, <2>3, <2>4 DEF NvdInv, NvdTypes
<1>6. NvdRead'
  <2> DEFINE u == Advisory!UpToNow(x)
  <2>1. nvdRun'.window = x /\ nvdRun'.got = {} /\ NvdHandled' = NvdHandled
    BY <1>1 DEF NvdHandled
  <2>2. Advisory!UpToNow(nvdRun.window)' = u  BY <1>1, <2>1 DEF Advisory!UpToNow
  <2>3. u \in Windows /\ u.from = x.from /\ u.to = x.to /\ u.index = x.index /\ x \in Windows
    BY <1>3, NvdNumbers DEF NvdInv
  <2>4. /\ Had(nvdModified, x, NvdHandled) /\ Had(nvdModified, u, NvdHandled)
        /\ nvdKind = "index" => Fits(nvdModified, u)
    BY <1>4, <2>3
  <2> HIDE DEF u
  <2>5. NvdHandled' \cup nvdRun'.got = NvdHandled  BY <2>1
  <2> QED  BY <1>1, <2>1, <2>2, <2>4, <2>5 DEF NvdRead
<1>7. NvdKept'
  <2>1. Advisory!UpToNow(nvdSaved.next)' = w  BY <1>1 DEF Advisory!UpToNow
  <2> QED  BY <1>1, <2>1 DEF NvdInv, NvdKept, NvdHandled
<1>8. NvdWhole' /\ NvdBegun' /\ NvdBounded'
  BY <1>1, <1>3 DEF NvdInv, NvdWhole, NvdBegun, NvdBounded
<1> QED  BY <1>1, <1>5, <1>6, <1>7, <1>8 DEF NvdInv, NvdCovers, NvdHandled

\* A page is read.
LEMMA NvdReadPage ==
    ASSUME NvdInv, Advisory!ReadPage
    PROVE  NvdInv'
<1> DEFINE f == nvdModified
           w == nvdRun.window
           u == Advisory!UpToNow(w)
           i == NextIndex(f, w)
           last == OnPage(f, w) = {} \/ i >= Cardinality(In(f, w))
           had == NvdHandled \cup nvdRun.got
<1>1. /\ nvdRun.step = "page" /\ nvdClock' = nvdClock /\ nvdModified' = nvdModified
      /\ nvdSaved' = nvdSaved /\ nvdCollected' = nvdCollected /\ nvdSlipped' = nvdSlipped
      /\ nvdKind' = nvdKind /\ nvdSkipped' = nvdSkipped
      /\ nvdRun.pages + 1 \in 0..NvdMaxPages
      /\ nvdRun \in NvdRuns /\ w \in NvdWindows /\ w \in Windows /\ u \in NvdWindows /\ u \in Windows
      /\ f \in [NvdRecords -> Nat] /\ Distinct(f)
  <2>1. nvdRun.pages \in 0..NvdMaxPages /\ (nvdRun.step = "page" => nvdRun.pages < NvdMaxPages)
    BY DEF NvdInv, NvdTypes, NvdRuns
  <2>2. nvdRun.step = "page" => nvdRun.pages + 1 \in 0..NvdMaxPages  BY <2>1, SourcesAssumption
  <2> QED  BY <2>2, NvdNumbers DEF Advisory!ReadPage, NvdInv, NvdTypes
<1>2. /\ nvdRun'.got = nvdRun.got \cup Rows(f, w) /\ nvdRun'.pages = nvdRun.pages + 1
      /\ nvdRun'.window = [w EXCEPT !.index = i] /\ nvdRun'.end = nvdRun.end
      /\ nvdRun'.step \in {"page", "more", "whole"}
      /\ nvdRun'.step = "whole" <=> last
      /\ nvdRun'.step = "page" => nvdRun.pages + 1 # NvdMaxPages
      /\ nvdRun' \in [step : {"idle", "page", "more", "whole"}, window : {[w EXCEPT !.index = i]},
                      end : {nvdRun.end}, pages : {nvdRun.pages + 1},
                      got : {nvdRun.got \cup Rows(f, w)}]
  <2>1. PICK step \in {"page", "more", "whole"} :
            /\ nvdRun' = [nvdRun EXCEPT
                  !.got = @ \cup Rows(f, w), !.window.index = i, !.pages = @ + 1, !.step = step]
            /\ step = "whole" <=> last
            /\ step = "page" => nvdRun.pages + 1 # NvdMaxPages
    <3> DEFINE step == IF Advisory!IsLast(w) THEN "whole"
                       ELSE IF nvdRun.pages + 1 = NvdMaxPages THEN "more" ELSE "page"
    <3>1. nvdRun' = [nvdRun EXCEPT !.got = @ \cup {Advisory!Version(r) : r \in Advisory!Page(w)},
              !.window.index = @ + Advisory!Cardinality(Advisory!Page(w)), !.pages = @ + 1,
              !.step = step]
      BY DEF Advisory!ReadPage
    <3>2. nvdRun' = [nvdRun EXCEPT
                  !.got = @ \cup Rows(f, w), !.window.index = i, !.pages = @ + 1, !.step = step]
      BY <3>1, NvdListing
    <3>3. step \in {"page", "more", "whole"} /\ (step = "whole" <=> Advisory!IsLast(w))
          /\ (step = "page" => nvdRun.pages + 1 # NvdMaxPages)
      OBVIOUS
    <3>4. Advisory!IsLast(w) <=> last  BY NvdListing
    <3> HIDE DEF step, last, i
    <3> QED  BY <3>2, <3>3, <3>4
  <2> HIDE DEF last, i, f
  <2> QED  BY <1>1, <2>1 DEF NvdRuns
<1>3. i \in Nat  BY <1>1, PageFits DEF NextIndex, Windows
<1>4. Rows(f, w) \subseteq NvdVersions
  BY NvdRowsTyped DEF NvdInv, Rows, OnPage
<1>5. NvdTypes'
  <2>1. NvdWindows' = NvdWindows  BY <1>1 DEF NvdWindows
  <2>2. NvdRuns' = NvdRuns  BY <1>1, <2>1 DEF NvdRuns
  <2>3. [w EXCEPT !.index = i] \in NvdWindows
    <3> HIDE DEF i
    <3> QED  BY <1>1, <1>3 DEF NvdWindows
  <2> HIDE DEF i, last, w, f
  <2>4. nvdRun.end \in 0..nvdClock /\ nvdRun.got \cup Rows(f, w) \in SUBSET NvdVersions
    BY <1>1, <1>4 DEF NvdRuns
  <2>5. nvdRun' \in NvdRuns  BY <1>1, <1>2, <2>3, <2>4 DEF NvdRuns
  <2>6. nvdRun'.step = "page" => nvdRun'.pages < NvdMaxPages  BY <1>1, <1>2, SourcesAssumption
  <2> QED  BY <1>1, <2>1, <2>2, <2>5, <2>6 DEF NvdInv, NvdTypes
<1>6. Had(f, w, had) /\ Had(f, u, had)
  BY <1>1 DEF NvdInv, NvdRead
<1>7. NvdHandled' = NvdHandled /\ (NvdHandled \cup nvdRun.got)' = had \cup Rows(f, w)
  BY <1>1, <1>2 DEF NvdHandled
<1>8. /\ In(f, w) = In(f, [w EXCEPT !.index = i])
      /\ \A r : At(f, w, r) = At(f, [w EXCEPT !.index = i], r)
      /\ [w EXCEPT !.index = i].index = i /\ [w EXCEPT !.index = i].from = w.from
      /\ [w EXCEPT !.index = i].to = w.to
  <2> HIDE DEF i, w
  <2>1. /\ [w EXCEPT !.index = i].from = w.from /\ [w EXCEPT !.index = i].to = w.to
        /\ [w EXCEPT !.index = i].index = i
    BY <1>1 DEF Windows
  <2>2. In(f, w) = In(f, [w EXCEPT !.index = i])  BY <2>1 DEF In
  <2> QED  BY <2>1, <2>2 DEF At
<1>9. NvdWhole'
  <2> SUFFICES ASSUME last, NEW r \in In(f, w)
               PROVE  <<r, f[r]>> \in had \cup Rows(f, w)
    BY <1>1, <1>2, <1>7, <1>8 DEF NvdWhole
  <2> QED  BY <1>1, <1>6, PageRead
<1>10. NvdRead'
  <2> SUFFICES ASSUME ~last
               PROVE  /\ Had(f, [w EXCEPT !.index = i], had \cup Rows(f, w))
                      /\ Had(f, Advisory!UpToNow(nvdRun.window)', had \cup Rows(f, w))
                      /\ nvdKind = "index" => Fits(f, Advisory!UpToNow(nvdRun.window)')
    BY <1>1, <1>2, <1>7 DEF NvdRead
  <2>1. Had(f, [w EXCEPT !.index = i], had \cup Rows(f, w))
    <3> HIDE DEF had
    <3>1. \A r \in In(f, w) : At(f, w, r) < i => <<r, f[r]>> \in had \cup Rows(f, w)
      BY <1>1, <1>6, PageRead
    <3> HIDE DEF i, w, f
    <3> QED  BY <1>8, <3>1 DEF Had
  <2>2. Advisory!UpToNow(nvdRun.window)' = [u EXCEPT !.index = i]
    <3>1. CASE nvdKind = "index"
      <4>1. Advisory!UpToNow(nvdRun.window)' =
              [[w EXCEPT !.index = i] EXCEPT !.from = nvdSaved.checkpoint, !.to = nvdClock]
        BY <1>1, <1>2, <3>1 DEF Advisory!UpToNow
      <4>2. u = [w EXCEPT !.from = nvdSaved.checkpoint, !.to = nvdClock]
        BY <3>1 DEF Advisory!UpToNow
      <4> HIDE DEF i, w, u
      <4> QED  BY <1>1, <4>1, <4>2 DEF NvdWindows
    <3>2. CASE nvdKind = "url"
      BY <1>1, <1>2, <3>2 DEF Advisory!UpToNow
    <3> QED  BY <3>1, <3>2 DEF NvdInv, NvdTypes
  <2>3. u.from = w.from /\ u.index = w.index /\ w.to <= u.to
    <3>1. w.from = nvdSaved.checkpoint /\ w.to \in 0..nvdClock /\ nvdClock \in Nat
      BY <1>1, NvdNumbers DEF NvdInv, NvdBegun, NvdWindows
    <3>2. CASE nvdKind = "index"  BY <1>1, <3>1, <3>2, NvdNumbers DEF NvdInv
    <3>3. CASE nvdKind # "index"  BY <1>1, <3>1, <3>3, NvdNumbers DEF NvdInv
    <3> QED  BY <3>2, <3>3
  <2>4. i < Cardinality(In(f, w))
    BY <1>1, <1>3, Listing
  <2> DEFINE v == [u EXCEPT !.index = i]
  <2>5. Had(f, v, had \cup Rows(f, w)) /\ Fits(f, v)
    BY <1>1, <1>6, <2>3, <2>4, PageReadBeyond
  <2> QED  BY <2>1, <2>2, <2>5
<1>11. NvdKept'
  <2>1. Advisory!UpToNow(nvdSaved.next)' = Advisory!UpToNow(nvdSaved.next)
    BY <1>1 DEF Advisory!UpToNow
  <2> QED  BY <1>1, <1>7, <2>1 DEF NvdInv, NvdKept
<1>12. NvdBegun'
  BY <1>1, <1>2, <1>8 DEF NvdInv, NvdBegun
<1>13. NvdBounded'
  <2> SUFFICES ASSUME ~last PROVE i <= Cardinality(NvdRecords)
    BY <1>1, <1>2, <1>8 DEF NvdInv, NvdBounded
  <2>1. /\ Cardinality(In(f, w)) \in Nat /\ Cardinality(NvdRecords) \in Nat
        /\ Cardinality(In(f, w)) <= Cardinality(NvdRecords)
    BY <1>1, Listing, SourcesAssumption, FS_CardinalityType
  <2> HIDE DEF i
  <2> QED  BY <1>3, <2>1
<1> QED  BY <1>1, <1>5, <1>7, <1>9, <1>10, <1>11, <1>12, <1>13 DEF NvdInv, NvdCovers

\* A collection ends, and leaves its continuation or a new checkpoint.
LEMMA NvdFinish ==
    ASSUME NvdInv, Advisory!Finish
    PROVE  NvdInv'
<1>1. /\ nvdRun.step \in {"more", "whole"} /\ nvdClock' = nvdClock /\ nvdModified' = nvdModified
      /\ nvdSaved' = Advisory!State /\ nvdRun' = Advisory!Idle
      /\ nvdCollected' = nvdCollected \cup nvdRun.got /\ nvdSlipped' = nvdSlipped
      /\ nvdKind' = nvdKind
      /\ nvdSkipped' = nvdSkipped \cup
            (IF nvdRun.step = "whole" THEN nvdRun.window.to + 1..nvdRun.end ELSE {})
  BY DEF Advisory!Finish
<1>2. NvdHandled \cup nvdRun.got \subseteq NvdHandled'  BY <1>1 DEF NvdHandled
<1>3. /\ nvdRun'.step = "idle" /\ Advisory!NoWindow \in NvdWindows /\ Advisory!NoWindow.index = 0
      /\ nvdRun' \in NvdRuns /\ 0 \in 0..nvdClock
  <2>1. 0 \in 0..nvdClock /\ 0 \in 0..NvdMaxPages
    BY NvdNumbers, SourcesAssumption DEF NvdInv
  <2>2. Advisory!NoWindow \in NvdWindows /\ Advisory!NoWindow.index = 0
    BY <2>1 DEF Advisory!NoWindow, Advisory!Window, NvdWindows
  <2> QED  BY <1>1, <2>1, <2>2 DEF Advisory!Idle, NvdRuns
<1>4. /\ nvdRun.step = "more" => nvdSaved' = [nvdSaved EXCEPT !.next = nvdRun.window]
      /\ nvdRun.step = "whole" => nvdSaved' = [checkpoint |-> nvdRun.end, next |-> Advisory!NoWindow]
  BY <1>1 DEF Advisory!State
<1>5. NvdTypes'
  <2>1. NvdWindows' = NvdWindows  BY <1>1 DEF NvdWindows
  <2>2. NvdRuns' = NvdRuns  BY <1>1, <2>1 DEF NvdRuns
  <2>3. nvdSaved' \in [checkpoint : 0..nvdClock, next : NvdWindows]
    <3>1. nvdRun.window \in NvdWindows /\ nvdRun.end \in 0..nvdClock
      BY NvdNumbers DEF NvdInv
    <3> QED  BY <1>1, <1>3, <1>4, <3>1 DEF NvdInv, NvdTypes
  <2>4. nvdSkipped' \subseteq 1..nvdClock
    <3>1. nvdRun.window.to \in Nat /\ nvdRun.end \in 0..nvdClock /\ nvdClock \in Nat
      BY NvdNumbers DEF NvdInv, NvdWindows
    <3>2. nvdRun.window.to + 1..nvdRun.end \subseteq 1..nvdClock  BY <3>1
    <3> QED  BY <1>1, <3>2 DEF NvdInv, NvdTypes
  <2> QED  BY <1>1, <1>3, <2>1, <2>2, <2>3, <2>4 DEF NvdInv, NvdTypes, NvdRuns
<1>6. CASE nvdRun.step = "more"
  <2>1. nvdSaved'.checkpoint = nvdSaved.checkpoint /\ nvdSaved'.next = nvdRun.window
    BY <1>4, <1>6 DEF NvdInv, NvdTypes
  <2>2. Advisory!UpToNow(nvdSaved.next)' = Advisory!UpToNow(nvdRun.window)
    BY <1>1, <2>1 DEF Advisory!UpToNow
  <2>3. NvdKept'  BY <1>1, <1>2, <1>6, <2>2 DEF NvdInv, NvdRead, NvdKept, Had
  <2>4. NvdCovers'  BY <1>1, <1>2, <2>1 DEF NvdInv, NvdCovers
  <2>5. NvdBegun' /\ NvdBounded'
    BY <1>1, <1>3, <1>6, <2>1 DEF NvdInv, NvdBegun, NvdBounded
  <2> QED  BY <1>1, <1>3, <1>5, <2>3, <2>4, <2>5 DEF NvdInv, NvdRead, NvdWhole
<1>7. CASE nvdRun.step = "whole"
  <2>1. nvdSaved'.checkpoint = nvdRun.end /\ nvdSaved'.next = Advisory!NoWindow
    BY <1>4, <1>7
  <2>2. NvdKept'
    <3> DEFINE v == Advisory!UpToNow(nvdSaved.next)'
    <3>1. v.index = 0 /\ v \in Windows
      <4>1. nvdRun.end \in Nat /\ nvdClock \in Nat  BY NvdNumbers DEF NvdInv
      <4>2. Advisory!NoWindow = [from |-> 0, to |-> 0, index |-> 0]
        BY DEF Advisory!NoWindow, Advisory!Window
      <4>3. CASE nvdKind = "index"
        <5>1. v = [Advisory!NoWindow EXCEPT !.from = nvdRun.end, !.to = nvdClock]
          BY <1>1, <2>1, <4>3 DEF Advisory!UpToNow
        <5>2. v = [from |-> nvdRun.end, to |-> nvdClock, index |-> 0]  BY <4>2, <5>1
        <5> HIDE DEF v
        <5> QED  BY <4>1, <5>2 DEF Windows
      <4>4. CASE nvdKind = "url"
        <5>1. v = Advisory!NoWindow  BY <1>1, <2>1, <4>4 DEF Advisory!UpToNow
        <5> HIDE DEF v
        <5> QED  BY <4>2, <5>1 DEF Windows
      <4> QED  BY <4>3, <4>4 DEF NvdInv, NvdTypes
    <3> HIDE DEF v
    <3>2. \A r \in In(nvdModified, v) : ~(At(nvdModified, v, r) < v.index)
      BY <3>1, NvdNumbers, Listing DEF NvdInv
    <3>3. Had(nvdModified, v, NvdHandled') /\ Fits(nvdModified, v)
      BY <3>1, <3>2 DEF Had, Fits
    <3> QED  BY <1>1, <3>3 DEF NvdKept, v
  <2>3. NvdCovers'
    <3> SUFFICES ASSUME NEW r \in NvdRecords, 0 < nvdModified[r], nvdModified[r] <= nvdRun.end
                 PROVE  <<r, nvdModified[r]>> \in NvdHandled'
      BY <1>1, <2>1 DEF NvdCovers
    <3>1. /\ nvdModified[r] \in Nat /\ nvdSaved.checkpoint \in Nat /\ nvdRun.window.to \in Nat
          /\ nvdRun.window.from = nvdSaved.checkpoint /\ nvdRun.end \in Nat
      BY <1>7, NvdNumbers DEF NvdInv, NvdBegun, NvdWindows
    <3>2. CASE nvdModified[r] <= nvdSaved.checkpoint  BY <1>2, <3>2 DEF NvdInv, NvdCovers
    <3>3. CASE nvdSaved.checkpoint <= nvdModified[r] /\ nvdModified[r] <= nvdRun.window.to
      <4>1. r \in In(nvdModified, nvdRun.window)  BY <3>1, <3>3 DEF In
      <4> QED  BY <1>2, <1>7, <4>1 DEF NvdInv, NvdWhole
    <3>4. CASE nvdRun.window.to < nvdModified[r]
      <4>1. nvdModified[r] \in nvdSkipped'  BY <1>1, <1>7, <3>1, <3>4
      <4>2. <<r, nvdModified[r]>> \in NvdVersions
        <5>1. nvdModified[r] \in 0..nvdClock /\ nvdClock \in 0..NvdMaxClock
          BY DEF NvdInv, NvdTypes
        <5>2. nvdModified[r] \in 1..NvdMaxClock  BY <5>1, SourcesAssumption
        <5> QED  BY <5>2 DEF NvdVersions
      <4> QED  BY <4>1, <4>2 DEF NvdHandled
    <3> QED  BY <3>1, <3>2, <3>3, <3>4
  <2>4. NvdBegun' /\ NvdBounded'
    <3>1. nvdKind = "index" => nvdRun.window.to + 1..nvdRun.end = {}
      <4>1. nvdRun.end \in Nat  BY NvdNumbers DEF NvdInv
      <4> QED  BY <1>7, <4>1 DEF NvdInv, NvdBegun
    <3>2. 0 <= Cardinality(NvdRecords)
      BY SourcesAssumption, FS_CardinalityType
    <3> QED  BY <1>1, <1>3, <2>1, <3>1, <3>2 DEF NvdInv, NvdBegun, NvdBounded
  <2> QED  BY <1>1, <1>3, <1>5, <2>2, <2>3, <2>4 DEF NvdInv, NvdRead, NvdWhole
<1> QED  BY <1>1, <1>6, <1>7

\* A step that leaves the database and its collection alone keeps its invariant.
LEMMA NvdSame ==
    ASSUME NvdInv, UNCHANGED nvdVars
    PROVE  NvdInv'
<1>1. /\ nvdClock' = nvdClock /\ nvdModified' = nvdModified /\ nvdSaved' = nvdSaved
      /\ nvdRun' = nvdRun /\ nvdCollected' = nvdCollected /\ nvdSlipped' = nvdSlipped
      /\ nvdKind' = nvdKind /\ nvdSkipped' = nvdSkipped
  BY DEF nvdVars
<1>2. NvdWindows' = NvdWindows  BY <1>1 DEF NvdWindows
<1>3. NvdTypes'  BY <1>1, <1>2 DEF NvdInv, NvdTypes, NvdRuns
<1>4. NvdKept' /\ NvdRead'
  BY <1>1 DEF NvdInv, NvdKept, NvdRead, NvdHandled, Advisory!UpToNow
<1> QED
  BY <1>1, <1>3, <1>4 DEF NvdInv, NvdWhole, NvdBegun, NvdCovers, NvdHandled, NvdBounded

\* A collection that fails leaves the state file as it was.
LEMMA NvdFail ==
    ASSUME NvdInv, Advisory!Fail
    PROVE  NvdInv'
<1>1. /\ nvdClock' = nvdClock /\ nvdModified' = nvdModified /\ nvdSaved' = nvdSaved
      /\ nvdRun' = Advisory!Idle /\ nvdCollected' = nvdCollected /\ nvdSlipped' = nvdSlipped
      /\ nvdKind' = nvdKind /\ nvdSkipped' = nvdSkipped
  BY DEF Advisory!Fail
<1>2. nvdRun'.step = "idle" /\ nvdRun' \in NvdRuns
  <2>1. 0 \in 0..nvdClock /\ 0 \in 0..NvdMaxPages
    BY NvdNumbers, SourcesAssumption DEF NvdInv
  <2>2. Advisory!NoWindow \in NvdWindows
    BY <2>1 DEF Advisory!NoWindow, Advisory!Window, NvdWindows
  <2> QED  BY <1>1, <2>1, <2>2 DEF Advisory!Idle, NvdRuns
<1>3. NvdTypes'
  <2>1. NvdWindows' = NvdWindows  BY <1>1 DEF NvdWindows
  <2> QED  BY <1>1, <1>2, <2>1 DEF NvdInv, NvdTypes, NvdRuns
<1>4. NvdKept'
  BY <1>1 DEF NvdInv, NvdKept, NvdHandled, Advisory!UpToNow
<1> QED
  BY <1>1, <1>2, <1>3, <1>4
     DEF NvdInv, NvdRead, NvdWhole, NvdBegun, NvdCovers, NvdHandled, NvdBounded

\* Every step keeps the invariant.
LEMMA NvdStep == NvdInv /\ (Advisory!Next \/ UNCHANGED nvdVars) => NvdInv'
BY NvdModify, NvdBegin, NvdReadPage, NvdFinish, NvdFail, NvdSame, Zenon DEF Advisory!Next

\* Nothing was published before the first collection.
LEMMA NvdInit == Advisory!Init => NvdInv
<1> SUFFICES ASSUME Advisory!Init PROVE NvdInv
  OBVIOUS
<1>1. /\ nvdClock = 0 /\ nvdModified = [r \in NvdRecords |-> 0]
      /\ nvdSaved = [checkpoint |-> 0, next |-> Advisory!NoWindow]
      /\ nvdRun = Advisory!Idle /\ nvdCollected = {} /\ nvdSlipped = {}
      /\ nvdKind \in {"index", "url"} /\ nvdSkipped = {}
  BY DEF Advisory!Init
<1>2. Advisory!NoWindow = [from |-> 0, to |-> 0, index |-> 0] /\ Advisory!NoWindow \in NvdWindows
  BY <1>1 DEF Advisory!NoWindow, Advisory!Window, NvdWindows
<1>3. nvdRun.step = "idle" /\ nvdRun \in NvdRuns
  BY <1>1, <1>2, SourcesAssumption DEF Advisory!Idle, NvdRuns
<1>4. NvdTypes
  BY <1>1, <1>2, <1>3, SourcesAssumption DEF NvdTypes
<1>5. \A w : In(nvdModified, w) = {}  BY <1>1 DEF In
<1>6. Advisory!UpToNow(nvdSaved.next).index = 0 /\ nvdSaved.next.index = 0
  BY <1>1, <1>2 DEF Advisory!UpToNow
<1>7. NvdKept  BY <1>5, <1>6 DEF NvdKept, Had, Fits
<1>8. NvdBounded  BY <1>3, <1>6, SourcesAssumption, FS_CardinalityType DEF NvdBounded
<1> QED
  BY <1>1, <1>3, <1>4, <1>7, <1>8 DEF NvdInv, Distinct, NvdRead, NvdWhole, NvdBegun, NvdCovers

\* The invariant has the types, and what the checkpoint has passed was handled.
LEMMA NvdPromises == NvdInv /\ faults \in 0..MaxFaults => Advisory!TypeOK /\ Advisory!CheckpointCovers
<1> SUFFICES ASSUME NvdInv, faults \in 0..MaxFaults
             PROVE  Advisory!TypeOK /\ Advisory!CheckpointCovers
  OBVIOUS
<1>1. nvdSaved.next.index \in 0..Cardinality(NvdRecords)
  <2>1. nvdSaved.next.index \in Nat  BY NvdNumbers DEF NvdInv, NvdWindows
  <2>2. Cardinality(NvdRecords) \in Nat  BY SourcesAssumption, FS_CardinalityType
  <2> QED  BY <2>1, <2>2 DEF NvdInv, NvdBounded
<1>2. nvdSaved.next.to \in 0..nvdClock  BY NvdNumbers DEF NvdInv, NvdWindows
<1>3. Advisory!TypeOK
  BY <1>1, <1>2, Counting DEF Advisory!TypeOK, NvdInv, NvdTypes, NvdRuns, NvdVersions
<1>4. Advisory!CheckpointCovers
  <2> SUFFICES ASSUME NEW r \in NvdRecords,
                      0 < nvdModified[r], nvdModified[r] <= nvdSaved.checkpoint
               PROVE  <<r, nvdModified[r]>> \in nvdCollected \/ Advisory!PassedOver(r)
    BY DEF Advisory!CheckpointCovers, Advisory!Version
  <2>1. <<r, nvdModified[r]>> \in NvdHandled  BY DEF NvdInv, NvdCovers
  <2>2. nvdSkipped # {} => nvdKind = "url"  BY DEF NvdInv, NvdTypes, NvdBegun
  <2> QED  BY <2>1, <2>2 DEF NvdHandled, Advisory!PassedOver, Advisory!Version
<1> QED  BY <1>3, <1>4

-----------------------------------------------------------------------------
(* The channel and the search.                                             *)

\* A finite set of numbers has a largest member and a smallest.
LEMMA Extremes ==
    ASSUME NEW S, S \subseteq Int, IsFiniteSet(S), S # {}
    PROVE  /\ Social!Max(S) \in S /\ \A y \in S : y <= Social!Max(S)
           /\ Social!Min(S) \in S /\ \A y \in S : Social!Min(S) <= y
<1> DEFINE f == [x \in S |-> x]
           n == Cardinality(S)
<1>1. /\ \A s \in S : f[s] \in Int
      /\ \A r, s \in S : r # s => f[r] # f[s]
  OBVIOUS
<1>2. n \in Nat /\ n # 0  BY FS_EmptySet, FS_CardinalityType
<1>3. 0 \in 0..(n - 1) /\ n - 1 \in 0..(n - 1)  BY <1>2
<1> HIDE DEF f
<1>4. /\ \A r \in S : Cardinality(Before(S, f, r)) \in 0..(n - 1)
      /\ \A r, s \in S : f[r] < f[s] =>
            Cardinality(Before(S, f, r)) < Cardinality(Before(S, f, s))
      /\ \A k \in 0..(n - 1) : \E r \in S : Cardinality(Before(S, f, r)) = k
  BY <1>1, PlacesTaken
<1>5. PICK r \in S : Cardinality(Before(S, f, r)) = n - 1  BY <1>3, <1>4
<1>6. PICK q \in S : Cardinality(Before(S, f, q)) = 0  BY <1>3, <1>4
<1> HIDE DEF n
<1>7. \A y \in S : y <= r /\ q <= y
  <2> SUFFICES ASSUME NEW y \in S PROVE ~(r < y) /\ ~(y < q)
    BY <1>5, <1>6
  <2>1. r < y => Cardinality(Before(S, f, r)) < Cardinality(Before(S, f, y))
    BY <1>4, <1>5 DEF f
  <2>2. y < q => Cardinality(Before(S, f, y)) < Cardinality(Before(S, f, q))
    BY <1>4, <1>6 DEF f
  <2>3. Cardinality(Before(S, f, y)) \in 0..(n - 1)  BY <1>4
  <2> QED  BY <1>2, <1>5, <1>6, <2>1, <2>2, <2>3
<1>8. /\ \E x \in S : \A y \in S : x >= y
      /\ \E x \in S : \A y \in S : x <= y
  BY <1>5, <1>6, <1>7
<1> QED  BY <1>8 DEF Social!Max, Social!Min

\* The highest of an interval.
LEMMA HighestOf ==
    ASSUME NEW a \in Nat, NEW b \in Int, NEW n \in Nat
    PROVE  Social!Highest(n, a..b) = {m \in a..b : b - m < n}
<1> SUFFICES ASSUME NEW m \in a..b
             PROVE  Cardinality({x \in a..b : x > m}) = b - m
  BY Counting DEF Social!Highest
<1>1. {x \in a..b : x > m} = (m + 1)..b  OBVIOUS
<1>2. m + 1 \in Int /\ m <= b /\ b \in Int  OBVIOUS
<1>3. Cardinality((m + 1)..b) = IF m + 1 > b THEN 0 ELSE b - (m + 1) + 1  BY <1>2, FS_Interval
<1>4. Cardinality((m + 1)..b) = b - m  BY <1>2, <1>3
<1> QED  BY <1>1, <1>4

SocialSteps == {"idle", "page", "end", "limit", "failed"}
SocialRuns  == [step : SocialSteps, page : 0..SocialMaxPages, before : 0..(SocialLast + 1),
                seen : SUBSET (1..socialNewest), done : SUBSET (1..socialNewest),
                items : SUBSET (1..socialNewest), error : BOOLEAN, bounded : BOOLEAN]

\* What was produced has a hash, and was seen.
SocialTypes ==
    /\ socialKind \in {"channel", "search"}
    /\ socialNewest \in 0..SocialLast /\ socialCheckpoint \in 0..socialNewest
    /\ socialKnown \subseteq 1..SocialLast /\ socialCut \subseteq 1..SocialLast
    /\ socialRun \in SocialRuns
    /\ socialRun.items \subseteq socialRun.done /\ socialRun.done \subseteq socialRun.seen
    /\ socialRun.done \subseteq socialKnown
    /\ socialRun.step = "page" => socialRun.page < SocialMaxPages

\* A walk of a channel leaves no gap above its cursor.
SocialWalked ==
    socialKind = "channel" /\ socialRun.step # "idle" =>
        /\ socialRun.before >= 1
        /\ \A s \in socialRun.seen :
              /\ socialRun.before <= s
              /\ \A m \in socialRun.before..s : m \in socialRun.seen

\* A search leaves no gap in the pages it has read, up to the newest it has seen:
\* what has appeared since only moves the pages on.
SocialPaged ==
    socialKind = "search" /\ socialRun.step = "page" =>
        \A s \in socialRun.seen : \A m \in (socialCheckpoint + 1)..s :
            socialNewest - m < socialRun.page * SocialPageSize => m \in socialRun.seen

\* A message that was seen was produced, without an error and a limit.
SocialMade ==
    ~socialRun.error /\ ~socialRun.bounded =>
        \A m \in socialRun.seen : m > socialCheckpoint => m \in socialKnown \cup SocialBlank

\* A walk that came to its end without a limit leaves no gap at all.
SocialReached ==
    /\ socialRun.step = "end" \/ (socialRun.step = "limit" /\ socialKind = "channel")
    /\ ~socialRun.bounded
    => \A s \in socialRun.seen : \A m \in (socialCheckpoint + 1)..s : m \in socialRun.seen

\* What every step of a walk keeps.
SocialInv ==
    /\ SocialTypes /\ SocialWalked /\ SocialPaged /\ SocialMade /\ SocialReached
    /\ Social!CheckpointIsHonest

\* The numbers the arguments compare.
LEMMA SocialNumbers ==
    ASSUME SocialTypes
    PROVE  /\ SocialLast \in Nat /\ SocialPageSize \in Nat /\ SocialPageSize > 0
           /\ SocialMaxPages \in Nat
           /\ socialNewest \in Nat /\ socialNewest <= SocialLast
           /\ socialCheckpoint \in Nat /\ socialCheckpoint <= socialNewest
           /\ socialRun.page \in Nat /\ socialRun.before \in Nat
           /\ socialRun.page * SocialPageSize \in Nat
           /\ socialRun.seen \subseteq 1..socialNewest
<1>1. /\ SocialLast \in Nat /\ SocialPageSize \in Nat /\ SocialPageSize > 0 /\ SocialMaxPages \in Nat
  BY SourcesAssumption
<1>2. socialRun.page \in 0..SocialMaxPages /\ socialRun.before \in 0..(SocialLast + 1)
      /\ socialRun.seen \subseteq 1..socialNewest
  BY DEF SocialTypes, SocialRuns
<1>3. socialRun.page * SocialPageSize \in Nat  BY <1>1, <1>2
<1> QED  BY <1>1, <1>2, <1>3 DEF SocialTypes

\* The newest message that a walk of a channel has not seen.
SocialTop ==
    IF socialRun.before <= socialNewest THEN socialRun.before - 1 ELSE socialNewest

\* The pages are intervals.
LEMMA SocialPages ==
    ASSUME SocialTypes, SocialWalked, socialRun.step = "page"
    PROVE  /\ socialKind = "channel" =>
                Social!Page = {m \in 1..SocialTop : SocialTop - m < SocialPageSize}
           /\ socialKind = "search" =>
                Social!Page = {m \in (socialCheckpoint + 1)..socialNewest :
                                 /\ socialNewest - m >= socialRun.page * SocialPageSize
                                 /\ socialNewest - m < (socialRun.page + 1) * SocialPageSize}
<1>1. CASE socialKind = "channel"
  <2>1. SocialTop \in Nat /\ {m \in 1..socialNewest : m < socialRun.before} = 1..SocialTop
    BY <1>1, SocialNumbers DEF SocialWalked, SocialTop
  <2>2. Social!Page = Social!Highest(SocialPageSize, 1..SocialTop)
    BY <1>1, <2>1 DEF Social!Page
  <2>3. Social!Highest(SocialPageSize, 1..SocialTop)
           = {m \in 1..SocialTop : SocialTop - m < SocialPageSize}
    <3>1. 1 \in Nat /\ SocialTop \in Int /\ SocialPageSize \in Nat  BY <2>1, SocialNumbers
    <3> QED  BY <3>1, HighestOf
  <2> QED  BY <1>1, <2>2, <2>3
<1>2. CASE socialKind = "search"
  <2> DEFINE k == socialRun.page * SocialPageSize
             c == socialCheckpoint + 1
  <2>1. k \in Nat /\ c \in Nat /\ (socialRun.page + 1) * SocialPageSize = k + SocialPageSize
    BY SocialNumbers
  <2>2. Social!Hits = c..socialNewest  BY SocialNumbers DEF Social!Hits
  <2> HIDE DEF k, c
  <2>3. Social!Highest(k, c..socialNewest) = {m \in c..socialNewest : socialNewest - m < k}
    <3>1. socialNewest \in Int  BY SocialNumbers
    <3> QED  BY <2>1, <3>1, HighestOf
  <2>4. Social!Hits \ Social!Highest(k, Social!Hits) = c..(socialNewest - k)
    <3>1. socialNewest \in Int  BY SocialNumbers
    <3>2. \A m \in Int :
            m \in c..socialNewest /\ ~(socialNewest - m < k) <=> m \in c..(socialNewest - k)
      BY <2>1, <3>1
    <3>3. c..socialNewest \subseteq Int /\ c..(socialNewest - k) \subseteq Int  OBVIOUS
    <3>4. \A m : m \in (c..socialNewest) \ {x \in c..socialNewest : socialNewest - x < k}
                   <=> m \in c..(socialNewest - k)
      BY <3>2, <3>3
    <3> QED  BY <2>2, <2>3, <3>4
  <2>5. Social!Page = Social!Highest(SocialPageSize, c..(socialNewest - k))
    BY <1>2, <2>4 DEF Social!Page, k
  <2>6. Social!Page = {m \in c..(socialNewest - k) : (socialNewest - k) - m < SocialPageSize}
    <3>1. socialNewest - k \in Int /\ SocialPageSize \in Nat  BY <2>1, SocialNumbers
    <3>2. Social!Highest(SocialPageSize, c..(socialNewest - k))
             = {m \in c..(socialNewest - k) : (socialNewest - k) - m < SocialPageSize}
      BY <2>1, <3>1, HighestOf
    <3> QED  BY <2>5, <3>2
  <2>7. Social!Page = {m \in c..socialNewest :
                         socialNewest - m >= k /\ socialNewest - m < k + SocialPageSize}
    BY <2>1, <2>6, SocialNumbers
  <2> QED  BY <1>2, <2>1, <2>7 DEF k, c
<1> QED  BY <1>1, <1>2 DEF SocialTypes

\* What a page leaves untaken, a limit has left out.
LEMMA SocialTakes ==
    ASSUME SocialTypes, SocialWalked, socialRun.step = "page", NEW bad, NEW items, NEW added,
           ~Social!LeavesOut(bad, items, added)
    PROVE  Social!New = Social!Taken(bad)
<1>1. CASE socialKind = "channel"  BY <1>1 DEF Social!LeavesOut
<1>2. CASE socialKind = "search"
  <2> SUFFICES ASSUME NEW m \in Social!New
               PROVE  Cardinality({x \in Social!New \ (socialKnown \cup bad) : x < m}) < SocialLast
    BY <1>2, Counting DEF Social!Taken, Social!Room
  <2>1. Social!New \subseteq 1..socialNewest
    BY <1>2, SocialPages, SocialNumbers DEF Social!New
  <2>2. m \in Nat /\ m >= 1 /\ m <= SocialLast /\ SocialLast \in Nat
    BY <2>1, SocialNumbers
  <2> DEFINE L == {x \in Social!New \ (socialKnown \cup bad) : x < m}
  <2>3. L \in SUBSET (1..(m - 1))
    <3> SUFFICES ASSUME NEW x \in L PROVE x \in 1..(m - 1)
      OBVIOUS
    <3>1. x \in 1..socialNewest /\ x < m  BY <2>1
    <3> QED  BY <2>2, <3>1
  <2>4. IsFiniteSet(1..(m - 1)) /\ Cardinality(1..(m - 1)) = m - 1
    <3>1. m - 1 \in Int /\ 1 \in Int  BY <2>2
    <3>2. IsFiniteSet(1..(m - 1))
          /\ Cardinality(1..(m - 1)) = IF 1 > m - 1 THEN 0 ELSE (m - 1) - 1 + 1
      BY <3>1, FS_Interval
    <3> QED  BY <2>2, <3>2
  <2> HIDE DEF L
  <2>5. Cardinality(L) <= m - 1 /\ Cardinality(L) \in Nat
    BY <2>3, <2>4, FS_Subset, FS_CardinalityType
  <2>6. Cardinality(L) < SocialLast  BY <2>2, <2>5
  <2> QED  BY <2>6 DEF L
<1> QED  BY <1>1, <1>2 DEF SocialTypes

\* The oldest message of a page is on it.
LEMMA SocialOldest ==
    ASSUME SocialTypes, SocialWalked, socialRun.step = "page"
    PROVE  /\ Social!Page \subseteq 1..socialNewest
           /\ Social!Page # {} => /\ Social!Oldest \in Social!Page
                                  /\ \A m \in Social!Page : Social!Oldest <= m
<1>1. Social!Page \subseteq 1..socialNewest
  <2>1. CASE socialKind = "channel"
    <3>1. SocialTop \in Nat /\ SocialTop <= socialNewest
      BY <2>1, SocialNumbers DEF SocialTop, SocialWalked
    <3> QED  BY <2>1, <3>1, SocialPages, SocialNumbers
  <2>2. CASE socialKind = "search"  BY <2>2, SocialPages, SocialNumbers
  <2> QED  BY <2>1, <2>2 DEF SocialTypes
<1>2. IsFiniteSet(1..socialNewest)  BY FS_Interval, SocialNumbers
<1>3. Social!Page \in SUBSET (1..socialNewest) /\ Social!Page \subseteq Int  BY <1>1
<1>4. IsFiniteSet(Social!Page)  BY <1>2, <1>3, FS_Subset
<1> QED  BY <1>1, <1>3, <1>4, Extremes DEF Social!Oldest

\* What is produced of a page of which bad fails, and what of it is new.
SocialAdded(bad) == Social!Taken(bad) \ bad
SocialItems(bad) == socialRun.items \cup (SocialAdded(bad) \ socialKnown)

\* What a page of a collection does.
LEMMA SocialReads ==
    ASSUME SocialTypes, SocialWalked, NEW bad \in SUBSET Social!Messages, Social!ReadPage(bad)
    PROVE  /\ socialRun.step = "page" /\ socialRun' \in SocialRuns
           /\ socialKind' = socialKind /\ socialNewest' = socialNewest
           /\ socialCheckpoint' = socialCheckpoint /\ socialCut' = socialCut
           /\ socialKnown' = socialKnown \cup SocialAdded(bad)
           /\ socialRun'.page = socialRun.page + 1
           /\ socialRun'.seen = socialRun.seen \cup Social!Page
           /\ socialRun'.done = socialRun.done \cup SocialAdded(bad)
           /\ socialRun'.items = SocialItems(bad)
           /\ socialRun'.before = IF Social!Page = {} THEN socialRun.before ELSE Social!Oldest
           /\ ~socialRun'.error => ~socialRun.error /\ bad = {}
           /\ ~socialRun'.bounded =>
                 ~socialRun.bounded /\ ~Social!LeavesOut(bad, SocialItems(bad), SocialAdded(bad))
           /\ socialRun'.step \in {"page", "end", "limit"}
           /\ socialRun'.step = "end" => Social!IsOver(SocialItems(bad), SocialAdded(bad))
           /\ socialRun'.step = "limit" => socialRun.page + 1 = SocialMaxPages
           /\ socialRun'.step = "page" => socialRun'.page < SocialMaxPages
<1> DEFINE b == IF Social!Page = {} THEN socialRun.before ELSE Social!Oldest
           over == Social!IsOver(SocialItems(bad), SocialAdded(bad))
           out == Social!LeavesOut(bad, SocialItems(bad), SocialAdded(bad))
           step == IF over THEN "end"
                   ELSE IF socialRun.page + 1 = SocialMaxPages THEN "limit" ELSE "page"
<1>1. /\ socialRun.step = "page"
      /\ socialKnown' = socialKnown \cup SocialAdded(bad)
      /\ socialRun' = [socialRun EXCEPT
              !.page = @ + 1, !.seen = @ \cup Social!Page, !.done = @ \cup SocialAdded(bad),
              !.items = SocialItems(bad),
              !.error = @ \/ bad # {}, !.bounded = @ \/ out, !.before = b, !.step = step]
      /\ UNCHANGED <<socialKind, socialNewest, socialCheckpoint, socialCut>>
  BY DEF Social!ReadPage, SocialAdded, SocialItems
<1>2. /\ b \in 0..(SocialLast + 1) /\ socialRun.page + 1 \in 0..SocialMaxPages
      /\ socialRun.page + 1 # SocialMaxPages => socialRun.page + 1 < SocialMaxPages
  <2>1. Social!Page # {} => Social!Oldest \in 1..socialNewest  BY <1>1, SocialOldest
  <2>2. socialRun.before \in 0..(SocialLast + 1)  BY DEF SocialTypes, SocialRuns
  <2>3. socialRun.page < SocialMaxPages  BY <1>1 DEF SocialTypes
  <2> QED  BY <2>1, <2>2, <2>3, SocialNumbers
<1>3. /\ Social!Page \in SUBSET (1..socialNewest) /\ SocialAdded(bad) \in SUBSET (1..socialNewest)
      /\ SocialAdded(bad) \subseteq Social!Page
  BY <1>1, SocialOldest DEF SocialAdded, Social!Taken, Social!New
<1>4. /\ socialRun.seen \cup Social!Page \in SUBSET (1..socialNewest)
      /\ socialRun.done \cup SocialAdded(bad) \in SUBSET (1..socialNewest)
      /\ SocialItems(bad) \in SUBSET (1..socialNewest)
  BY <1>3 DEF SocialTypes, SocialRuns, SocialItems
<1>5. /\ step \in {"page", "end", "limit"} /\ step \in SocialSteps
      /\ step = "end" => over
      /\ step = "limit" => socialRun.page + 1 = SocialMaxPages
      /\ step = "page" => socialRun.page + 1 # SocialMaxPages
  BY DEF SocialSteps
<1> HIDE DEF b, over, out, step
<1>6. PICK e \in BOOLEAN, o \in BOOLEAN :
          /\ socialRun' = [socialRun EXCEPT
              !.page = @ + 1, !.seen = @ \cup Social!Page, !.done = @ \cup SocialAdded(bad),
              !.items = SocialItems(bad), !.error = e, !.bounded = o, !.before = b, !.step = step]
          /\ ~e => ~socialRun.error /\ bad = {}
          /\ ~o => ~socialRun.bounded /\ ~out
  BY <1>1
<1>7. socialRun \in SocialRuns  BY DEF SocialTypes
<1>8. socialRun' \in SocialRuns
  BY <1>2, <1>4, <1>5, <1>6, <1>7 DEF SocialRuns
<1>9. /\ socialRun'.page = socialRun.page + 1
      /\ socialRun'.seen = socialRun.seen \cup Social!Page
      /\ socialRun'.done = socialRun.done \cup SocialAdded(bad)
      /\ socialRun'.items = SocialItems(bad) /\ socialRun'.before = b
      /\ socialRun'.error = e /\ socialRun'.bounded = o /\ socialRun'.step = step
  BY <1>6, <1>7 DEF SocialRuns
<1> QED  BY <1>1, <1>2, <1>5, <1>6, <1>8, <1>9 DEF b, over, out

\* A page is read: the walk leaves no gap, and stops where nothing is left out.
LEMMA SocialReadPage ==
    ASSUME SocialInv, NEW bad \in SUBSET Social!Messages, Social!ReadPage(bad)
    PROVE  SocialInv'
<1> DEFINE had == socialRun.seen
           page == Social!Page
           added == SocialAdded(bad)
           cp == socialCheckpoint
<1>1. /\ socialRun.step = "page" /\ socialRun' \in SocialRuns
      /\ socialKind' = socialKind /\ socialNewest' = socialNewest
      /\ socialCheckpoint' = cp /\ socialCut' = socialCut
      /\ socialKnown' = socialKnown \cup added
      /\ socialRun'.page = socialRun.page + 1
      /\ socialRun'.seen = had \cup page
      /\ socialRun'.done = socialRun.done \cup added
      /\ socialRun'.items = SocialItems(bad)
      /\ socialRun'.before = IF page = {} THEN socialRun.before ELSE Social!Oldest
      /\ ~socialRun'.error => ~socialRun.error /\ bad = {}
      /\ ~socialRun'.bounded =>
            ~socialRun.bounded /\ ~Social!LeavesOut(bad, SocialItems(bad), added)
      /\ socialRun'.step \in {"page", "end", "limit"}
      /\ socialRun'.step = "end" => Social!IsOver(SocialItems(bad), added)
      /\ socialRun'.step = "limit" => socialRun.page + 1 = SocialMaxPages
      /\ socialRun'.step = "page" => socialRun'.page < SocialMaxPages
  BY SocialReads DEF SocialInv
<1>2. /\ page \subseteq 1..socialNewest /\ had \subseteq 1..socialNewest
      /\ page # {} => Social!Oldest \in page /\ \A m \in page : Social!Oldest <= m
      /\ added \subseteq page
  BY <1>1, SocialOldest, SocialNumbers DEF SocialInv, SocialAdded, Social!Taken, Social!New
<1>3. SocialTypes'
  <2>1. SocialItems(bad) \subseteq socialRun.done \cup added
    BY DEF SocialInv, SocialTypes, SocialItems
  <2>2. page \subseteq 1..SocialLast  BY <1>2, SocialNumbers DEF SocialInv
  <2>3. SocialRuns' = SocialRuns  BY <1>1 DEF SocialRuns
  <2> HIDE DEF page, added
  <2> QED  BY <1>1, <1>2, <2>1, <2>2, <2>3 DEF SocialInv, SocialTypes
<1>4. SocialWalked'
  <2> SUFFICES ASSUME socialKind = "channel"
               PROVE  /\ socialRun'.before >= 1
                      /\ \A s \in had \cup page :
                            /\ socialRun'.before <= s
                            /\ \A m \in socialRun'.before..s : m \in had \cup page
    BY <1>1 DEF SocialWalked
  <2>1. /\ page = {m \in 1..SocialTop : SocialTop - m < SocialPageSize}
        /\ socialRun.before >= 1 /\ socialRun.before \in Nat /\ socialNewest \in Nat
        /\ SocialPageSize \in Nat
        /\ \A s \in had : /\ socialRun.before <= s
                           /\ \A m \in socialRun.before..s : m \in had
    BY <1>1, SocialPages, SocialNumbers DEF SocialInv, SocialWalked
  <2>2. CASE page = {}  BY <1>1, <2>1, <2>2
  <2>3. CASE page # {}
    <3> DEFINE o == Social!Oldest
    <3>1. o \in page /\ o \in Nat /\ o >= 1 /\ SocialTop \in Nat /\ o <= SocialTop
          /\ socialRun'.before = o /\ SocialTop - o < SocialPageSize
          /\ SocialTop < socialRun.before /\ SocialTop <= socialNewest
          /\ (socialRun.before <= socialNewest => SocialTop = socialRun.before - 1)
      BY <1>1, <1>2, <2>1, <2>3 DEF SocialTop
    <3> HIDE DEF o
    <3>2. \A m \in o..SocialTop : m \in page  BY <2>1, <3>1
    <3>3. ASSUME NEW s \in had
          PROVE  o <= s /\ \A m \in o..s : m \in had \cup page
      <4>1. s \in Nat /\ s <= socialNewest /\ socialRun.before <= s  BY <1>2, <2>1
      <4>2. SocialTop = socialRun.before - 1  BY <2>1, <3>1, <4>1
      <4>3. \A m \in o..s : m \in o..SocialTop \/ m \in socialRun.before..s
        BY <2>1, <3>1, <4>1, <4>2
      <4> QED  BY <2>1, <3>1, <3>2, <4>1, <4>2, <4>3
    <3>4. ASSUME NEW s \in page
          PROVE  o <= s /\ \A m \in o..s : m \in had \cup page
      <4>1. o <= s /\ s \in Nat /\ s <= SocialTop  BY <1>2, <2>1, <2>3 DEF o
      <4> QED  BY <3>1, <3>2, <4>1
    <3> QED  BY <3>1, <3>3, <3>4
  <2> QED  BY <2>2, <2>3
<1>5. ASSUME socialKind = "search",
             NEW s \in had \cup page, NEW m \in (cp + 1)..s,
             socialNewest - m < (socialRun.page + 1) * SocialPageSize
      PROVE  m \in had \cup page
  <2> DEFINE k == socialRun.page * SocialPageSize
  <2>1. /\ page = {x \in (cp + 1)..socialNewest :
                      /\ socialNewest - x >= k
                      /\ socialNewest - x < (socialRun.page + 1) * SocialPageSize}
        /\ k \in Nat /\ cp \in Nat /\ socialNewest \in Nat /\ s \in Nat /\ s <= socialNewest
    BY <1>1, <1>2, <1>5, SocialPages, SocialNumbers DEF SocialInv
  <2>2. m \in Nat /\ m <= s /\ m \in (cp + 1)..socialNewest  BY <2>1
  <2>3. CASE socialNewest - m >= k  BY <1>5, <2>1, <2>2, <2>3
  <2>4. CASE socialNewest - m < k
    <3>1. s \in had
      <4> SUFFICES ASSUME s \in page PROVE FALSE
        OBVIOUS
      <4>1. socialNewest - s >= k  BY <2>1
      <4> HIDE DEF k
      <4> QED  BY <2>1, <2>2, <2>4, <4>1
    <3> QED  BY <1>1, <1>5, <2>4, <3>1 DEF SocialInv, SocialPaged
  <2> HIDE DEF k
  <2> QED  BY <2>1, <2>2, <2>3, <2>4
<1>6. SocialPaged'  BY <1>1, <1>5 DEF SocialPaged
<1>7. SocialMade'
  <2> SUFFICES ASSUME ~socialRun'.error, ~socialRun'.bounded,
                      NEW m \in had \cup page, m > cp
               PROVE  m \in socialKnown \cup added \cup SocialBlank
    BY <1>1 DEF SocialMade
  <2>1. CASE m \in had  BY <1>1, <2>1 DEF SocialInv, SocialMade
  <2>2. CASE m \in page /\ m \notin had /\ m \notin SocialBlank
    <3>1. Social!New = Social!Taken(bad) /\ bad = {}
      BY <1>1, SocialTakes DEF SocialInv
    <3>2. m \in Social!New  BY <2>2 DEF Social!New
    <3> QED  BY <3>1, <3>2 DEF SocialAdded
  <2> QED  BY <2>1, <2>2
<1>8. SocialReached'
  <2> SUFFICES ASSUME \/ socialRun'.step = "end"
                      \/ socialRun'.step = "limit" /\ socialKind = "channel",
                      ~socialRun'.bounded, NEW s \in had \cup page, NEW m \in (cp + 1)..s
               PROVE  m \in had \cup page
    BY <1>1 DEF SocialReached
  <2>1. /\ s \in Nat /\ s <= socialNewest /\ cp \in Nat /\ m \in Nat /\ cp < m /\ m <= s
        /\ socialNewest \in Nat
    BY <1>2, SocialNumbers DEF SocialInv
  <2>2. CASE socialKind = "search"
    <3>1. (socialRun.page + 1) * SocialPageSize >= Cardinality(Social!Hits)
      BY <1>1, <2>2, Counting DEF Social!IsOver
    <3>2. Cardinality(Social!Hits) = socialNewest - cp
      <4>1. Social!Hits = (cp + 1)..socialNewest  BY <2>1 DEF Social!Hits
      <4>2. cp + 1 \in Int /\ socialNewest \in Int  BY <2>1
      <4>3. Cardinality((cp + 1)..socialNewest)
               = IF cp + 1 > socialNewest THEN 0 ELSE socialNewest - (cp + 1) + 1
        BY <4>2, FS_Interval
      <4> QED  BY <2>1, <4>1, <4>3
    <3> DEFINE q == (socialRun.page + 1) * SocialPageSize
    <3>3. q \in Nat  BY SocialNumbers DEF SocialInv
    <3>4. socialNewest - m < q
      <4>1. q >= socialNewest - cp  BY <3>1, <3>2
      <4> HIDE DEF q
      <4> QED  BY <2>1, <3>3, <4>1
    <3> QED  BY <1>5, <2>2, <3>4
  <2>3. CASE socialKind = "channel"
    <3>1. /\ socialRun'.before >= 1 /\ socialRun'.before \in Nat
          /\ \A x \in had \cup page :
                /\ socialRun'.before <= x
                /\ \A y \in socialRun'.before..x : y \in had \cup page
      <4>1. socialRun'.before \in Nat  BY <1>1, SourcesAssumption DEF SocialRuns
      <4> QED  BY <1>1, <1>4, <2>3, <4>1 DEF SocialWalked
    <3>2. CASE page = {}
      <4>1. SocialTop \notin page /\ SocialTop \in Nat
        BY <1>1, <2>3, <3>2, SocialNumbers DEF SocialInv, SocialWalked, SocialTop
      <4>2. SocialTop < 1
        BY <1>1, <2>3, <4>1, SocialPages, SocialNumbers DEF SocialInv
      <4>3. s \in had  BY <3>2
      <4>4. socialRun.before <= s
        BY <1>1, <2>3, <4>3 DEF SocialInv, SocialWalked
      <4>5. socialRun'.before = socialRun.before /\ socialRun.before - 1 < 1
        BY <1>1, <2>1, <3>2, <4>2, <4>4, SocialNumbers DEF SocialTop, SocialInv
      <4> QED  BY <2>1, <3>1, <4>5, SocialNumbers DEF SocialInv
    <3>3. CASE page # {}
      <4>1. Social!Oldest <= cp
        <5>1. Social!Oldest \in Nat /\ Social!Oldest \in page /\ socialRun'.before = Social!Oldest
          <6>1. page \subseteq 1..socialNewest  BY <1>2
          <6>2. Social!Oldest \in page  BY <1>2, <3>3
          <6>3. socialRun'.before = Social!Oldest  BY <1>1, <2>3, <3>3
          <6> HIDE DEF page
          <6>4. 1..socialNewest \subseteq Nat  OBVIOUS
          <6> QED  BY <6>1, <6>2, <6>3, <6>4, Zenon
        <5>2. Social!Oldest \notin had
          <6>1. Social!Oldest <= SocialTop /\ SocialTop \in Int
            BY <1>1, <2>3, <5>1, SocialPages, SocialNumbers DEF SocialInv, SocialTop
          <6> SUFFICES ASSUME Social!Oldest \in had PROVE FALSE
            OBVIOUS
          <6>2. socialRun.before <= Social!Oldest
            BY <1>1, <2>3 DEF SocialInv, SocialWalked
          <6> QED  BY <1>2, <5>1, <6>1, <6>2, SocialNumbers DEF SocialTop, SocialInv
        <5>3. ~(page \subseteq had)  BY <5>1, <5>2
        <5>4. ~Social!LeavesOut(bad, SocialItems(bad), added)  BY <1>1
        <5>5. socialRun'.step = "end" => Social!IsOver(SocialItems(bad), added)  BY <1>1
        <5>6. ~(Social!Oldest > cp) => Social!Oldest <= cp  BY <2>1, <5>1
        <5> HIDE DEF had, page, added, cp
        <5>7. Social!IsOver(SocialItems(bad), added) =>
                \/ Social!Cardinality(SocialItems(bad)) >= SocialMaxItems
                \/ Social!Oldest <= cp \/ added = {}
          BY <2>3, <5>3 DEF Social!IsOver, page, cp, had
        <5>8. Social!Oldest > cp =>
                ~(\/ Social!Cardinality(SocialItems(bad)) >= SocialMaxItems
                  \/ added = {} \/ socialRun.page + 1 = SocialMaxPages)
          BY <2>3, <3>3, <5>4 DEF Social!LeavesOut, page, cp
        <5> QED  BY <1>1, <5>5, <5>6, <5>7, <5>8
      <4>2. socialRun'.before <= cp  BY <1>1, <3>3, <4>1
      <4> QED  BY <2>1, <3>1, <4>2
    <3> QED  BY <3>2, <3>3
  <2> QED  BY <2>2, <2>3 DEF SocialInv, SocialTypes
<1>9. Social!CheckpointIsHonest'
  BY <1>1 DEF SocialInv, Social!CheckpointIsHonest
<1> QED  BY <1>3, <1>4, <1>6, <1>7, <1>8, <1>9 DEF SocialInv

\* A collection that is not under way, with the checkpoint and what was cut.
LEMMA SocialIdle ==
    ASSUME SocialInv, socialRun' = Social!Idle, socialKind' = socialKind,
           socialNewest' = socialNewest, socialKnown' = socialKnown,
           socialCheckpoint' \in 0..socialNewest, socialCut' \subseteq 1..SocialLast,
           Social!CheckpointIsHonest'
    PROVE  SocialInv'
<1>1. /\ socialRun' \in SocialRuns' /\ socialRun'.step = "idle" /\ socialRun'.seen = {}
      /\ socialRun'.done = {} /\ socialRun'.items = {}
  <2>1. 0 \in 0..SocialMaxPages /\ 0 \in 0..(SocialLast + 1)  BY SourcesAssumption
  <2>2. {} \in SUBSET (1..socialNewest')  OBVIOUS
  <2> QED  BY <2>1, <2>2 DEF Social!Idle, SocialRuns, SocialSteps
<1>2. SocialTypes'  BY <1>1 DEF SocialInv, SocialTypes
<1> QED  BY <1>1, <1>2 DEF SocialInv, SocialWalked, SocialPaged, SocialMade, SocialReached

\* A collection ends: what its checkpoint passes was produced, or is cut.
LEMMA SocialFinish ==
    ASSUME SocialInv, Social!Finish
    PROVE  SocialInv'
<1> DEFINE cp == socialCheckpoint
           to == Social!ReadUpTo
<1>1. /\ socialRun.step \in {"end", "limit", "failed"}
      /\ socialCheckpoint' = IF Social!Advances THEN to ELSE cp
      /\ socialCut' = IF Social!Advances /\ socialRun.bounded
                      THEN socialCut \cup {m \in (cp + 1)..to : m \notin socialRun.done}
                      ELSE socialCut
      /\ socialRun' = Social!Idle /\ socialKind' = socialKind
      /\ socialNewest' = socialNewest /\ socialKnown' = socialKnown
  BY DEF Social!Finish
<1>2. /\ cp \in Nat /\ cp <= socialNewest /\ socialNewest \in Nat /\ socialNewest <= SocialLast
      /\ socialRun.seen \subseteq 1..socialNewest /\ SocialLast \in Nat
  BY SocialNumbers DEF SocialInv
<1>3. to \in socialRun.seen \cup {cp} /\ cp <= to
  <2> DEFINE passed == IF socialKind = "channel" THEN socialRun.seen ELSE socialRun.items
             S == passed \cup {cp}
  <2>1. passed \subseteq socialRun.seen  BY DEF SocialInv, SocialTypes
  <2>2. S \in SUBSET (0..socialNewest) /\ S \subseteq Int /\ S # {} /\ cp \in S
    BY <1>2, <2>1
  <2>3. IsFiniteSet(0..socialNewest)  BY <1>2, FS_Interval
  <2>4. IsFiniteSet(S)  BY <2>2, <2>3, FS_Subset
  <2>5. to = Social!Max(S)  BY DEF Social!ReadUpTo
  <2> HIDE DEF S, passed, to
  <2>6. to \in S /\ cp <= to  BY <2>2, <2>4, <2>5, Extremes
  <2> QED  BY <2>1, <2>6 DEF S
<1>4. to \in 0..socialNewest  BY <1>2, <1>3
<1> HIDE DEF to
<1>5. socialCheckpoint' \in 0..socialNewest /\ socialCut' \subseteq 1..SocialLast
  <2>1. (cp + 1)..to \subseteq 1..SocialLast  BY <1>2, <1>4
  <2>2. socialCut \subseteq 1..SocialLast  BY DEF SocialInv, SocialTypes
  <2>3. \A x : socialCut \cup {m \in (cp + 1)..to : m \notin x} \subseteq 1..SocialLast
    BY <2>1, <2>2
  <2>4. socialCut' \subseteq 1..SocialLast  BY <1>1, <2>2, <2>3
  <2> QED  BY <1>1, <1>2, <1>4, <2>4
<1>6. Social!CheckpointIsHonest'
  <2> SUFFICES ASSUME NEW m \in 1..SocialLast, m <= socialCheckpoint'
               PROVE  m \in socialKnown \cup SocialBlank \cup socialCut'
    BY <1>1 DEF Social!CheckpointIsHonest, Social!Messages
  <2>1. socialCut \subseteq socialCut'  BY <1>1
  <2>2. CASE m <= cp
    BY <2>1, <2>2 DEF SocialInv, Social!CheckpointIsHonest, Social!Messages
  <2>3. CASE ~(m <= cp)
    <3>1. Social!Advances /\ m \in (cp + 1)..to
      BY <1>1, <1>2, <1>4, <2>3
    <3>2. CASE socialRun.bounded
      <4>1. m \in socialRun.done \/ m \in socialCut'  BY <1>1, <3>1, <3>2
      <4> QED  BY <4>1 DEF SocialInv, SocialTypes
    <3>3. CASE ~socialRun.bounded
      <4>1. to \in socialRun.seen  BY <1>2, <1>3, <1>4, <2>3, <3>1
      <4>2. m \in socialRun.seen  BY <3>1, <3>3, <4>1 DEF Social!Advances, SocialInv, SocialReached
      <4>3. m > cp  BY <1>2, <2>3
      <4> QED  BY <3>1, <3>3, <4>2, <4>3 DEF Social!Advances, SocialInv, SocialMade
    <3> QED  BY <3>2, <3>3
  <2> QED  BY <2>2, <2>3
<1> QED  BY <1>1, <1>5, <1>6, SocialIdle

\* A message appears: the pages of a search move on.
LEMMA SocialAppear ==
    ASSUME SocialInv, Social!Appear
    PROVE  SocialInv'
<1>1. /\ socialNewest < SocialLast /\ socialNewest' = socialNewest + 1
      /\ socialKind' = socialKind /\ socialCheckpoint' = socialCheckpoint
      /\ socialKnown' = socialKnown /\ socialRun' = socialRun /\ socialCut' = socialCut
  BY DEF Social!Appear
<1>2. SocialTypes'
  <2>1. /\ socialNewest' \in 0..SocialLast /\ 0..socialNewest \subseteq 0..socialNewest'
        /\ 1..socialNewest \subseteq 1..socialNewest'
    BY <1>1, SocialNumbers DEF SocialInv
  <2>2. SocialRuns \subseteq SocialRuns'  BY <1>1, <2>1 DEF SocialRuns
  <2> QED  BY <1>1, <2>1, <2>2 DEF SocialInv, SocialTypes
<1>3. SocialPaged'
  <2> SUFFICES ASSUME socialKind = "search", socialRun.step = "page",
                      NEW s \in socialRun.seen, NEW m \in (socialCheckpoint + 1)..s,
                      (socialNewest + 1) - m < socialRun.page * SocialPageSize
               PROVE  m \in socialRun.seen
    BY <1>1 DEF SocialPaged
  <2> DEFINE k == socialRun.page * SocialPageSize
  <2>1. k \in Nat /\ socialNewest \in Nat /\ s \in Nat /\ socialCheckpoint \in Nat
    BY SocialNumbers DEF SocialInv
  <2>2. (socialNewest + 1) - m < k  OBVIOUS
  <2> HIDE DEF k
  <2>3. socialNewest - m < k  BY <2>1, <2>2
  <2> QED  BY <2>3 DEF SocialInv, SocialPaged, k
<1> QED
  BY <1>1, <1>2, <1>3
     DEF SocialInv, SocialWalked, SocialMade, SocialReached, Social!CheckpointIsHonest

\* A collection begins, or a request of it fails.
LEMMA SocialBegin ==
    ASSUME SocialInv, Social!Begin \/ Social!RequestFails
    PROVE  SocialInv'
<1>1. /\ socialKind' = socialKind /\ socialNewest' = socialNewest /\ socialCut' = socialCut
      /\ socialCheckpoint' = socialCheckpoint /\ socialKnown' = socialKnown
  BY DEF Social!Begin, Social!RequestFails
<1>2. SocialRuns' = SocialRuns  BY <1>1 DEF SocialRuns
<1>3. Social!CheckpointIsHonest'
  BY <1>1 DEF SocialInv, Social!CheckpointIsHonest
<1>4. CASE Social!Begin
  <2>1. socialRun' = [step |-> "page", page |-> 0, before |-> SocialLast + 1,
                    seen |-> {}, done |-> {},
                      items |-> {}, error |-> FALSE, bounded |-> FALSE]
    BY <1>4 DEF Social!Begin, Social!Idle
  <2>2. /\ socialRun' \in SocialRuns /\ socialRun'.seen = {} /\ socialRun'.step = "page"
        /\ socialRun'.done = {} /\ socialRun'.items = {} /\ socialRun'.page < SocialMaxPages
        /\ socialRun'.before >= 1
    <3>1. 0 \in 0..SocialMaxPages /\ SocialLast + 1 \in 0..(SocialLast + 1) /\ 0 < SocialMaxPages
          /\ SocialLast + 1 >= 1
      BY SourcesAssumption
    <3>2. {} \in SUBSET (1..socialNewest)  OBVIOUS
    <3> QED  BY <2>1, <3>1, <3>2 DEF SocialRuns, SocialSteps
  <2>3. SocialTypes'  BY <1>1, <1>2, <2>2 DEF SocialInv, SocialTypes
  <2> QED
    BY <1>1, <1>3, <2>2, <2>3 DEF SocialInv, SocialWalked, SocialPaged, SocialMade, SocialReached
<1>5. CASE Social!RequestFails
  <2>1. socialRun.step = "page" /\ socialRun' = [socialRun EXCEPT !.step = "failed"]
    BY <1>5 DEF Social!RequestFails
  <2>2. socialRun \in SocialRuns  BY DEF SocialInv, SocialTypes
  <2>3. /\ socialRun' \in SocialRuns /\ socialRun'.step = "failed"
        /\ socialRun'.seen = socialRun.seen /\ socialRun'.done = socialRun.done
        /\ socialRun'.items = socialRun.items /\ socialRun'.before = socialRun.before
        /\ socialRun'.error = socialRun.error /\ socialRun'.bounded = socialRun.bounded
    BY <2>1, <2>2 DEF SocialRuns, SocialSteps
  <2>4. SocialTypes'  BY <1>1, <1>2, <2>3 DEF SocialInv, SocialTypes
  <2> QED
    BY <1>1, <1>3, <2>1, <2>3, <2>4
       DEF SocialInv, SocialWalked, SocialPaged, SocialMade, SocialReached
<1> QED  BY <1>4, <1>5

\* A step that leaves the source and its collection alone keeps its invariant.
LEMMA SocialSame ==
    ASSUME SocialInv, UNCHANGED socialVars
    PROVE  SocialInv'
<1>1. /\ socialKind' = socialKind /\ socialNewest' = socialNewest /\ socialCut' = socialCut
      /\ socialCheckpoint' = socialCheckpoint /\ socialKnown' = socialKnown /\ socialRun' = socialRun
  BY DEF socialVars
<1>2. SocialTypes'  BY <1>1 DEF SocialInv, SocialTypes, SocialRuns
<1> QED
  BY <1>1, <1>2
     DEF SocialInv, SocialWalked, SocialPaged, SocialMade, SocialReached, Social!CheckpointIsHonest

\* Every step keeps the invariant.
LEMMA SocialStep == SocialInv /\ (Social!Next \/ UNCHANGED socialVars) => SocialInv'
BY SocialAppear, SocialBegin, SocialReadPage, SocialFinish, SocialSame, Zenon DEF Social!Next

\* Nothing was seen before the first collection.
LEMMA SocialInit == Social!Init => SocialInv
<1> SUFFICES ASSUME Social!Init PROVE SocialInv
  OBVIOUS
<1>1. /\ socialKind \in {"channel", "search"} /\ socialNewest = 0 /\ socialCheckpoint = 0
      /\ socialKnown = {} /\ socialRun = Social!Idle /\ socialCut = {}
  BY DEF Social!Init
<1>2. /\ socialRun \in SocialRuns /\ socialRun.step = "idle" /\ socialRun.seen = {}
      /\ socialRun.done = {} /\ socialRun.items = {}
  <2>1. 0 \in 0..SocialMaxPages /\ 0 \in 0..(SocialLast + 1)  BY SourcesAssumption
  <2>2. {} \in SUBSET (1..socialNewest)  OBVIOUS
  <2> QED  BY <1>1, <2>1, <2>2 DEF Social!Idle, SocialRuns, SocialSteps
<1>3. SocialTypes  BY <1>1, <1>2, SourcesAssumption DEF SocialTypes
<1>4. Social!CheckpointIsHonest
  <2>1. \A m \in 1..SocialLast : ~(m <= 0)  BY SourcesAssumption
  <2> QED  BY <1>1, <2>1 DEF Social!CheckpointIsHonest, Social!Messages
<1> QED
  BY <1>1, <1>2, <1>3, <1>4 DEF SocialInv, SocialWalked, SocialPaged, SocialMade, SocialReached

\* The invariant has the types.
LEMMA SocialTyped == SocialInv /\ faults \in 0..MaxFaults => Social!TypeOK
<1> SUFFICES ASSUME SocialInv, faults \in 0..MaxFaults PROVE Social!TypeOK
  OBVIOUS
<1>1. 1..socialNewest \subseteq 1..SocialLast /\ 0..socialNewest \subseteq 0..SocialLast
  BY SocialNumbers DEF SocialInv
<1> QED
  BY <1>1 DEF SocialInv, SocialTypes, SocialRuns, SocialSteps, Social!TypeOK, Social!Messages

-----------------------------------------------------------------------------
(* The feed.                                                               *)

\* A step of the feed, or of another service.
RssActs == Feed!Next \/ UNCHANGED rssVars

RssSteps     == {"idle", "fetch", "process", "save", "files"}
RssHashes    == [RssEntries -> 0..rssFeed.edition]
RssStates    == [etag : 0..rssFeed.edition, hash : RssHashes]
RssRunTyped  == rssRun \in [step : RssSteps, state : RssStates, edition : 0..rssFeed.edition,
                      body : RssHashes, left : SUBSET RssEntries, out : SUBSET Feed!Versions]
RssFeedTyped == rssFeed.edition \in 1..RssMaxEdition /\ rssFeed.version \in RssHashes

RssHistoryTyped ==
    /\ rssDelivered \subseteq Feed!Versions /\ rssLost \subseteq Feed!Versions
    /\ rssFailed \subseteq Feed!Versions
    /\ rssSpoiled \subseteq 1..RssMaxEdition

RssTypes == RssFeedTyped /\ rssStore \in RssStates /\ RssRunTyped /\ RssHistoryTyped

\* An entry that is still to be processed is in the answer.
RssLeftAgrees ==
    /\ \A e \in rssRun.left : rssRun.body[e] # 0
    /\ rssRun.step # "process" => rssRun.left = {}

\* The records of a collection are not older than its hashes, and are in the
\* file when it has been written.
RssAhead ==
    /\ rssRun.step \in {"idle", "fetch"} => rssRun.out = {}
    /\ \A v \in rssRun.out : v[2] <= rssRun.state.hash[v[1]]
    /\ rssRun.step = "files" => rssStore = rssRun.state

\* Versions only grow: the file, the state, the answer and the feed, in the
\* order in which they were made.
RssGrows ==
    \A e \in RssEntries :
        /\ rssFeed.version[e] # 0 => rssStore.hash[e] <= rssFeed.version[e]
        /\ rssFeed.version[e] # 0 => rssRun.state.hash[e] <= rssFeed.version[e]
        /\ rssFeed.version[e] # 0 => rssRun.body[e] <= rssFeed.version[e]
        /\ rssRun.body[e] # 0     => rssRun.state.hash[e] <= rssRun.body[e]

\* What was handed over is remembered, by the file and by the collection.
RssRemembers ==
    \A v \in rssDelivered :
        /\ v[2] <= rssStore.hash[v[1]]
        /\ rssRun.step # "idle" => v[2] <= rssRun.state.hash[v[1]]

\* The records of a collection were never handed over.
RssFresh == rssRun.out \cap rssDelivered = {}

\* What is needed to hand over once.
RssCore == RssTypes /\ RssLeftAgrees /\ RssAhead /\ RssGrows /\ RssRemembers /\ RssFresh

\* What was dealt with, and what is about to be now that the file is written.
RssDealt   == rssDelivered \cup rssLost \cup rssFailed
RssPending == IF rssRun.step = "files" THEN rssRun.out ELSE {}

\* A hash was recorded with a record.
RssRecorded ==
    \A e \in RssEntries :
        /\ rssStore.hash[e] # 0     => <<e, rssStore.hash[e]>> \in RssDealt \cup RssPending
        /\ rssRun.state.hash[e] # 0 =>
              <<e, rssRun.state.hash[e]>> \in RssDealt \cup rssRun.out \/ rssRun.step = "idle"

\* An edition that is in the file, and one that the collection has got to.
RssFileCovers ==
    rssStore.etag = rssFeed.edition /\ rssStore.etag \notin rssSpoiled =>
        \A e \in Feed!Listed : <<e, rssFeed.version[e]>> \in RssDealt \cup RssPending

RssRunCovers ==
    /\ rssRun.step # "idle" /\ rssRun.state.etag = rssFeed.edition
    /\ rssRun.state.etag \notin rssSpoiled
    =>
        \A e \in Feed!Listed :
            \/ <<e, rssFeed.version[e]>> \in RssDealt \cup rssRun.out
            \/ e \in rssRun.left /\ rssRun.body[e] = rssFeed.version[e]

\* What every step of the feed keeps.
RssInv == RssCore /\ RssRecorded /\ RssFileCovers /\ RssRunCovers

-----------------------------------------------------------------------------
(* Types.                                                                  *)

\* The collection that begins, and the one there is when none is under way.
LEMMA RssIdleTyped ==
    ASSUME RssFeedTyped
    PROVE  /\ Feed!Nothing \in RssHashes /\ Feed!Empty \in RssStates
           /\ Feed!Idle \in [step : RssSteps, state : RssStates, edition : 0..rssFeed.edition,
                        body : RssHashes, left : SUBSET RssEntries, out : SUBSET Feed!Versions]
<1>1. rssFeed.edition \in Nat /\ 0 \in 0..rssFeed.edition  BY SourcesAssumption DEF RssFeedTyped
<1>2. Feed!Nothing \in RssHashes  BY <1>1 DEF Feed!Nothing, RssHashes
<1>3. Feed!Empty \in RssStates  BY <1>1, <1>2 DEF Feed!Empty, RssStates
<1> QED  BY <1>1, <1>2, <1>3 DEF Feed!Idle, RssSteps

\* The feed is published, and is not changed by a collection.
LEMMA RssPublishTyped ==
    ASSUME RssTypes, NEW e \in RssEntries, NEW listed \in BOOLEAN, Feed!Publish(e, listed)
    PROVE  RssTypes'
<1>1. /\ rssFeed.edition \in 1..RssMaxEdition /\ rssFeed.edition < RssMaxEdition
      /\ rssFeed'.edition = rssFeed.edition + 1
      /\ rssFeed'.version = [rssFeed.version EXCEPT ![e] = IF listed THEN rssFeed.edition + 1 ELSE 0]
  BY DEF RssTypes, RssFeedTyped, Feed!Publish
<1>2. 0..rssFeed.edition \subseteq 0..rssFeed'.edition /\ rssFeed'.edition \in 1..RssMaxEdition
      /\ rssFeed.edition + 1 \in 0..rssFeed'.edition /\ 0 \in 0..rssFeed'.edition
  BY <1>1, SourcesAssumption
<1>3. RssHashes \subseteq RssHashes'  BY <1>2 DEF RssHashes
<1>4. rssFeed'.version \in RssHashes'
  <2>1. rssFeed.version \in RssHashes'  BY <1>3 DEF RssTypes, RssFeedTyped
  <2> QED  BY <1>1, <1>2, <2>1 DEF RssHashes
<1>5. RssStates \subseteq RssStates'  BY <1>2, <1>3 DEF RssStates
<1>6. rssStore' = rssStore /\ rssRun' = rssRun
  BY DEF Feed!Publish
<1>7. RssRunTyped'  BY <1>2, <1>3, <1>5, <1>6 DEF RssTypes, RssRunTyped
<1>8. RssHistoryTyped'  BY DEF RssTypes, RssHistoryTyped, Feed!Publish, Feed!history
<1> QED  BY <1>2, <1>4, <1>5, <1>6, <1>7, <1>8 DEF RssTypes, RssFeedTyped

\* A step of a collection has its types if the file, the collection and the
\* history of it have.
LEMMA RssTypesKept ==
    ASSUME RssTypes, rssFeed' = rssFeed, NEW S,
           S = [step : RssSteps, state : RssStates, edition : 0..rssFeed.edition,
                       body : RssHashes, left : SUBSET RssEntries, out : SUBSET Feed!Versions],
           rssStore' \in RssStates, rssRun' \in S, RssHistoryTyped'
    PROVE  RssTypes'
<1>1. RssHashes' = RssHashes  BY DEF RssHashes
<1>2. RssStates' = RssStates  BY <1>1 DEF RssStates
<1> QED  BY <1>1, <1>2 DEF RssTypes, RssFeedTyped, RssRunTyped

\* Every step keeps the types.
LEMMA RssTypesStep ==
    ASSUME RssTypes, RssLeftAgrees, RssActs
    PROVE  RssTypes'
<1> DEFINE S == [step : RssSteps, state : RssStates, edition : 0..rssFeed.edition,
                 body : RssHashes, left : SUBSET RssEntries, out : SUBSET Feed!Versions]
<1>1. /\ rssFeed.edition \in 1..RssMaxEdition /\ rssFeed.version \in RssHashes /\ rssRun \in S
      /\ rssStore \in RssStates
      /\ rssRun.state \in RssStates /\ rssRun.out \subseteq Feed!Versions
      /\ rssRun.left \subseteq RssEntries
      /\ rssRun.state.hash \in RssHashes /\ rssRun.body \in RssHashes
      /\ rssFeed.edition \in Nat /\ 0 \in 0..rssFeed.edition
      /\ rssFeed.edition \in 0..rssFeed.edition
  BY SourcesAssumption DEF RssTypes, RssFeedTyped, RssRunTyped, RssStates
<1>2. Feed!Idle \in S  BY RssIdleTyped DEF RssTypes
<1> HIDE DEF S
<1>3. \A e \in RssEntries : rssRun.body[e] # 0 => <<e, rssRun.body[e]>> \in Feed!Versions
  BY <1>1, SourcesAssumption DEF RssHashes, Feed!Versions
<1>4. CASE \E e \in RssEntries, listed \in BOOLEAN : Feed!Publish(e, listed)
  BY <1>4, RssPublishTyped
<1>5. CASE \E force \in BOOLEAN : Feed!Begin(force)
  <2>1. PICK force \in BOOLEAN : Feed!Begin(force)  BY <1>5
  <2>2. [rssStore EXCEPT !.etag = 0] \in RssStates  BY <1>1 DEF RssStates
  <2>3. rssRun' \in S
    <3>1. PICK st \in RssStates : rssRun' = [Feed!Idle EXCEPT !.step = "fetch", !.state = st]
      BY <2>1, <2>2, <1>1 DEF Feed!Begin
    <3> QED  BY <3>1, <1>2 DEF S, RssSteps
  <2>4. RssHistoryTyped'  BY <2>1 DEF Feed!Begin, Feed!history, RssTypes, RssHistoryTyped
  <2> QED  BY <1>1, <2>1, <2>3, <2>4, RssTypesKept DEF Feed!Begin, S
<1>6. CASE Feed!RequestFails \/ Feed!NotModified
  <2>1. /\ rssFeed' = rssFeed /\ rssStore' = rssStore
        /\ rssRun' = [rssRun EXCEPT !.step = "save"] /\ RssHistoryTyped'
    BY <1>6 DEF Feed!RequestFails, Feed!NotModified, Feed!history, RssTypes, RssHistoryTyped
  <2>2. rssRun' \in S  BY <1>1, <2>1 DEF S, RssSteps
  <2> QED  BY <1>1, <2>1, <2>2, RssTypesKept DEF S
<1>7. CASE Feed!Fetched \/ Feed!InvalidFeed
  <2>1. PICK step \in RssSteps, entries \in SUBSET RssEntries : Feed!Answered(step, entries)
    BY <1>7 DEF Feed!Fetched, Feed!InvalidFeed, Feed!Listed, RssSteps
  <2>2. rssRun' = [rssRun EXCEPT !.step = step, !.state.etag = rssFeed.edition,
                 !.edition = rssFeed.edition, !.body = rssFeed.version, !.left = entries]
    BY <2>1 DEF Feed!Answered
  <2>3. [rssRun.state EXCEPT !.etag = rssFeed.edition] \in RssStates  BY <1>1 DEF RssStates
  <2>4. rssRun' \in S  BY <1>1, <2>2, <2>3 DEF S
  <2>5. RssHistoryTyped'
    BY <1>7, <1>3, <1>1
       DEF Feed!Fetched, Feed!InvalidFeed, Feed!Answered, RssTypes, RssHistoryTyped
  <2> QED  BY <1>1, <2>1, <2>4, <2>5, RssTypesKept DEF Feed!Answered, S
<1>8. CASE \E e \in RssEntries : Feed!Process(e)
  <2>1. PICK e \in RssEntries : Feed!Process(e)  BY <1>8
  <2>2. [rssRun.state.hash EXCEPT ![e] = rssRun.body[e]] \in RssHashes  BY <1>1 DEF RssHashes
  <2>3. [rssRun.state EXCEPT !.hash[e] = rssRun.body[e]] \in RssStates
    BY <1>1, <2>2 DEF RssStates
  <2>4. <<e, rssRun.body[e]>> \in Feed!Versions  BY <1>3, <2>1 DEF Feed!Process, RssLeftAgrees
  <2>5. /\ rssRun.left \ {e} \subseteq RssEntries
        /\ rssRun.out \cup {<<e, rssRun.body[e]>>} \subseteq Feed!Versions
    BY <1>1, <2>4
  <2>6. PICK out \in SUBSET Feed!Versions :
            rssRun' = [rssRun EXCEPT !.left = @ \ {e}, !.state.hash[e] = rssRun.body[e], !.out = out]
    BY <1>1, <2>1, <2>5 DEF Feed!Process
  <2>7. rssRun' \in S  BY <1>1, <2>3, <2>5, <2>6 DEF S
  <2>8. RssHistoryTyped'  BY <2>1 DEF Feed!Process, Feed!history, RssTypes, RssHistoryTyped
  <2> QED  BY <1>1, <2>1, <2>7, <2>8, RssTypesKept DEF Feed!Process, S
<1>9. CASE \E e \in RssEntries : Feed!EntryFails(e)
  <2>1. PICK e \in RssEntries : Feed!EntryFails(e)  BY <1>9
  <2>2. rssRun' = [rssRun EXCEPT !.left = @ \ {e}]  BY <2>1 DEF Feed!EntryFails
  <2>3. rssRun' \in S  BY <1>1, <2>2 DEF S
  <2>4. <<e, rssRun.body[e]>> \in Feed!Versions  BY <1>3, <2>1 DEF Feed!EntryFails, RssLeftAgrees
  <2>5. RssHistoryTyped'
    BY <2>1, <2>4 DEF Feed!EntryFails, RssTypes, RssHistoryTyped
  <2> QED  BY <1>1, <2>1, <2>3, <2>5, RssTypesKept DEF Feed!EntryFails, S
<1>10. CASE Feed!SaveState
  <2>1. rssRun' \in S  BY <1>1, <1>10 DEF Feed!SaveState, S, RssSteps
  <2>2. RssHistoryTyped'  BY <1>10 DEF Feed!SaveState, Feed!history, RssTypes, RssHistoryTyped
  <2> QED  BY <1>1, <1>10, <2>1, <2>2, RssTypesKept DEF Feed!SaveState, Feed!Saved, S
<1>11. CASE Feed!HandOver \/ Feed!Dies
  <2>1. RssHistoryTyped'
    BY <1>1, <1>11 DEF Feed!HandOver, Feed!Dies, RssTypes, RssHistoryTyped
  <2> QED  BY <1>1, <1>2, <1>11, <2>1, RssTypesKept DEF Feed!HandOver, Feed!Dies, S
<1>12. CASE UNCHANGED rssVars
  BY <1>12 DEF rssVars, RssTypes, RssFeedTyped, RssRunTyped, RssHistoryTyped, RssHashes, RssStates
<1> QED
  BY <1>4, <1>5, <1>6, <1>7, <1>8, <1>9, <1>10, <1>11, <1>12, Zenon DEF Feed!Next, RssActs

-----------------------------------------------------------------------------
(* What was handed over is remembered.                                     *)

\* The numbers that the arguments compare.
LEMMA RssNumbers ==
    ASSUME RssTypes
    PROVE  /\ rssFeed.edition \in Nat /\ rssFeed.edition > 0 /\ rssRun.edition \in Nat
           /\ rssStore.etag \in Nat /\ rssStore.etag <= rssFeed.edition
           /\ rssRun.state.etag \in Nat /\ rssRun.state.etag <= rssFeed.edition
           /\ \A e \in RssEntries :
                 /\ rssFeed.version[e] \in Nat /\ rssFeed.version[e] <= rssFeed.edition
                 /\ rssStore.hash[e] \in Nat /\ rssStore.hash[e] <= rssFeed.edition
                 /\ rssRun.state.hash[e] \in Nat /\ rssRun.state.hash[e] <= rssFeed.edition
                 /\ rssRun.body[e] \in Nat /\ rssRun.body[e] <= rssFeed.edition
           /\ \A v \in rssRun.out \cup rssDelivered \cup rssLost \cup rssFailed :
                 v[1] \in RssEntries /\ v[2] \in Nat /\ v[2] > 0 /\ v = <<v[1], v[2]>>
<1>1. rssFeed.edition \in Nat /\ rssFeed.edition > 0
  BY SourcesAssumption DEF RssTypes, RssFeedTyped
<1>2. /\ rssFeed.version \in RssHashes /\ rssStore \in RssStates /\ rssRun.state \in RssStates
      /\ rssRun.body \in RssHashes
      /\ rssRun.edition \in 0..rssFeed.edition
      /\ rssRun.out \cup rssDelivered \cup rssLost \cup rssFailed \subseteq Feed!Versions
  BY DEF RssTypes, RssFeedTyped, RssRunTyped, RssHistoryTyped
<1>3. \A h \in RssHashes : \A e \in RssEntries : h[e] \in Nat /\ h[e] <= rssFeed.edition
  BY <1>1 DEF RssHashes
<1>4. \A st \in RssStates : st.etag \in Nat /\ st.etag <= rssFeed.edition /\ st.hash \in RssHashes
  BY <1>1 DEF RssStates
<1>5. \A v \in Feed!Versions : v[1] \in RssEntries /\ v[2] \in Nat /\ v[2] > 0 /\ v = <<v[1], v[2]>>
  BY SourcesAssumption DEF Feed!Versions
<1> QED  BY <1>1, <1>2, <1>3, <1>4, <1>5

\* A step that leaves the feed alone and whose collection keeps its hashes.
LEMMA RssGrowsKept ==
    ASSUME RssGrows, rssFeed' = rssFeed,
           rssStore' \in {rssStore, rssRun.state},
           \/ rssRun'.body = rssRun.body /\ rssRun'.state.hash = rssRun.state.hash
           \/ rssRun'.body = Feed!Nothing /\ rssRun'.state.hash \in {Feed!Nothing, rssStore.hash},
           RssTypes
    PROVE  RssGrows'
<1>1. \A e \in RssEntries : Feed!Nothing[e] = 0  BY DEF Feed!Nothing
<1> QED  BY <1>1, RssNumbers DEF RssGrows

\* A publication: what is new in the feed is newer than all there was.
LEMMA RssPublishCore ==
    ASSUME RssCore, NEW e \in RssEntries, NEW listed \in BOOLEAN, Feed!Publish(e, listed), RssTypes'
    PROVE  RssCore'
<1>1. /\ rssFeed'.version = [rssFeed.version EXCEPT ![e] = IF listed THEN rssFeed.edition + 1 ELSE 0]
      /\ rssStore' = rssStore /\ rssRun' = rssRun /\ rssDelivered' = rssDelivered
  BY DEF Feed!Publish, Feed!history
<1>2. RssLeftAgrees' /\ RssAhead' /\ RssRemembers' /\ RssFresh'
  BY <1>1 DEF RssCore, RssLeftAgrees, RssAhead, RssRemembers, RssFresh
<1>3. RssGrows'
  <2> SUFFICES ASSUME NEW x \in RssEntries, rssFeed'.version[x] # 0
               PROVE  /\ rssStore.hash[x] <= rssFeed'.version[x]
                      /\ rssRun.state.hash[x] <= rssFeed'.version[x]
                      /\ rssRun.body[x] <= rssFeed'.version[x]
    BY <1>1 DEF RssCore, RssGrows
  <2>1. DOMAIN rssFeed.version = RssEntries  BY DEF RssCore, RssTypes, RssFeedTyped, RssHashes
  <2>2. rssFeed'.version[x] = rssFeed.version[x] \/ rssFeed'.version[x] = rssFeed.edition + 1
    BY <1>1, <2>1
  <2>3. CASE rssFeed'.version[x] = rssFeed.version[x]  BY <2>3 DEF RssCore, RssGrows
  <2>4. CASE rssFeed'.version[x] = rssFeed.edition + 1  BY <2>4, RssNumbers DEF RssCore
  <2> QED  BY <2>2, <2>3, <2>4
<1> QED  BY <1>2, <1>3 DEF RssCore

\* An entry is processed: a version that differs from the hash is newer than
\* it, so it was not handed over.
LEMMA RssProcessCore ==
    ASSUME RssCore, NEW e \in RssEntries, Feed!Process(e), RssTypes'
    PROVE  RssCore'
<1>1. /\ rssRun.step = "process" /\ e \in rssRun.left /\ rssRun'.step = "process"
      /\ rssRun'.left = rssRun.left \ {e}
      /\ rssRun'.state.hash = [rssRun.state.hash EXCEPT ![e] = rssRun.body[e]]
      /\ rssRun'.body = rssRun.body /\ rssStore' = rssStore /\ rssFeed' = rssFeed
      /\ rssDelivered' = rssDelivered
      /\ rssRun'.out = IF Feed!IsUnchanged(e) THEN rssRun.out
                       ELSE rssRun.out \cup {<<e, rssRun.body[e]>>}
  BY DEF Feed!Process, Feed!history, RssCore, RssTypes, RssRunTyped, RssStates
<1>2. DOMAIN rssRun.state.hash = RssEntries
  BY DEF RssCore, RssTypes, RssRunTyped, RssStates, RssHashes
<1>3. /\ rssRun'.state.hash[e] = rssRun.body[e]
      /\ \A x \in RssEntries \ {e} : rssRun'.state.hash[x] = rssRun.state.hash[x]
  BY <1>1, <1>2
<1>4. rssRun.body[e] # 0 /\ rssRun.state.hash[e] <= rssRun.body[e]
  BY <1>1 DEF RssCore, RssLeftAgrees, RssGrows
<1>5. \A x \in RssEntries : rssRun.state.hash[x] <= rssRun'.state.hash[x]
  BY <1>3, <1>4, RssNumbers DEF RssCore
<1>6. RssLeftAgrees'  BY <1>1 DEF RssCore, RssLeftAgrees
<1>7. RssAhead'
  <2>1. ASSUME NEW v \in rssRun.out PROVE v[2] <= rssRun'.state.hash[v[1]]
    <3>1. v[2] <= rssRun.state.hash[v[1]] /\ v[1] \in RssEntries
      BY RssNumbers DEF RssCore, RssAhead
    <3> QED  BY <3>1, <1>3, <1>4, <1>5, RssNumbers DEF RssCore
  <2>2. rssRun.body[e] <= rssRun'.state.hash[e]  BY <1>3, RssNumbers DEF RssCore
  <2> QED  BY <1>1, <2>1, <2>2 DEF RssAhead
<1>8. RssGrows'
  <2> SUFFICES ASSUME NEW x \in RssEntries
               PROVE  /\ rssFeed.version[x] # 0 => rssRun'.state.hash[x] <= rssFeed.version[x]
                      /\ rssRun.body[x] # 0     => rssRun'.state.hash[x] <= rssRun.body[x]
    BY <1>1 DEF RssCore, RssGrows
  <2> QED  BY <1>3, RssNumbers DEF RssCore, RssGrows
<1>9. RssRemembers'
  <2> SUFFICES ASSUME NEW v \in rssDelivered PROVE v[2] <= rssRun'.state.hash[v[1]]
    BY <1>1 DEF RssCore, RssRemembers
  <2>1. v[2] <= rssRun.state.hash[v[1]] /\ v[1] \in RssEntries
    BY <1>1, RssNumbers DEF RssCore, RssRemembers
  <2> QED  BY <2>1, <1>3, <1>4, <1>5, RssNumbers DEF RssCore
<1>10. RssFresh'
  <2>1. CASE Feed!IsUnchanged(e)  BY <2>1, <1>1 DEF RssCore, RssFresh
  <2>2. CASE ~Feed!IsUnchanged(e)
    <3>1. rssRun.state.hash[e] < rssRun.body[e]
      BY <2>2, <1>4, RssNumbers DEF Feed!IsUnchanged, RssCore
    <3>2. ASSUME <<e, rssRun.body[e]>> \in rssDelivered PROVE FALSE
      <4>1. rssRun.body[e] <= rssRun.state.hash[e]  BY <1>1, <3>2 DEF RssCore, RssRemembers
      <4> QED  BY <4>1, <3>1, RssNumbers DEF RssCore
    <3> QED  BY <2>2, <1>1, <3>2 DEF RssCore, RssFresh
  <2> QED  BY <2>1, <2>2
<1> QED  BY <1>6, <1>7, <1>8, <1>9, <1>10 DEF RssCore

\* Every step keeps the core of the invariant.
LEMMA RssCoreStep ==
    ASSUME RssCore, RssActs
    PROVE  RssCore'
<1>1. RssTypes'  BY RssTypesStep DEF RssCore
<1>2. /\ rssRun.state.hash \in RssHashes /\ rssRun.body \in RssHashes
      /\ rssFeed.version \in RssHashes
      /\ rssStore.hash \in RssHashes
  BY DEF RssCore, RssTypes, RssFeedTyped, RssRunTyped, RssStates
<1>3. CASE \E e \in RssEntries, listed \in BOOLEAN : Feed!Publish(e, listed)
  BY <1>1, <1>3, RssPublishCore
<1>4. CASE \E force \in BOOLEAN : Feed!Begin(force)
  <2>1. PICK force \in BOOLEAN : Feed!Begin(force)  BY <1>4
  <2>2. /\ rssRun'.step = "fetch" /\ rssRun'.state.hash = rssStore.hash
        /\ rssRun'.body = Feed!Nothing
        /\ rssRun'.left = {} /\ rssRun'.out = {}
        /\ rssFeed' = rssFeed /\ rssStore' = rssStore /\ rssDelivered' = rssDelivered
    BY <2>1 DEF Feed!Begin, Feed!Idle, Feed!history, RssCore, RssTypes, RssStates
  <2>3. RssGrows'  BY <2>2, RssGrowsKept DEF RssCore
  <2> QED
    BY <1>1, <2>2, <2>3 DEF RssCore, RssLeftAgrees, RssAhead, RssRemembers, RssFresh
<1>5. CASE Feed!RequestFails \/ Feed!NotModified
  <2>1. /\ rssRun.step = "fetch" /\ rssRun'.step = "save" /\ rssRun'.state = rssRun.state
        /\ rssRun'.body = rssRun.body
        /\ rssRun'.left = rssRun.left /\ rssRun'.out = rssRun.out
        /\ rssFeed' = rssFeed /\ rssStore' = rssStore /\ rssDelivered' = rssDelivered
    BY <1>5 DEF Feed!RequestFails, Feed!NotModified, Feed!history, RssCore, RssTypes, RssRunTyped
  <2>2. RssGrows'  BY <2>1, RssGrowsKept DEF RssCore
  <2> QED  BY <1>1, <2>1, <2>2 DEF RssCore, RssLeftAgrees, RssAhead, RssRemembers, RssFresh
<1>6. CASE Feed!Fetched \/ Feed!InvalidFeed
  <2>1. /\ rssRun.step = "fetch" /\ rssRun'.step \in {"process", "save"}
        /\ rssRun'.state.hash = rssRun.state.hash /\ rssRun'.body = rssFeed.version
        /\ rssRun'.step = "process" => rssRun'.left = Feed!Listed
        /\ rssRun'.step = "save" => rssRun'.left = {}
        /\ rssRun'.out = rssRun.out
        /\ rssFeed' = rssFeed /\ rssStore' = rssStore /\ rssDelivered' = rssDelivered
    <3>1. PICK step \in RssSteps, entries \in SUBSET RssEntries :
            /\ Feed!Answered(step, entries)
            /\ step \in {"process", "save"}
            /\ step = "process" => entries = Feed!Listed
            /\ step = "save" => entries = {}
      BY <1>6 DEF Feed!Fetched, Feed!InvalidFeed, Feed!Listed, RssSteps
    <3>2. rssRun' = [rssRun EXCEPT !.step = step, !.state.etag = rssFeed.edition,
                   !.edition = rssFeed.edition, !.body = rssFeed.version, !.left = entries]
      BY <3>1 DEF Feed!Answered
    <3>3. rssRun'.state.hash = rssRun.state.hash
      BY <3>2 DEF RssCore, RssTypes, RssRunTyped, RssStates
    <3> QED  BY <3>1, <3>2, <3>3 DEF Feed!Answered, RssCore, RssTypes, RssRunTyped
  <2>2. RssLeftAgrees'  BY <2>1 DEF RssLeftAgrees, Feed!Listed
  <2>3. RssGrows'
    <3> SUFFICES ASSUME NEW e \in RssEntries
                 PROVE  rssFeed.version[e] # 0 => rssRun.state.hash[e] <= rssFeed.version[e]
                                               /\ rssFeed.version[e] <= rssFeed.version[e]
      BY <2>1 DEF RssCore, RssGrows
    <3> QED  BY RssNumbers DEF RssCore, RssGrows
  <2> QED  BY <1>1, <2>1, <2>2, <2>3 DEF RssCore, RssAhead, RssRemembers, RssFresh
<1>7. CASE \E e \in RssEntries : Feed!Process(e)
  BY <1>1, <1>7, RssProcessCore
<1>8. CASE \E e \in RssEntries : Feed!EntryFails(e)
  <2>1. /\ rssRun'.step = rssRun.step /\ rssRun'.state = rssRun.state
        /\ rssRun'.body = rssRun.body
        /\ rssRun'.left \subseteq rssRun.left /\ rssRun'.out = rssRun.out
        /\ rssFeed' = rssFeed /\ rssStore' = rssStore /\ rssDelivered' = rssDelivered
        /\ rssRun.step = "process"
    BY <1>8 DEF Feed!EntryFails, RssCore, RssTypes, RssRunTyped
  <2>2. RssGrows'  BY <2>1, RssGrowsKept DEF RssCore
  <2> QED  BY <1>1, <2>1, <2>2 DEF RssCore, RssLeftAgrees, RssAhead, RssRemembers, RssFresh
<1>9. CASE Feed!SaveState
  <2>1. /\ rssRun.step # "idle" /\ rssRun.left = {}
        /\ rssRun'.step = "files" /\ rssRun'.state = rssRun.state /\ rssRun'.body = rssRun.body
        /\ rssRun'.left = rssRun.left /\ rssRun'.out = rssRun.out
        /\ rssFeed' = rssFeed /\ rssStore' = rssRun.state /\ rssDelivered' = rssDelivered
    BY <1>9
       DEF Feed!SaveState, Feed!Saved, Feed!history, RssCore, RssTypes, RssRunTyped, RssLeftAgrees
  <2>2. RssGrows'  BY <2>1, RssGrowsKept DEF RssCore
  <2> QED  BY <1>1, <2>1, <2>2 DEF RssCore, RssLeftAgrees, RssAhead, RssRemembers, RssFresh
<1>10. CASE Feed!HandOver \/ Feed!Dies
  <2>1. /\ rssRun'.step = "idle" /\ rssRun'.state.hash = Feed!Nothing
        /\ rssRun'.body = Feed!Nothing
        /\ rssRun'.left = {} /\ rssRun'.out = {}
        /\ rssFeed' = rssFeed /\ rssStore' = rssStore
        /\ \/ rssDelivered' = rssDelivered
           \/ rssRun.step = "files" /\ rssDelivered' = rssDelivered \cup rssRun.out
    BY <1>10 DEF Feed!HandOver, Feed!Dies, Feed!Idle, Feed!Empty
  <2>2. RssGrows'  BY <2>1, RssGrowsKept DEF RssCore
  <2>3. RssRemembers'  BY <2>1 DEF RssCore, RssRemembers, RssAhead
  <2> QED  BY <1>1, <2>1, <2>2, <2>3 DEF RssCore, RssLeftAgrees, RssAhead, RssFresh
<1>11. CASE UNCHANGED rssVars
  BY <1>1, <1>11 DEF rssVars, RssCore, RssLeftAgrees, RssAhead, RssGrows, RssRemembers, RssFresh
<1> QED
  BY <1>3, <1>4, <1>5, <1>6, <1>7, <1>8, <1>9, <1>10, <1>11, Zenon DEF Feed!Next, RssActs

-----------------------------------------------------------------------------
(* What has been dealt with.                                               *)

\* What was dealt with stays so, and what was pending is dealt with or pending.
LEMMA RssDealtGrows ==
    ASSUME RssCore, Feed!Next
    PROVE  /\ RssDealt \subseteq RssDealt'
           /\ RssDealt \cup RssPending \subseteq (RssDealt \cup RssPending)'
<1>1. CASE \E e \in RssEntries, listed \in BOOLEAN : Feed!Publish(e, listed)
  BY <1>1 DEF Feed!Publish, Feed!history, RssDealt, RssPending
<1>2. CASE \E force \in BOOLEAN : Feed!Begin(force)
  BY <1>2 DEF Feed!Begin, Feed!history, RssDealt, RssPending
<1>3. CASE Feed!RequestFails \/ Feed!NotModified
  BY <1>3 DEF Feed!RequestFails, Feed!NotModified, Feed!history, RssDealt, RssPending
<1>4. CASE Feed!Fetched \/ Feed!InvalidFeed
  BY <1>4 DEF Feed!Fetched, Feed!InvalidFeed, Feed!Answered, RssDealt, RssPending
<1>5. CASE \E e \in RssEntries : Feed!Process(e) \/ Feed!EntryFails(e)
  BY <1>5 DEF Feed!Process, Feed!EntryFails, Feed!history, RssDealt, RssPending
<1>6. CASE Feed!SaveState
  BY <1>6 DEF Feed!SaveState, Feed!history, RssDealt, RssPending
<1>7. CASE Feed!HandOver \/ Feed!Dies
  BY <1>7 DEF Feed!HandOver, Feed!Dies, RssDealt, RssPending
<1> QED  BY <1>1, <1>2, <1>3, <1>4, <1>5, <1>6, <1>7, Zenon DEF Feed!Next, RssActs

\* A publication makes an edition that is not in the file, nor in the state of
\* any collection.
LEMMA RssPublishCovers ==
    ASSUME RssInv, NEW e \in RssEntries, NEW listed \in BOOLEAN, Feed!Publish(e, listed)
    PROVE  (RssRecorded /\ RssFileCovers /\ RssRunCovers)'
<1>1. /\ rssFeed'.edition = rssFeed.edition + 1 /\ rssStore' = rssStore /\ rssRun' = rssRun
      /\ RssDealt' = RssDealt /\ RssPending' = RssPending
  BY DEF Feed!Publish, Feed!history, RssDealt, RssPending
<1>2. rssStore.etag # rssFeed'.edition /\ rssRun.state.etag # rssFeed'.edition
  BY <1>1, RssNumbers DEF RssInv, RssCore
<1> QED  BY <1>1, <1>2 DEF RssInv, RssRecorded, RssFileCovers, RssRunCovers

\* An entry is processed: its version was recorded before, or has its record now.
LEMMA RssProcessCovers ==
    ASSUME RssInv, NEW e \in RssEntries, Feed!Process(e)
    PROVE  (RssRecorded /\ RssFileCovers /\ RssRunCovers)'
<1>1. /\ rssRun.step = "process" /\ e \in rssRun.left /\ rssRun'.step = "process"
      /\ rssRun'.left = rssRun.left \ {e}
      /\ rssRun'.state.hash = [rssRun.state.hash EXCEPT ![e] = rssRun.body[e]]
      /\ rssRun'.state.etag = rssRun.state.etag
      /\ rssRun'.body = rssRun.body /\ rssStore' = rssStore /\ rssFeed' = rssFeed
      /\ rssSpoiled' = rssSpoiled
      /\ rssRun'.out = IF Feed!IsUnchanged(e) THEN rssRun.out
                       ELSE rssRun.out \cup {<<e, rssRun.body[e]>>}
      /\ RssDealt' = RssDealt /\ RssPending = {} /\ RssPending' = {}
  BY
     DEF Feed!Process, Feed!history, RssInv, RssCore, RssTypes, RssRunTyped, RssStates, RssDealt,
         RssPending
<1>2. DOMAIN rssRun.state.hash = RssEntries
  BY DEF RssInv, RssCore, RssTypes, RssRunTyped, RssStates, RssHashes
<1>3. /\ rssRun'.state.hash[e] = rssRun.body[e]
      /\ \A x \in RssEntries \ {e} : rssRun'.state.hash[x] = rssRun.state.hash[x]
  BY <1>1, <1>2
<1>4. rssRun.out \subseteq rssRun'.out  BY <1>1
<1>5. <<e, rssRun.body[e]>> \in RssDealt \cup rssRun'.out
  <2>1. rssRun.body[e] # 0  BY <1>1 DEF RssInv, RssCore, RssLeftAgrees
  <2>2. CASE Feed!IsUnchanged(e)  BY <2>1, <2>2, <1>1 DEF Feed!IsUnchanged, RssInv, RssRecorded
  <2>3. CASE ~Feed!IsUnchanged(e)  BY <2>3, <1>1
  <2> QED  BY <2>2, <2>3
<1>6. RssRecorded'
  <2> SUFFICES ASSUME NEW x \in RssEntries, rssRun'.state.hash[x] # 0
               PROVE  <<x, rssRun'.state.hash[x]>> \in RssDealt \cup rssRun'.out
    BY <1>1 DEF RssInv, RssRecorded
  <2> QED  BY <1>1, <1>3, <1>4, <1>5 DEF RssInv, RssRecorded
<1>7. RssFileCovers'  BY <1>1 DEF RssInv, RssFileCovers, Feed!Listed
<1>8. RssRunCovers'
  <2> SUFFICES ASSUME rssRun.state.etag = rssFeed.edition, rssRun.state.etag \notin rssSpoiled,
                      NEW x \in Feed!Listed
               PROVE  \/ <<x, rssFeed.version[x]>> \in RssDealt \cup rssRun'.out
                      \/ x \in rssRun'.left /\ rssRun.body[x] = rssFeed.version[x]
    BY <1>1 DEF RssRunCovers, Feed!Listed
  <2>1. \/ <<x, rssFeed.version[x]>> \in RssDealt \cup rssRun.out
        \/ x \in rssRun.left /\ rssRun.body[x] = rssFeed.version[x]
    BY <1>1 DEF RssInv, RssRunCovers
  <2> QED  BY <1>1, <1>4, <1>5, <2>1
<1> QED  BY <1>6, <1>7, <1>8

\* Every step keeps the invariant.
LEMMA RssStep ==
    ASSUME RssInv, RssActs
    PROVE  RssInv'
<1>1. RssCore'  BY RssCoreStep DEF RssInv
<1>2. CASE \E e \in RssEntries, listed \in BOOLEAN : Feed!Publish(e, listed)
  BY <1>1, <1>2, RssPublishCovers DEF RssInv
<1>3. CASE \E force \in BOOLEAN : Feed!Begin(force)
  <2>1. PICK force \in BOOLEAN : Feed!Begin(force)  BY <1>3
  <2>2. /\ rssRun.step = "idle" /\ rssRun'.step = "fetch" /\ rssRun'.state.hash = rssStore.hash
        /\ rssRun'.state.etag \in {0, rssStore.etag}
        /\ rssFeed' = rssFeed /\ rssStore' = rssStore /\ rssSpoiled' = rssSpoiled
        /\ RssDealt' = RssDealt /\ RssPending = {} /\ RssPending' = {}
    BY <2>1
       DEF Feed!Begin, Feed!Idle, Feed!history, RssInv, RssCore, RssTypes, RssStates, RssDealt,
           RssPending
  <2>3. rssFeed.edition # 0  BY RssNumbers DEF RssInv, RssCore
  <2>4. RssRecorded'  BY <2>2 DEF RssInv, RssRecorded
  <2>5. RssFileCovers'  BY <2>2 DEF RssInv, RssFileCovers, Feed!Listed
  <2>6. RssRunCovers'  BY <2>2, <2>3 DEF RssInv, RssFileCovers, RssRunCovers, Feed!Listed
  <2> QED  BY <1>1, <2>4, <2>5, <2>6 DEF RssInv
<1>4. CASE Feed!RequestFails \/ Feed!NotModified
  <2>1. /\ rssRun.step = "fetch" /\ rssRun'.step = "save" /\ rssRun'.state = rssRun.state
        /\ rssRun'.body = rssRun.body
        /\ rssRun'.left = rssRun.left /\ rssRun'.out = rssRun.out
        /\ rssFeed' = rssFeed /\ rssStore' = rssStore /\ rssSpoiled' = rssSpoiled
        /\ RssDealt' = RssDealt /\ RssPending = {} /\ RssPending' = {}
    BY <1>4
       DEF Feed!RequestFails, Feed!NotModified, Feed!history, RssInv, RssCore, RssTypes,
           RssRunTyped, RssDealt, RssPending
  <2> QED  BY <1>1, <2>1 DEF RssInv, RssRecorded, RssFileCovers, RssRunCovers, Feed!Listed
<1>5. CASE Feed!Fetched \/ Feed!InvalidFeed
  <2>1. PICK step \in {"process", "save"}, entries \in SUBSET RssEntries :
            /\ Feed!Answered(step, entries)
            /\ step = "process" => entries = Feed!Listed
            /\ step = "save" => rssSpoiled' = rssSpoiled \cup {rssFeed.edition}
            /\ rssSpoiled \subseteq rssSpoiled'
    BY <1>5 DEF Feed!Fetched, Feed!InvalidFeed, Feed!Listed
  <2>2. rssRun' = [rssRun EXCEPT !.step = step, !.state.etag = rssFeed.edition,
                 !.edition = rssFeed.edition, !.body = rssFeed.version, !.left = entries]
    BY <2>1 DEF Feed!Answered
  <2>3. /\ rssRun.step = "fetch" /\ rssRun'.step = step
        /\ rssRun'.state.hash = rssRun.state.hash /\ rssRun'.state.etag = rssFeed.edition
        /\ rssRun'.body = rssFeed.version /\ rssRun'.left = entries /\ rssRun'.out = rssRun.out
    BY <2>1, <2>2 DEF Feed!Answered, RssInv, RssCore, RssTypes, RssRunTyped, RssStates
  <2>4. /\ rssFeed' = rssFeed /\ rssStore' = rssStore /\ RssDealt' = RssDealt /\ RssPending = {}
        /\ RssPending' = {}
    BY <2>1, <2>3 DEF Feed!Answered, RssDealt, RssPending
  <2>5. RssRecorded'  BY <2>3, <2>4 DEF RssInv, RssRecorded
  <2>6. RssFileCovers'  BY <2>1, <2>4 DEF RssInv, RssFileCovers, Feed!Listed
  <2>7. RssRunCovers'  BY <2>1, <2>3, <2>4 DEF RssRunCovers, Feed!Listed
  <2> QED  BY <1>1, <2>5, <2>6, <2>7 DEF RssInv
<1>6. CASE \E e \in RssEntries : Feed!Process(e)
  BY <1>1, <1>6, RssProcessCovers DEF RssInv
<1>7. CASE \E e \in RssEntries : Feed!EntryFails(e)
  <2>1. PICK e \in RssEntries : Feed!EntryFails(e)  BY <1>7
  <2>2. /\ rssRun.step = "process" /\ rssRun'.step = "process" /\ rssRun'.state = rssRun.state
        /\ rssRun'.body = rssRun.body /\ rssRun'.left = rssRun.left \ {e}
        /\ rssRun'.out = rssRun.out
        /\ rssFeed' = rssFeed /\ rssStore' = rssStore /\ rssSpoiled' = rssSpoiled
        /\ RssDealt' = RssDealt \cup {<<e, rssRun.body[e]>>} /\ RssPending = {}
        /\ RssPending' = {}
    BY <2>1 DEF Feed!EntryFails, RssInv, RssCore, RssTypes, RssRunTyped, RssDealt, RssPending
  <2>3. RssRecorded'  BY <2>2 DEF RssInv, RssRecorded
  <2>4. RssFileCovers'  BY <2>2 DEF RssInv, RssFileCovers, Feed!Listed
  <2>5. RssRunCovers'  BY <2>2 DEF RssInv, RssRunCovers, Feed!Listed
  <2> QED  BY <1>1, <2>3, <2>4, <2>5 DEF RssInv
<1>8. CASE Feed!SaveState
  <2>1. /\ rssRun.step # "idle" /\ rssRun.left = {}
        /\ rssRun'.step = "files" /\ rssRun'.state = rssRun.state /\ rssRun'.left = rssRun.left
        /\ rssRun'.out = rssRun.out
        /\ rssFeed' = rssFeed /\ rssStore' = rssRun.state /\ rssSpoiled' = rssSpoiled
        /\ RssDealt' = RssDealt /\ RssPending' = rssRun.out
    BY <1>8
       DEF Feed!SaveState, Feed!Saved, Feed!history, RssInv, RssCore, RssTypes, RssRunTyped,
           RssLeftAgrees, RssDealt, RssPending
  <2>2. RssRecorded'  BY <2>1 DEF RssInv, RssRecorded
  <2>3. RssFileCovers'  BY <2>1 DEF RssInv, RssFileCovers, RssRunCovers, Feed!Listed
  <2>4. RssRunCovers'  BY <2>1 DEF RssInv, RssRunCovers, Feed!Listed
  <2> QED  BY <1>1, <2>2, <2>3, <2>4 DEF RssInv
<1>9. CASE Feed!HandOver \/ Feed!Dies
  <2>1. RssDealt \cup RssPending \subseteq (RssDealt \cup RssPending)'
    BY <1>9, RssDealtGrows DEF RssInv, Feed!Next
  <2>2. /\ rssRun'.step = "idle" /\ rssRun'.state.hash = Feed!Nothing
        /\ rssFeed' = rssFeed /\ rssStore' = rssStore /\ rssSpoiled' = rssSpoiled
    BY <1>9 DEF Feed!HandOver, Feed!Dies, Feed!Idle, Feed!Empty
  <2>3. RssRecorded'  BY <2>1, <2>2 DEF RssInv, RssRecorded
  <2>4. RssFileCovers'  BY <2>1, <2>2 DEF RssInv, RssFileCovers, Feed!Listed
  <2>5. RssRunCovers'  BY <2>2 DEF RssRunCovers
  <2> QED  BY <1>1, <2>3, <2>4, <2>5 DEF RssInv
<1>10. CASE UNCHANGED rssVars
  BY <1>1, <1>10
     DEF rssVars, RssInv, RssRecorded, RssFileCovers, RssRunCovers, Feed!Listed, RssDealt,
         RssPending
<1> QED
  BY <1>2, <1>3, <1>4, <1>5, <1>6, <1>7, <1>8, <1>9, <1>10, Zenon DEF Feed!Next, RssActs

\* Nothing was handed over before the first collection.
LEMMA RssInit == Feed!Init => RssInv
<1> SUFFICES ASSUME Feed!Init PROVE RssInv
  OBVIOUS
<1>1. rssFeed.edition = 1 /\ rssFeed.version = Feed!Nothing /\ 1 \in 1..RssMaxEdition
  BY SourcesAssumption DEF Feed!Init
<1>2. \A e \in RssEntries : Feed!Nothing[e] = 0  BY DEF Feed!Nothing
<1>3. RssFeedTyped  BY <1>1 DEF RssFeedTyped, Feed!Nothing, RssHashes
<1>4. RssTypes
  BY <1>3, RssIdleTyped, SourcesAssumption DEF RssTypes, RssRunTyped, RssHistoryTyped, Feed!Init
<1>5. /\ rssRun.step = "idle" /\ rssRun.out = {} /\ rssRun.left = {} /\ rssRun.body = Feed!Nothing
      /\ rssRun.state.hash = Feed!Nothing /\ rssStore.hash = Feed!Nothing /\ rssDelivered = {}
  BY DEF Feed!Init, Feed!Idle, Feed!Empty
<1>6. RssLeftAgrees /\ RssAhead /\ RssRemembers /\ RssFresh
  BY <1>5 DEF RssLeftAgrees, RssAhead, RssRemembers, RssFresh
<1>7. RssGrows  BY <1>1, <1>2, <1>5 DEF RssGrows
<1>8. RssRecorded /\ RssRunCovers  BY <1>2, <1>5 DEF RssRecorded, RssRunCovers
<1>9. RssFileCovers  BY <1>1, <1>2 DEF RssFileCovers, Feed!Listed
<1> QED  BY <1>4, <1>6, <1>7, <1>8, <1>9 DEF RssInv, RssCore

\* The invariant has the types.
LEMMA RssTyped == RssInv /\ faults \in 0..MaxFaults => Feed!TypeOK
<1> SUFFICES ASSUME RssInv, faults \in 0..MaxFaults PROVE Feed!TypeOK
  OBVIOUS
<1>1. /\ rssRun.step \in {"idle", "fetch", "process", "save", "files"}
      /\ rssRun.left \subseteq RssEntries /\ rssRun.out \subseteq Feed!Versions
  BY DEF RssInv, RssCore, RssTypes, RssRunTyped, RssSteps
<1> QED
  BY <1>1
     DEF Feed!TypeOK, RssInv, RssCore, RssTypes, RssFeedTyped, RssHistoryTyped, RssStates,
         RssHashes

\* The feed answers "not modified" for nothing that was passed over: each entry
\* of the edition in the state file was handed over, or is one of the losses
\* that the code has by design.
LEMMA RssPasses == RssInv => Feed!NothingIsPassedOver
BY DEF RssInv, RssFileCovers, Feed!NothingIsPassedOver, RssDealt, RssPending

-----------------------------------------------------------------------------
(* The collector.                                                          *)

\* The bound on what fails.
FaultsBounded == faults \in 0..MaxFaults

\* A service that takes a step has no more faults than there may be.
LEMMA FaultsStep ==
    FaultsBounded /\ (Advisory!Next \/ Feed!Next \/ Social!Next \/ UNCHANGED faults)
        => FaultsBounded'
<1> SUFFICES ASSUME FaultsBounded,
                    Advisory!Next \/ Feed!Next \/ Social!Next \/ UNCHANGED faults
             PROVE  faults' = faults \/ (faults < MaxFaults /\ faults' = faults + 1)
  BY SourcesAssumption DEF FaultsBounded
<1>1. CASE Advisory!Next
  BY <1>1 DEF Advisory!Next, Advisory!Modify, Advisory!Begin, Advisory!ReadPage,
              Advisory!Finish, Advisory!Fail, Advisory!Fault
<1>2. CASE Feed!Next
  BY <1>2 DEF Feed!Next, Feed!Publish, Feed!Begin, Feed!RequestFails, Feed!NotModified,
              Feed!Fetched, Feed!Answered, Feed!InvalidFeed, Feed!Process, Feed!EntryFails,
              Feed!SaveState, Feed!HandOver, Feed!Dies, Feed!Fault
<1>3. CASE Social!Next
  BY <1>3 DEF Social!Next, Social!Appear, Social!Begin, Social!RequestFails, Social!Finish,
              Social!ReadPage, Social!Fault
<1> QED  BY <1>1, <1>2, <1>3

\* What the proofs keep of all services.
CollectorInv == IInv /\ NvdInv /\ SocialInv /\ RssInv /\ FaultsBounded

\* Each service starts in its own invariant.
LEMMA CollectorInit == ServicesInit => CollectorInv
<1>1. Advisory!Init /\ SourcesAssumption => FaultsBounded
  BY SourcesAssumption DEF Advisory!Init, FaultsBounded
<1> QED
  BY <1>1, InvariantInit, NvdInit, SocialInit, RssInit, SourcesAssumption
     DEF ServicesInit, CollectorInv

\* A step is of one service, and leaves alone what the others keep.
LEMMA ServicesApart ==
    [ServicesNext]_allVars =>
        /\ [Next]_vars
        /\ Advisory!Next \/ UNCHANGED nvdVars
        /\ Social!Next \/ UNCHANGED socialVars
        /\ Feed!Next \/ UNCHANGED rssVars
        /\ Advisory!Next \/ Feed!Next \/ Social!Next \/ UNCHANGED faults
BY DEF ServicesNext, allVars

\* Every step keeps the invariants of all services.
LEMMA CollectorStep == CollectorInv /\ [ServicesNext]_allVars => CollectorInv'
<1> SUFFICES ASSUME CollectorInv, [ServicesNext]_allVars PROVE CollectorInv'
  OBVIOUS
<1>1. IInv'  BY ServicesApart, InvariantStep DEF CollectorInv
<1>2. NvdInv'  BY ServicesApart, NvdStep DEF CollectorInv
<1>3. SocialInv'  BY ServicesApart, SocialStep DEF CollectorInv
<1>4. RssInv'  BY ServicesApart, RssStep DEF CollectorInv, RssActs
<1>5. FaultsBounded'  BY ServicesApart, FaultsStep DEF CollectorInv
<1> QED  BY <1>1, <1>2, <1>3, <1>4, <1>5 DEF CollectorInv

\* The invariants hold in every behaviour of the collector.
LEMMA CollectorAlways == ServicesSpec => []CollectorInv
BY CollectorInit, CollectorStep, PTL DEF ServicesSpec

\* Every variable of every service has its type.
THEOREM CollectorTyped == ServicesSpec => []Typed
<1>1. CollectorInv => Typed
  BY NvdPromises, SocialTyped, RssTyped DEF CollectorInv, FaultsBounded, IInv, Typed
<1> QED  BY <1>1, CollectorAlways, PTL

\* Whatever was collected, cut at a page or item limit, failed or stopped: what
\* the checkpoint of a database of either kind, the validators of a feed and the
\* last message of a channel have passed was dealt with, or is one of the losses
\* that are named: PassedOver, those of a feed and those of a walk.
THEOREM CollectorIsHonest == ServicesSpec => []CheckpointsAreHonest
<1>1. CollectorInv => CheckpointsAreHonest
  BY NvdPromises, RssPasses
     DEF CollectorInv, FaultsBounded, SocialInv, CheckpointsAreHonest
<1> QED  BY <1>1, CollectorAlways, PTL

\* No record of a feed is in the files of two collections, whatever was
\* published, failed or stopped between them: the state file is written before
\* the records leave, so that a collection after a crash may lose a record and
\* never repeats one.
THEOREM RecordsLeaveOnce == ServicesSpec => HandedOverOnce
<1>1. CollectorInv /\ [ServicesNext]_allVars =>
        [rssRun.step = "files" /\ rssRun'.step = "idle" =>
            rssRun.out \cap rssDelivered = {}]_Feed!vars
  BY DEF CollectorInv, RssInv, RssCore, RssFresh
<1> QED  BY <1>1, CollectorAlways, PTL DEF ServicesSpec, HandedOverOnce, Feed!HandedOverOnce

\* The window of a database on its own, of either kind: the checkpoint of
\* AdvisoryWindow covers what it has passed and did not pass over, and the index
\* of a continuation is within its window.
THEOREM WindowsAreHonest == Advisory!Spec => [](Advisory!TypeOK /\ Advisory!CheckpointCovers)
<1>1. Advisory!Init => NvdInv /\ FaultsBounded
  BY NvdInit, SourcesAssumption DEF Advisory!Init, FaultsBounded
<1>2. NvdInv /\ FaultsBounded /\ [Advisory!Next]_Advisory!vars => (NvdInv /\ FaultsBounded)'
  <2>1. UNCHANGED Advisory!vars => UNCHANGED nvdVars /\ UNCHANGED faults
    BY DEF Advisory!vars, nvdVars
  <2> QED  BY <2>1, NvdStep, FaultsStep
<1>3. NvdInv /\ FaultsBounded => Advisory!TypeOK /\ Advisory!CheckpointCovers
  BY NvdPromises DEF FaultsBounded
<1> QED  BY <1>1, <1>2, <1>3, PTL DEF Advisory!Spec

\* A channel or a search on its own: what is at or below the checkpoint of
\* SocialCheckpoint was produced, or is one of the losses the code has by design.
THEOREM WalksAreHonest == Social!Spec => [](Social!TypeOK /\ Social!CheckpointIsHonest)
<1>1. Social!Init => SocialInv /\ FaultsBounded
  BY SocialInit, SourcesAssumption DEF Social!Init, FaultsBounded
<1>2. SocialInv /\ FaultsBounded /\ [Social!Next]_Social!vars => (SocialInv /\ FaultsBounded)'
  <2>1. UNCHANGED Social!vars => UNCHANGED socialVars /\ UNCHANGED faults
    BY DEF Social!vars, socialVars
  <2> QED  BY <2>1, SocialStep, FaultsStep
<1>3. SocialInv /\ FaultsBounded => Social!TypeOK /\ Social!CheckpointIsHonest
  BY SocialTyped DEF FaultsBounded, SocialInv
<1> QED  BY <1>1, <1>2, <1>3, PTL DEF Social!Spec
=============================================================================
