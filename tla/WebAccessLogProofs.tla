------------------------- MODULE WebAccessLogProofs -------------------------
(***************************************************************************)
(* What WebAccessLog guarantees for every log, limit and set of pulls.     *)
(*                                                                         *)
(* Three arguments, each on its own inductive invariant.  Positions in the *)
(* file grow by at least a header, so that compaction never enlarges it    *)
(* (LogIsOrdered).  What is reserved is a whole number of reservations and *)
(* is covered by free space (ReservationsFit).  Whatever a pull starts     *)
(* from was committed (CursorsAreStored).                                  *)
(***************************************************************************)
EXTENDS WebAccessLog, TLAPS

StoredBelow(n) == \A k \in 0..(n - 1) : k \in stored

LogIsOrdered == IsLog(written)

ReservationsFit == reserved > 0 => Size + reserved <= MaxBytes

CursorsAreStored ==
    /\ StoredBelow(base) /\ StoredBelow(checkpoint)
    /\ \A p \in Pullers :
           /\ StoredBelow(from[p]) /\ from[p] <= upto[p]
           /\ pc[p] = "recorded" => StoredBelow(upto[p])

\* Appending keeps the earlier positions where they were.
LEMMA Appending ==
    ASSUME NEW positions, IsLog(positions), NEW size \in EventBytes,
           NEW longer, longer = Append(positions, At(positions, Len(positions)) + size)
    PROVE  /\ IsLog(longer) /\ Len(longer) = Len(positions) + 1
           /\ \A n \in 0..Len(positions) : At(longer, n) = At(positions, n)
           /\ At(longer, Len(longer)) = At(positions, Len(positions)) + size
<1>1. /\ size \in Nat /\ HeaderBytes \in Nat /\ HeaderBytes <= size
  BY ConstantsAssumption
<1>2. positions \in Seq(Nat) /\ Len(positions) \in Nat
  BY DEF IsLog
<1>3. At(positions, Len(positions)) \in Nat
  BY <1>2 DEF At
<1>4. longer \in Seq(Nat) /\ Len(longer) = Len(positions) + 1
  BY <1>1, <1>2, <1>3
<1>5. \A n \in 0..Len(positions) : At(longer, n) = At(positions, n)
  BY <1>1, <1>2, <1>3 DEF At
<1>6. At(longer, Len(longer)) = At(positions, Len(positions)) + size
  BY <1>1, <1>2, <1>3, <1>4 DEF At
<1>7. ASSUME NEW m \in 0..Len(longer), NEW n \in 0..Len(longer), m < n
      PROVE  At(longer, m) + HeaderBytes <= At(longer, n)
  <2>1. CASE n <= Len(positions)
    <3>1. m \in 0..Len(positions) /\ n \in 0..Len(positions)
      BY <2>1, <1>2, <1>4, <1>7
    <3>2. QED
      BY <3>1, <1>5, <1>7 DEF IsLog
  <2>2. CASE n = Len(longer)
    <3>1. m \in 0..Len(positions) /\ At(positions, m) \in Nat
      BY <2>2, <1>2, <1>4, <1>7 DEF At
    <3>2. m = Len(positions) \/ At(positions, m) + HeaderBytes <= At(positions, Len(positions))
      BY <3>1, <1>2 DEF IsLog
    <3>3. QED
      BY <3>1, <3>2, <2>2, <1>1, <1>3, <1>5, <1>6
  <2>3. QED
    BY <2>1, <2>2, <1>2, <1>4, <1>7
<1>8. QED
  BY <1>4, <1>5, <1>6, <1>7 DEF IsLog

\* Compaction never makes the file larger.
LEMMA Compacting ==
    ASSUME TypeOK, LogIsOrdered, NEW b \in base..End
    PROVE  At(written, End) - At(written, b) + (IF b > 0 THEN HeaderBytes ELSE 0) <= Size
<1>1. /\ base \in Nat /\ End \in Nat /\ HeaderBytes \in Nat /\ b \in 0..End
      /\ base \in 0..End
  BY ConstantsAssumption DEF TypeOK, End
<1>2. At(written, b) \in Nat /\ At(written, base) \in Nat /\ At(written, End) \in Nat
  BY <1>1 DEF TypeOK, At, End
<1>3. CASE b = base
  BY <1>1, <1>2, <1>3 DEF Size
<1>4. CASE base < b
  <2>1. At(written, base) + HeaderBytes <= At(written, b)
    BY <1>1, <1>4 DEF LogIsOrdered, IsLog, End
  <2>2. QED
    BY <2>1, <1>1, <1>2, <1>4 DEF Size
<1>5. QED
  BY <1>1, <1>3, <1>4

\* The types of the readings of the log that the steps use.
LEMMA SizesTyped ==
    ASSUME TypeOK
    PROVE  /\ End \in Nat
           /\ \A n \in 0..End : At(written, n) \in Nat
           /\ Size \in Int
<1>1. End \in Nat /\ base \in 0..End
  BY DEF TypeOK, End
<1>2. \A n \in 0..End : At(written, n) \in Nat
  BY DEF TypeOK, At, End
<1>3. At(written, End) \in Nat /\ At(written, base) \in Nat
  BY <1>1, <1>2
<1>4. QED
  BY <1>1, <1>2, <1>3, ConstantsAssumption DEF Size

-----------------------------------------------------------------------------

\* An event in the log is at an earlier position than the next one.
LEMMA Ordering == Spec => []LogIsOrdered
<1>1. Init => LogIsOrdered
  <2> SUFFICES ASSUME Init PROVE LogIsOrdered
    OBVIOUS
  <2>1. CASE written \in Legacy
    BY <2>1, ConstantsAssumption DEF LogIsOrdered
  <2>2. CASE written = <<>>
    BY <2>2 DEF LogIsOrdered, IsLog
  <2>3. QED
    BY <2>1, <2>2 DEF Init
<1>2. LogIsOrdered /\ [Next]_vars => LogIsOrdered'
  <2> SUFFICES ASSUME LogIsOrdered, [Next]_vars PROVE LogIsOrdered'
    OBVIOUS
  <2>1. ASSUME NEW size \in EventBytes, AppendEvent(size) PROVE LogIsOrdered'
    BY <2>1, Appending DEF AppendEvent, LogIsOrdered, End
  <2>2. ASSUME UNCHANGED written PROVE LogIsOrdered'
    BY <2>2 DEF LogIsOrdered
  <2>3. UNCHANGED written \/ \E size \in EventBytes : AppendEvent(size)
    BY DEF Next, Admit, LoseEvent, RestartGateway, PullerStep,
       Begin, FirstPage, NextPage, StopAtBytes, Reject, CommitRecords, CommitCheckpoint,
       Abort, gateway, vars
  <2>4. QED
    BY <2>1, <2>2, <2>3
<1>3. QED
  BY <1>1, <1>2, PTL DEF Spec

WholeReservations == \E n \in Nat : reserved = n * Reservation

\* A pull that asks for another page has one left.
PagesLeft == \A p \in Pullers : pc[p] = "paging" => pages[p] < MaxPages

TypedState == TypeOK /\ WholeReservations /\ PagesLeft

\* A whole number of reservations, one of them released or added.
LEMMA Reservations ==
    ASSUME NEW r \in Nat, \E n \in Nat : r = n * Reservation
    PROVE  /\ \E n \in Nat : r + Reservation = n * Reservation
           /\ r > 0 => /\ r >= Reservation
                       /\ r - Reservation \in Nat
                       /\ \E n \in Nat : r - Reservation = n * Reservation
<1>1. PICK n \in Nat : r = n * Reservation
  OBVIOUS
<1>2. Reservation \in Nat
  BY ConstantsAssumption
<1>3. (n + 1) * Reservation = r + Reservation
  BY <1>1, <1>2
<1>4. ASSUME r > 0
      PROVE  r >= Reservation /\ r - Reservation \in Nat
          /\ \E k \in Nat : r - Reservation = k * Reservation
  <2>1. n # 0
    BY <1>1, <1>2, <1>4
  <2>2. n - 1 \in Nat /\ (n - 1) * Reservation = r - Reservation
    BY <2>1, <1>1, <1>2
  <2>3. \A k \in Nat : k * Reservation \in Nat
    BY <1>2
  <2>4. QED
    BY <2>2, <2>3, <1>2
<1>5. QED
  BY <1>3, <1>4

\* Where a page ends, and what it weighs.
LEMMA PageTyped ==
    ASSUME TypeOK, LogIsOrdered, NEW start \in 0..End, NEW end \in start..End
    PROVE  end \in 0..End /\ PageSize(start, end) \in Nat
<1>1. end \in 0..End
  BY SizesTyped
<1>2. At(written, start) \in Nat /\ At(written, end) \in Nat
  BY <1>1, SizesTyped
<1>3. At(written, start) <= At(written, end)
  <2>1. CASE start = end
    BY <2>1, <1>2
  <2>2. CASE start < end
    <3>1. At(written, start) + HeaderBytes <= At(written, end)
      BY <1>1, <2>2 DEF LogIsOrdered, IsLog, End
    <3>2. QED
      BY <3>1, <1>2, ConstantsAssumption
  <2>3. QED
    BY <1>1, <2>1, <2>2, SizesTyped
<1>4. QED
  BY <1>1, <1>2, <1>3 DEF PageSize

\* The initial state has the types, ...
LEMMA InitTyped == Init => TypedState
<1> SUFFICES ASSUME Init PROVE TypedState
  OBVIOUS
<1>1. written \in Seq(Nat)
  <2>1. written \in Legacy \/ written = <<>>
    BY DEF Init
  <2>2. <<>> \in Seq(Nat)
    OBVIOUS
  <2>3. \A positions \in Legacy : positions \in Seq(Nat)
    BY ConstantsAssumption DEF IsLog
  <2>4. QED
    BY <2>1, <2>2, <2>3
<1>2. End \in Nat
  BY <1>1 DEF End
<1>3. 0 \in Nat /\ 0 = 0 * Reservation
  BY ConstantsAssumption
<1>4. QED
  BY <1>1, <1>2, <1>3, ConstantsAssumption DEF Init, TypedState, TypeOK, WholeReservations, PagesLeft

\* ... and each step keeps them.
LEMMA NextTyped == TypedState /\ LogIsOrdered /\ [Next]_vars => TypedState'
<1> SUFFICES ASSUME TypedState, LogIsOrdered, [Next]_vars PROVE TypedState'
  OBVIOUS
<1> USE DEF TypedState
<1>0. /\ End \in Nat /\ MaxPages \in Nat \ {0} /\ Reservation \in Nat
      /\ \A n \in 0..End : At(written, n) \in Nat
  BY SizesTyped, ConstantsAssumption
<1>1. CASE Admit
  <2> HIDE DEF TypedState
  <2>0. reserved' = reserved + Reservation /\ reserved \in Nat /\ WholeReservations
    BY <1>1 DEF Admit, TypeOK, TypedState
  <2>1. reserved' \in Nat /\ WholeReservations'
    BY <1>0, <2>0, Reservations DEF WholeReservations
  <2>2. UNCHANGED <<written, base, stored, checkpoint, pc, from, upto, bytes, pages>>
    BY <1>1 DEF Admit, central, pull
  <2>3. QED
    BY <2>1, <2>2 DEF TypedState, TypeOK, PagesLeft, End
<1>2. ASSUME NEW size \in EventBytes, AppendEvent(size) PROVE TypedState'
  <2>1. reserved' \in Nat /\ WholeReservations'
    BY <1>0, <1>2, Reservations DEF AppendEvent, TypeOK, WholeReservations
  <2>2. written' \in Seq(Nat) /\ End' = End + 1
    BY <1>2, Appending DEF AppendEvent, LogIsOrdered, IsLog, End
  <2>3. UNCHANGED <<base, stored, checkpoint, pc, from, upto, bytes, pages>>
    BY <1>2 DEF AppendEvent, central, pull
  <2>4. 0..End \subseteq 0..End' /\ 0..(End - 1) \subseteq 0..(End' - 1)
    BY <2>2, <1>0
  <2>5. QED
    BY <2>1, <2>2, <2>3, <2>4 DEF TypeOK, PagesLeft
<1>3. CASE LoseEvent
  <2>1. reserved' \in Nat /\ WholeReservations'
    BY <1>0, <1>3, Reservations DEF LoseEvent, TypeOK, WholeReservations
  <2>2. UNCHANGED <<written, base, stored, checkpoint, pc, from, upto, bytes, pages>>
    BY <1>3 DEF LoseEvent, central, pull
  <2>3. QED
    BY <2>1, <2>2 DEF TypeOK, PagesLeft, End
<1>4. CASE RestartGateway
  <2>1. 0 \in Nat /\ 0 = 0 * Reservation
    BY <1>0
  <2>2. UNCHANGED <<written, base, stored, checkpoint, pc, from, upto, bytes, pages>>
        /\ reserved' = 0
    BY <1>4 DEF RestartGateway, central, pull
  <2>3. QED
    BY <2>1, <2>2 DEF TypeOK, PagesLeft, WholeReservations, End
<1>5. ASSUME NEW p \in Pullers, PullerStep(p) PROVE TypedState'
  <2>0. /\ from[p] \in 0..End /\ upto[p] \in 0..End
        /\ bytes[p] \in Nat /\ pages[p] \in 0..MaxPages
        /\ base \in 0..End
    BY DEF TypeOK
  <2>1. UNCHANGED <<written, reserved>>
    BY <1>5 DEF PullerStep, Begin, FirstPage, NextPage, StopAtBytes, Reject, CommitRecords,
       CommitCheckpoint, Abort, gateway
  <2>2. /\ End' = End /\ WholeReservations'
        /\ written' \in Seq(Nat) /\ reserved' \in Nat
    BY <2>1 DEF End, WholeReservations, TypeOK
  <2>3. CASE Begin(p)
    <3>1. /\ UNCHANGED <<base, stored, checkpoint>>
          /\ pc' = [pc EXCEPT ![p] = "started"]
          /\ from' = [from EXCEPT ![p] = checkpoint]
          /\ upto' = [upto EXCEPT ![p] = checkpoint]
          /\ bytes' = [bytes EXCEPT ![p] = 0]
          /\ pages' = [pages EXCEPT ![p] = 0]
      BY <2>3 DEF Begin, gateway, central
    <3>2. /\ from' \in [Pullers -> 0..End] /\ upto' \in [Pullers -> 0..End]
          /\ bytes' \in [Pullers -> Nat]
      BY <3>1 DEF TypeOK
    <3>3. /\ pc' \in [Pullers -> {"idle", "started", "paging", "fetched", "recorded"}]
          /\ pages' \in [Pullers -> 0..MaxPages]
      BY <1>0, <3>1 DEF TypeOK
    <3>4. PagesLeft'
      BY <1>0, <3>1 DEF TypeOK, PagesLeft
    <3>5. QED
      BY <2>2, <3>1, <3>2, <3>3, <3>4 DEF TypeOK
  <2>4. CASE FirstPage(p)
    <3>1. PICK end \in from[p]..End :
             /\ upto' = [upto EXCEPT ![p] = end]
             /\ bytes' = [bytes EXCEPT ![p] = PageSize(from[p], end)]
             /\ pc' = [pc EXCEPT ![p] = AfterPage(end, 1)]
      BY <2>4 DEF FirstPage
    <3>2. end \in 0..End /\ PageSize(from[p], end) \in Nat
      BY <2>0, PageTyped
    <3>3. base' \in 0..End
      BY <2>0, <2>4 DEF FirstPage, Acknowledged
    <3>4. AfterPage(end, 1) \in {"paging", "fetched"} /\ (AfterPage(end, 1) = "paging" => 1 < MaxPages)
      BY DEF AfterPage
    <3>5. UNCHANGED <<stored, checkpoint, from>> /\ pages' = [pages EXCEPT ![p] = 1]
      BY <2>4 DEF FirstPage, central
    <3>6. pages' \in [Pullers -> 0..MaxPages] /\ PagesLeft'
      <4>1. 1 \in 0..MaxPages
        BY <1>0
      <4>2. pages' \in [Pullers -> 0..MaxPages]
        BY <3>5, <4>1 DEF TypeOK
      <4>3. ASSUME NEW q \in Pullers, pc'[q] = "paging" PROVE pages'[q] < MaxPages
        <5>1. CASE q = p
          BY <3>1, <3>4, <3>5, <4>3, <5>1 DEF TypeOK
        <5>2. CASE q # p
          BY <3>1, <3>5, <4>3, <5>2 DEF TypeOK, PagesLeft
        <5>3. QED
          BY <5>1, <5>2
      <4>4. QED
        BY <4>2, <4>3 DEF PagesLeft
    <3>7. /\ upto' \in [Pullers -> 0..End] /\ bytes' \in [Pullers -> Nat]
          /\ pc' \in [Pullers -> {"idle", "started", "paging", "fetched", "recorded"}]
      BY <3>1, <3>2, <3>4 DEF TypeOK
    <3>8. QED
      BY <2>2, <3>3, <3>5, <3>6, <3>7 DEF TypeOK
  <2>5. CASE NextPage(p)
    <3>1. PICK end \in upto[p]..End :
             /\ upto' = [upto EXCEPT ![p] = end]
             /\ bytes' = [bytes EXCEPT ![p] = bytes[p] + PageSize(upto[p], end)]
             /\ pc' = [pc EXCEPT ![p] = AfterPage(end, pages[p] + 1)]
      BY <2>5 DEF NextPage
    <3>2. end \in 0..End /\ PageSize(upto[p], end) \in Nat
      BY <2>0, PageTyped
    <3>3. pages[p] + 1 \in 0..MaxPages
      BY <1>0, <2>0, <2>5 DEF NextPage, PagesLeft
    <3>4. /\ AfterPage(end, pages[p] + 1) \in {"paging", "fetched"}
          /\ AfterPage(end, pages[p] + 1) = "paging" => pages[p] + 1 < MaxPages
      BY DEF AfterPage
    <3>5. UNCHANGED <<base, stored, checkpoint, from>> /\ pages' = [pages EXCEPT ![p] = pages[p] + 1]
      BY <2>5 DEF NextPage, central, gateway
    <3>6. bytes[p] + PageSize(upto[p], end) \in Nat
      BY <2>0, <3>2
    <3>7. QED
      BY <1>0, <2>2, <3>1, <3>2, <3>3, <3>4, <3>5, <3>6 DEF TypeOK, PagesLeft
  <2>6. CASE StopAtBytes(p)
    BY <2>2, <2>6 DEF StopAtBytes, gateway, central, TypeOK, PagesLeft
  <2>7. CASE Reject(p)
    <3>1. base' \in 0..End
      BY <2>0, <2>7 DEF Reject, Acknowledged
    <3>2. UNCHANGED <<stored, checkpoint, from, upto, bytes, pages>> /\ pc' = [pc EXCEPT ![p] = "idle"]
      BY <2>7 DEF Reject, central
    <3>3. QED
      BY <2>2, <3>1, <3>2 DEF TypeOK, PagesLeft
  <2>8. CASE CommitRecords(p)
    <3>1. from[p]..(upto[p] - 1) \subseteq 0..(End - 1)
      BY <2>0, <1>0
    <3>2. UNCHANGED <<base, checkpoint, from, upto, bytes, pages>>
          /\ pc' = [pc EXCEPT ![p] = "recorded"]
          /\ stored' = stored \cup from[p]..(upto[p] - 1)
      BY <2>8 DEF CommitRecords, gateway
    <3>3. QED
      BY <2>2, <3>1, <3>2 DEF TypeOK, PagesLeft
  <2>9. CASE CommitCheckpoint(p)
    BY <2>0, <2>2, <2>9 DEF CommitCheckpoint, gateway, TypeOK, PagesLeft
  <2>10. CASE Abort(p)
    BY <2>2, <2>10 DEF Abort, gateway, central, TypeOK, PagesLeft
  <2>11. QED
    BY <1>5, <2>3, <2>4, <2>5, <2>6, <2>7, <2>8, <2>9, <2>10 DEF PullerStep
<1>6. CASE UNCHANGED vars
  BY <1>6 DEF vars, TypeOK, PagesLeft, WholeReservations, End
<1>7. QED
  BY <1>1, <1>2, <1>3, <1>4, <1>5, <1>6 DEF Next

\* Both facts the other arguments start from hold of every reachable state.
LEMMA Typed == Spec => [](TypedState /\ LogIsOrdered)
BY InitTyped, NextTyped, Ordering, PTL DEF Spec

\* Every variable keeps the type the code gives it.
THEOREM Typing == Spec => []TypeOK
<1>1. TypedState => TypeOK
  BY DEF TypedState
<1>2. QED
  BY <1>1, Typed, PTL

-----------------------------------------------------------------------------

\* The Gateway never compacts an event away before the backend committed it,
\* for any number of interleaved pulls and any failures among them.
THEOREM Pruning == Spec => []PrunedWasStored
<1>1. Init => CursorsAreStored
  BY ConstantsAssumption DEF Init, CursorsAreStored, StoredBelow
<1>2. TypeOK /\ CursorsAreStored /\ [Next]_vars => CursorsAreStored'
  <2> SUFFICES ASSUME TypeOK, CursorsAreStored, [Next]_vars PROVE CursorsAreStored'
    OBVIOUS
  <2>1. CASE UNCHANGED <<base, stored, checkpoint, pc, from, upto>>
    BY <2>1 DEF CursorsAreStored, StoredBelow
  <2>2. ASSUME NEW p \in Pullers, PullerStep(p) PROVE CursorsAreStored'
    <3>a. /\ StoredBelow(base) /\ StoredBelow(checkpoint)
          /\ \A q \in Pullers : StoredBelow(from[q]) /\ from[q] <= upto[q]
          /\ \A q \in Pullers : pc[q] = "recorded" => StoredBelow(upto[q])
      BY DEF CursorsAreStored
    <3>b. /\ \A q \in Pullers : from[q] \in Nat /\ upto[q] \in Nat
          /\ base \in Nat /\ checkpoint \in Nat /\ End \in Nat
      BY SizesTyped DEF TypeOK
    <3>0. /\ StoredBelow(base) /\ StoredBelow(checkpoint)
          /\ \A q \in Pullers : StoredBelow(from[q]) /\ from[q] <= upto[q]
          /\ \A q \in Pullers : pc[q] = "recorded" => StoredBelow(upto[q])
          /\ \A q \in Pullers : from[q] \in Nat /\ upto[q] \in Nat
          /\ base \in Nat /\ checkpoint \in Nat /\ End \in Nat
      BY <3>a, <3>b
    <3> USE DEF TypeOK
    <3>1. CASE Begin(p)
      BY <3>0, <3>1 DEF Begin, gateway, central, CursorsAreStored, StoredBelow
    <3>2. CASE FirstPage(p)
      <4>1. PICK end \in from[p]..End :
               upto' = [upto EXCEPT ![p] = end] /\ pc' = [pc EXCEPT ![p] = AfterPage(end, 1)]
        BY <3>2 DEF FirstPage
      <4>2. base' = from[p] /\ UNCHANGED <<stored, checkpoint, from>>
        BY <3>2 DEF FirstPage, Acknowledged, central
      <4>3. QED
        BY <3>0, <4>1, <4>2 DEF CursorsAreStored, StoredBelow, AfterPage
    <3>3. CASE NextPage(p)
      <4>1. PICK end \in upto[p]..End :
               upto' = [upto EXCEPT ![p] = end] /\ pc' = [pc EXCEPT ![p] = AfterPage(end, pages[p] + 1)]
        BY <3>3 DEF NextPage
      <4>2. UNCHANGED <<base, stored, checkpoint, from>>
        BY <3>3 DEF NextPage, gateway, central
      <4>3. QED
        BY <3>0, <4>1, <4>2 DEF CursorsAreStored, StoredBelow, AfterPage
    <3>4. CASE StopAtBytes(p) \/ Abort(p)
      BY <3>0, <3>4 DEF StopAtBytes, Abort, gateway, central, CursorsAreStored, StoredBelow
    <3>5. CASE Reject(p)
      <4>1. base' = base \/ base' = from[p]
        BY <3>5 DEF Reject, Acknowledged
      <4>2. UNCHANGED <<stored, checkpoint, from, upto>> /\ pc' = [pc EXCEPT ![p] = "idle"]
        BY <3>5 DEF Reject, central
      <4>3. QED
        BY <3>0, <4>1, <4>2 DEF CursorsAreStored, StoredBelow
    <3>6. CASE CommitRecords(p)
      <4>1. /\ stored' = stored \cup from[p]..(upto[p] - 1)
            /\ pc' = [pc EXCEPT ![p] = "recorded"]
            /\ UNCHANGED <<base, checkpoint, from, upto>>
        BY <3>6 DEF CommitRecords, gateway
      <4>2. ASSUME NEW k \in 0..(upto[p] - 1) PROVE k \in stored'
        <5>1. /\ from[p] \in Nat /\ upto[p] \in Nat /\ k \in Nat /\ k < upto[p]
              /\ \A n \in 0..(from[p] - 1) : n \in stored
          BY <3>0 DEF StoredBelow
        <5>2. CASE k < from[p]
          BY <4>1, <5>1, <5>2
        <5>3. CASE from[p] <= k
          BY <4>1, <5>1, <5>3
        <5>4. QED
          BY <5>1, <5>2, <5>3
      <4>3. \A n \in Nat : StoredBelow(n) => \A k \in 0..(n - 1) : k \in stored'
        BY <4>1 DEF StoredBelow
      <4>4. StoredBelow(base)' /\ StoredBelow(checkpoint)'
        BY <3>0, <4>1, <4>3 DEF StoredBelow
      <4>5. ASSUME NEW q \in Pullers
            PROVE  /\ StoredBelow(from[q])' /\ from'[q] <= upto'[q]
                   /\ pc'[q] = "recorded" => StoredBelow(upto[q])'
        <5>1. from'[q] = from[q] /\ upto'[q] = upto[q] /\ (q = p \/ pc'[q] = pc[q])
          BY <4>1
        <5>2. StoredBelow(from[q])' /\ from'[q] <= upto'[q]
          BY <3>0, <4>3, <5>1 DEF StoredBelow
        <5>3. ASSUME pc'[q] = "recorded" PROVE StoredBelow(upto[q])'
          <6>1. CASE q = p
            BY <4>2, <5>1, <6>1 DEF StoredBelow
          <6>2. CASE q # p
            BY <3>0, <4>3, <5>1, <5>3, <6>2 DEF StoredBelow
          <6>3. QED
            BY <6>1, <6>2
        <5>4. QED
          BY <5>2, <5>3
      <4>6. QED
        BY <4>4, <4>5 DEF CursorsAreStored
    <3>7. CASE CommitCheckpoint(p)
      BY <3>0, <3>7 DEF CommitCheckpoint, gateway, CursorsAreStored, StoredBelow
    <3>8. QED
      BY <2>2, <3>1, <3>2, <3>3, <3>4, <3>5, <3>6, <3>7 DEF PullerStep
  <2>3. UNCHANGED <<base, stored, checkpoint, pc, from, upto>> \/ \E p \in Pullers : PullerStep(p)
    BY DEF Next, Admit, LoseEvent, RestartGateway, AppendEvent,
       central, pull, vars
  <2>4. QED
    BY <2>1, <2>2, <2>3
<1>3. CursorsAreStored => PrunedWasStored
  BY DEF CursorsAreStored, StoredBelow, PrunedWasStored
<1>4. QED
  BY <1>1, <1>2, <1>3, Typing, PTL DEF Spec

\* An admitted request finds room for its event, whatever was appended or
\* compacted since and however far above the capacity the log once was.
THEOREM Room == Spec => []RoomForAppend
<1>1. Init => ReservationsFit
  BY DEF Init, ReservationsFit
<1>2. TypedState /\ LogIsOrdered /\ ReservationsFit /\ [Next]_vars => ReservationsFit'
  <2> SUFFICES ASSUME TypedState, LogIsOrdered, ReservationsFit, [Next]_vars
               PROVE  ReservationsFit'
    OBVIOUS
  <2>0. /\ TypeOK /\ Size \in Int /\ End \in Nat /\ base \in 0..End /\ reserved \in Nat
        /\ Reservation \in Nat /\ MaxBytes \in Nat
        /\ reserved > 0 => reserved >= Reservation
    BY SizesTyped, Reservations, ConstantsAssumption DEF TypedState, WholeReservations, TypeOK
  <2>1. CASE Admit
    <3>1. Size' = Size /\ reserved' = reserved + Reservation
          /\ Size + reserved + Reservation <= MaxBytes
      BY <2>1 DEF Admit, HasRoom, Size, End
    <3>2. QED
      BY <3>1, <2>0 DEF ReservationsFit
  <2>2. ASSUME NEW size \in EventBytes, AppendEvent(size) PROVE ReservationsFit'
    <3>1. size \in Nat /\ size <= Reservation
      BY ConstantsAssumption
    <3>2. /\ written' = Append(written, At(written, End) + size)
          /\ base' = base /\ reserved > 0 /\ reserved' = reserved - Reservation
      BY <2>2 DEF AppendEvent
    <3>3. /\ Len(written') = End + 1
          /\ At(written', base) = At(written, base)
          /\ At(written', Len(written')) = At(written, End) + size
      BY <3>2, <2>0, Appending DEF LogIsOrdered, End
    <3>4. At(written, End) \in Nat /\ At(written, base) \in Nat
      BY <2>0, SizesTyped
    <3>5. Size' = Size + size
      BY <3>1, <3>2, <3>3, <3>4, <2>0, ConstantsAssumption DEF Size, End
    <3>6. QED
      BY <3>1, <3>2, <3>5, <2>0 DEF ReservationsFit
  <2>3. CASE LoseEvent
    <3>1. Size' = Size /\ reserved > 0 /\ reserved' = reserved - Reservation
      BY <2>3 DEF LoseEvent, Size, End
    <3>2. QED
      BY <3>1, <2>0 DEF ReservationsFit
  <2>4. CASE RestartGateway
    BY <2>4 DEF RestartGateway, ReservationsFit
  <2>5. ASSUME NEW p \in Pullers, base' = from[p], IsRetained(from[p]), UNCHANGED <<written, reserved>>
        PROVE  ReservationsFit'
    <3>1. base' \in base..End
      BY <2>5 DEF IsRetained
    <3>2. Size' <= Size /\ Size' \in Int
      <4>1. At(written, End) - At(written, base') + (IF base' > 0 THEN HeaderBytes ELSE 0) <= Size
        BY <3>1, <2>0, Compacting
      <4>2. Size' = At(written, End) - At(written, base') + (IF base' > 0 THEN HeaderBytes ELSE 0)
        BY <2>5 DEF Size, End
      <4>3. At(written, End) \in Nat /\ At(written, base') \in Nat
        BY <3>1, <2>0, SizesTyped
      <4>4. QED
        BY <4>1, <4>2, <4>3, <3>1, ConstantsAssumption
    <3>3. reserved' = reserved
      BY <2>5
    <3>4. ASSUME reserved > 0 PROVE Size' + reserved <= MaxBytes
      <4>1. Size + reserved <= MaxBytes
        BY <3>4 DEF ReservationsFit
      <4>2. Size \in Int /\ Size' \in Int /\ reserved \in Int /\ MaxBytes \in Int
        BY <3>2, <2>0
      <4>3. \A s, t \in Int : s <= t /\ t + reserved <= MaxBytes => s + reserved <= MaxBytes
        BY <4>2
      <4>4. QED
        BY <4>1, <4>2, <4>3, <3>2
    <3>5. QED
      BY <3>3, <3>4 DEF ReservationsFit
  <2>6. CASE UNCHANGED <<written, base, reserved>>
    BY <2>6 DEF ReservationsFit, Size, End
  <2>7. ASSUME NEW p \in Pullers, PullerStep(p)
        PROVE  UNCHANGED <<written, base, reserved>>
            \/ (base' = from[p] /\ IsRetained(from[p]) /\ UNCHANGED <<written, reserved>>)
    <3>1. CASE FirstPage(p)
      BY <3>1 DEF FirstPage, Acknowledged
    <3>2. CASE Reject(p)
      BY <3>2 DEF Reject, Acknowledged
    <3>3. CASE Begin(p) \/ NextPage(p) \/ StopAtBytes(p) \/ CommitRecords(p) \/ CommitCheckpoint(p) \/ Abort(p)
      BY <3>3 DEF Begin, NextPage, StopAtBytes, CommitRecords, CommitCheckpoint, Abort, gateway
    <3>4. QED
      BY <2>7, <3>1, <3>2, <3>3 DEF PullerStep
  <2>8. UNCHANGED vars => UNCHANGED <<written, base, reserved>>
    BY DEF vars
  <2>9. QED
    BY <2>1, <2>2, <2>3, <2>4, <2>5, <2>6, <2>7, <2>8 DEF Next
<1>3. TypedState /\ ReservationsFit => RoomForAppend
  <2> SUFFICES ASSUME TypedState, ReservationsFit, reserved > 0
               PROVE  Size + Reservation <= MaxBytes
    BY DEF RoomForAppend
  <2>1. reserved >= Reservation /\ Size \in Int /\ reserved \in Nat
        /\ Reservation \in Nat /\ MaxBytes \in Nat
    BY SizesTyped, Reservations, ConstantsAssumption DEF TypedState, WholeReservations, TypeOK
  <2>2. QED
    BY <2>1 DEF ReservationsFit
<1>4. QED
  BY <1>1, <1>2, <1>3, Typed, PTL DEF Spec

-----------------------------------------------------------------------------

\* A pull under way starts from the checkpoint that is still the stored one.
OwnsCheckpoint ==
    /\ base <= checkpoint
    /\ \A p \in Pullers : pc[p] # "idle" => from[p] = checkpoint /\ from[p] <= upto[p]

\* While pulls do not overlap, the next one can resume from the stored
\* checkpoint.  (The run web_log_stale_checkpoint shows what overlap does.)
THEOREM Resuming ==
    ASSUME \A p, q \in Pullers : p = q
    PROVE  Spec => []CheckpointIsRetained
<1>1. Init => OwnsCheckpoint
  BY DEF Init, OwnsCheckpoint
<1>2. TypeOK /\ OwnsCheckpoint /\ [Next]_vars => OwnsCheckpoint'
  <2> SUFFICES ASSUME TypeOK, OwnsCheckpoint, [Next]_vars PROVE OwnsCheckpoint'
    OBVIOUS
  <2>1. CASE UNCHANGED <<base, checkpoint, pc, from, upto>>
    BY <2>1 DEF OwnsCheckpoint
  <2>2. ASSUME NEW p \in Pullers, PullerStep(p) PROVE OwnsCheckpoint'
    <3>1. /\ base \in Nat /\ checkpoint \in Nat /\ base <= checkpoint
          /\ from[p] \in Nat /\ upto[p] \in Nat
          /\ pc[p] # "idle" => from[p] = checkpoint /\ from[p] <= upto[p]
      BY SizesTyped DEF TypeOK, OwnsCheckpoint
    <3>2. SUFFICES /\ base' <= checkpoint'
                   /\ pc'[p] # "idle" => from'[p] = checkpoint' /\ from'[p] <= upto'[p]
      BY DEF OwnsCheckpoint
    <3> USE DEF TypeOK
    <3>3. CASE Begin(p)
      BY <3>1, <3>3 DEF Begin, gateway, central
    <3>4. CASE FirstPage(p)
      <4>1. PICK end \in from[p]..End : upto' = [upto EXCEPT ![p] = end]
        BY <3>4 DEF FirstPage
      <4>2. /\ base' = from[p] /\ pc[p] = "started" /\ UNCHANGED <<checkpoint, from>>
        BY <3>4 DEF FirstPage, Acknowledged, central
      <4>3. QED
        BY <3>1, <4>1, <4>2, SizesTyped
    <3>5. CASE NextPage(p)
      <4>1. PICK end \in upto[p]..End : upto' = [upto EXCEPT ![p] = end]
        BY <3>5 DEF NextPage
      <4>2. pc[p] = "paging" /\ UNCHANGED <<base, checkpoint, from>>
        BY <3>5 DEF NextPage, gateway, central
      <4>3. QED
        BY <3>1, <4>1, <4>2, SizesTyped
    <3>6. CASE StopAtBytes(p) \/ CommitRecords(p) \/ Abort(p)
      BY <3>1, <3>6 DEF StopAtBytes, CommitRecords, Abort, gateway, central
    <3>7. CASE Reject(p)
      <4>1. /\ base' = base \/ (base' = from[p] /\ pc[p] = "started")
            /\ pc' = [pc EXCEPT ![p] = "idle"] /\ UNCHANGED checkpoint
        BY <3>7 DEF Reject, Acknowledged, central
      <4>2. QED
        BY <3>1, <4>1
    <3>8. CASE CommitCheckpoint(p)
      BY <3>1, <3>8 DEF CommitCheckpoint, gateway
    <3>9. QED
      BY <2>2, <3>3, <3>4, <3>5, <3>6, <3>7, <3>8 DEF PullerStep
  <2>3. UNCHANGED <<base, checkpoint, pc, from, upto>> \/ \E p \in Pullers : PullerStep(p)
    BY DEF Next, Admit, LoseEvent, RestartGateway, AppendEvent,
       central, pull, vars
  <2>4. QED
    BY <2>1, <2>2, <2>3
<1>3. TypeOK /\ OwnsCheckpoint => CheckpointIsRetained
  <2> SUFFICES ASSUME TypeOK, OwnsCheckpoint PROVE CheckpointIsRetained
    OBVIOUS
  <2>1. QED
    BY SizesTyped DEF TypeOK, OwnsCheckpoint, CheckpointIsRetained
<1>4. QED
  BY <1>1, <1>2, <1>3, Typing, PTL DEF Spec
=============================================================================
