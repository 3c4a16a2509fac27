------------------------- MODULE DatasetAllocation -------------------------
(***************************************************************************)
(* The second derived data set, training/dnrti_clean_v2.py: the sentences  *)
(* are dealt out anew, so that the splits have the sizes of the source's   *)
(* and each of them has every type of entity.                              *)
(*                                                                         *)
(* Abstraction.  A group is the occurrences of one token sequence, each in *)
(* a split with a labelling; of a labelling the model has its types.  An   *)
(* order by a hash is any order.                                           *)
(***************************************************************************)
EXTENDS Naturals, Sequences, FiniteSets, FiniteSetsExt, Functions

CONSTANTS
    Inputs,   \* parsed sources: [groups -> [found, length]]
    TypesIn,  \* the types of a labelling
    Invalid,  \* labellings with an invalid transition
    Types,    \* the types, in the order of their names
    Ratio,    \* SOURCE_RATIO
    None

VARIABLES
    input,
    assignment, \* the splits of the groups that have one
    reserved,   \* the groups that stand for a type: None before they are known
    result

vars == <<input, assignment, reserved, result>>

Splits == <<"train", "valid", "test">>
Names  == <<"test", "train", "valid">>

Place(x, order) == CHOOSE n \in DOMAIN order : order[n] = x

\* stable_hash: between equals, and of the members of a set, any may be first.
Least(S, Before(_, _)) == {x \in S : \A y \in S : ~Before(y, x)}

Init == input \in Inputs /\ assignment = <<>> /\ reserved = None /\ result = None

-----------------------------------------------------------------------------

Labellings(g) == {f[2] : f \in input[g].found}

\* canonical_groups: one labelling, and a valid one.
Groups == {g \in DOMAIN input : \E l \in Labellings(g) : Labellings(g) = {l} /\ l \notin Invalid}

\* entity_types.
TypesOf(g) == TypesIn[CHOOSE l \in Labellings(g) : TRUE]

With(t) == {g \in Groups : t \in TypesOf(g)}

Whole == SumFunction(Ratio)

\* target_counts: by the largest remainder.
TargetCounts(n) ==
    LET floor == [s \in DOMAIN Ratio |-> (n * Ratio[s]) \div Whole]
        rest  == [s \in DOMAIN Ratio |-> (n * Ratio[s]) % Whole]
        ahead(s) == {r \in DOMAIN Ratio :
                        rest[r] > rest[s] \/ (rest[r] = rest[s] /\ Place(r, Names) < Place(s, Names))}
    IN [s \in DOMAIN Ratio |->
            floor[s] + IF Cardinality(ahead(s)) < n - SumFunction(floor) THEN 1 ELSE 0]

Targets == TargetCounts(Cardinality(Groups))

In(s)      == {g \in DOMAIN assignment : assignment[g] = s}
Count(s)   == Cardinality(In(s))
Assign(g, s) == assignment' = [h \in DOMAIN assignment \cup {g} |-> IF h = g THEN s ELSE assignment[h]]

-----------------------------------------------------------------------------
(* allocate_groups. *)

IsRarer(t, u) ==
    \/ Cardinality(With(t)) < Cardinality(With(u))
    \/ Cardinality(With(t)) = Cardinality(With(u)) /\ Place(t, Types) < Place(u, Types)

IsCovered(t, s) == With(t) \cap In(s) # {}

\* What is still to be reserved: the rarest type first, and a split after
\* another.  A type of fewer than three groups has none.
Wanted ==
    LET open == {<<t, s>> \in Range(Types) \X DOMAIN Ratio :
                    Cardinality(With(t)) >= 3 /\ ~IsCovered(t, s)}
    IN Least(open, LAMBDA x, y : IsRarer(x[1], y[1])
                                 \/ (x[1] = y[1] /\ Place(x[2], Splits) < Place(y[2], Splits)))

Reserve ==
    /\ result = None /\ reserved = None
    /\ \E w \in Wanted :
          LET candidates == With(w[1]) \ DOMAIN assignment IN
          IF candidates = {} THEN result' = "cannot reserve" /\ UNCHANGED assignment
          ELSE (\E g \in candidates : Assign(g, w[2])) /\ UNCHANGED result
    /\ UNCHANGED <<input, reserved>>

Reserved ==
    /\ result = None /\ reserved = None /\ Wanted = {} /\ reserved' = DOMAIN assignment
    /\ UNCHANGED <<input, assignment, result>>

\* By the length, then by the types.
Stratum(g) == {h \in Groups \ reserved : TypesOf(h) = TypesOf(g) /\ input[h].length = input[g].length}

IsBefore(g, h) ==
    \/ input[g].length < input[h].length
    \/ /\ input[g].length = input[h].length
       /\ LET p == [t \in Range(Types) |-> t \in TypesOf(g)]
              q == [t \in Range(Types) |-> t \in TypesOf(h)]
          IN \E n \in DOMAIN Types :
                /\ \A m \in 1..(n - 1) : p[Types[m]] = q[Types[m]]
                /\ p[Types[n]] # q[Types[n]]
                /\ IF p[Types[n]] THEN \E m \in (n + 1)..Len(Types) : q[Types[m]]
                   ELSE \A m \in (n + 1)..Len(Types) : ~p[Types[m]]

OpenSplits ==
    LET open == {s \in DOMAIN Ratio : Count(s) < Targets[s]} IN IF open = {} THEN DOMAIN Ratio ELSE open

\* Differences may be negative: the greater of a - b and c - d.
Exceeds(a, b, c, d) == a + d > c + b

Chosen(g) ==
    LET local    == TargetCounts(Cardinality(Stratum(g)))
        given(s) == Cardinality(In(s) \cap Stratum(g))
        ahead(s, r) ==
            \/ Exceeds(local[s], given(s), local[r], given(r))
            \/ /\ ~Exceeds(local[r], given(r), local[s], given(s))
               /\ Exceeds(Targets[s], Count(s), Targets[r], Count(r))
    IN Least(OpenSplits, ahead)

Allocate ==
    /\ result = None /\ reserved # None
    /\ \E g \in Least(Groups \ DOMAIN assignment, IsBefore) : \E s \in Chosen(g) : Assign(g, s)
    /\ UNCHANGED <<input, reserved, result>>

Present == UNION {TypesOf(g) : g \in Groups}

\* The checks of allocate_groups, and validate.
Finish ==
    /\ result = None /\ reserved # None /\ DOMAIN assignment = Groups
    /\ result' = CASE \E s \in DOMAIN Ratio : Count(s) # Targets[s] -> "missed"
                   [] \E t \in Present, s \in DOMAIN Ratio : ~IsCovered(t, s) -> "coverage failed"
                   [] Present # Range(Types) -> "gates failed"
                   [] OTHER -> "done"
    /\ UNCHANGED <<input, assignment, reserved>>

Next == Reserve \/ Reserved \/ Allocate \/ Finish

Spec == Init /\ [][Next]_vars

-----------------------------------------------------------------------------
(* Properties. *)

TypeOK ==
    /\ input \in Inputs /\ DOMAIN assignment \subseteq Groups /\ Range(assignment) \subseteq DOMAIN Ratio
    /\ reserved = None \/ reserved \subseteq Groups
    /\ result \in {None, "cannot reserve", "missed", "coverage failed", "gates failed", "done"}

(***************************************************************************)
(* When it is done each sentence is in one split, the sizes are as near to *)
(* the ratio as they can be, and every type is in each of the splits.      *)
(***************************************************************************)
DoneIsWhole ==
    result = "done" =>
        /\ DOMAIN assignment = Groups
        /\ \A s \in DOMAIN Ratio :
               /\ Count(s) * Whole < Cardinality(Groups) * Ratio[s] + Whole
               /\ Cardinality(Groups) * Ratio[s] < Count(s) * Whole + Whole
               /\ \A t \in Range(Types) : \E g \in In(s) : t \in TypesOf(g)

(***************************************************************************)
(* It fails of necessity: the sizes are missed only when the reservations  *)
(* of a split are more than its size, a type cannot be reserved only when  *)
(* it has fewer groups than three for itself and for each rarer type, and  *)
(* the coverage fails only for a type of fewer than three groups.          *)
(***************************************************************************)
FailsForAReason ==
    /\ result = "missed" => \E s \in DOMAIN Ratio : Cardinality(In(s) \cap reserved) > Targets[s]
    /\ result = "cannot reserve" =>
           \E t \in Range(Types) :
               /\ Cardinality(With(t)) >= 3
               /\ Cardinality(With(t)) < 3 * Cardinality({u \in Range(Types) : ~IsRarer(t, u)})
    /\ result = "coverage failed" => \E t \in Present : Cardinality(With(t)) < 3

AllocationHolds == DoneIsWhole /\ FailsForAReason
=============================================================================
