--------------------------- MODULE PersistThenAck ---------------------------
(***************************************************************************)
(* What the durable ingestion promises the Gateway, however often it is    *)
(* interrupted: the batches of an operation become durable one after the   *)
(* other, without a gap, and the operation is acknowledged only once none  *)
(* is left.                                                                *)
(***************************************************************************)
EXTENDS Naturals

CONSTANTS Ops, Batches

VARIABLES
    stored,     \* batches of each operation that are durable
    acked       \* operations the Gateway was told to forget

Init == stored = [o \in Ops |-> 0] /\ acked = {}

Persist(o) ==
    /\ stored[o] < Batches[o]
    /\ stored' = [stored EXCEPT ![o] = @ + 1]
    /\ UNCHANGED acked

Acknowledge(o) ==
    /\ stored[o] = Batches[o]
    /\ acked' = acked \cup {o}
    /\ UNCHANGED stored

Next == \E o \in Ops : Persist(o) \/ Acknowledge(o)

Spec == Init /\ [][Next]_<<stored, acked>>
=============================================================================
