------------------------- MODULE MCExternalIngestion -------------------------
(***************************************************************************)
(* ExternalIngestion with the processing batches of its operations: two    *)
(* for an interactive one, so that it can stop in the middle of its        *)
(* import, and three for a backlog one, so that two workers could delay    *)
(* an interactive operation by more batches than the two in flight.        *)
(***************************************************************************)
EXTENDS ExternalIngestion

SomeBatches == [o \in Ops |-> IF o \in Backlog THEN 3 ELSE 2]
=============================================================================
