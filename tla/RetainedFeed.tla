---------------------------- MODULE RetainedFeed ----------------------------
(***************************************************************************)
(* What the Gateway promises of a feed, whatever files it is kept in: a    *)
(* published value stays readable until it is replaced by a newer one of   *)
(* the same key or has been acknowledged, and only a value that is held    *)
(* can be acknowledged.                                                    *)
(***************************************************************************)
CONSTANTS Keys, Values, None

VARIABLES
    held,   \* what a reader can fetch
    acked   \* the <<key, value>> pairs acknowledged so far

feed == <<held, acked>>

Init ==
    /\ held = [k \in Keys |-> None]
    /\ acked = {}

\* Some keys take a published value, some acknowledged values are forgotten.
Publish ==
    /\ held' \in [Keys -> Values \cup {None}]
    /\ \A k \in Keys : held'[k] = None => held[k] = None \/ <<k, held[k]>> \in acked
    /\ acked' = acked

Acknowledge ==
    /\ \E keys \in SUBSET {k \in Keys : held[k] # None} :
          acked' = acked \cup {<<k, held[k]>> : k \in keys}
    /\ held' = held

Next == Publish \/ Acknowledge

Spec == Init /\ [][Next]_feed
=============================================================================
