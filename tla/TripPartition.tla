--------------------------- MODULE TripPartition ---------------------------
(***************************************************************************)
(* What deduplication promises: the stored inputs are divided into         *)
(* journeys.  An input joins one journey, once, however often it is        *)
(* delivered; no journey has two receipts; only a delete takes inputs      *)
(* away, and it takes the whole journey.                                   *)
(***************************************************************************)
CONSTANTS Input, Receipts

VARIABLE journeys

Init == journeys = {}

Open(i) ==
    /\ i \notin UNION journeys
    /\ journeys' = journeys \cup {{i}}

Join(i, j) ==
    /\ i \notin UNION journeys
    /\ i \notin Receipts \/ j \cap Receipts = {}
    /\ journeys' = (journeys \ {j}) \cup {j \cup {i}}

Drop(j) == journeys' = journeys \ {j}

Next ==
    \/ \E i \in Input : Open(i)
    \/ \E j \in journeys : Drop(j) \/ \E i \in Input : Join(i, j)

Spec == Init /\ [][Next]_journeys
=============================================================================
