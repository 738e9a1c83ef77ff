----------------------------- MODULE MCTimeline -----------------------------
(***************************************************************************)
(* Instances of Timeline for TLC: a week of two days and another week.     *)
(***************************************************************************)
EXTENDS Timeline, TLC

CONSTANTS a1, a2, r1, api, mon, tue, nextMon

AnyTarget == [r \in Request |-> Activity]

OneProcess == [r \in Request |-> api]

Calendar == (mon :> 1) @@ (tue :> 1) @@ (nextMon :> 2)

DayInWeek == [d \in Day |-> Calendar[d]]

\* A client moves activities to other weeks (and months) only.
FarMove == [d \in Day |-> {e \in Day : e = d \/ Calendar[e] # Calendar[d]}]
=============================================================================
