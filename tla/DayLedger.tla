----------------------------- MODULE DayLedger ------------------------------
(***************************************************************************)
(* What the timeline promises about its daily summaries: the summary shown *)
(* for a day only ever changes to what the activities of that day say at   *)
(* that moment, and it always catches up with them.  How a summary is      *)
(* computed, and what else runs meanwhile, is not part of the promise.     *)
(***************************************************************************)
CONSTANTS Day,
    Content        \* what can contribute to a day

VARIABLES
    truth,         \* what the activities of each day add up to
    shown          \* the summary stored for each day

Empty == [d \in Day |-> {}]

Init == truth = Empty /\ shown = Empty

\* Activities are created, changed, decided, deleted.
Change ==
    /\ truth' \in [Day -> SUBSET Content]
    /\ UNCHANGED shown

Refresh(d) ==
    /\ shown' = [shown EXCEPT ![d] = truth[d]]
    /\ UNCHANGED truth

Next == Change \/ \E d \in Day : Refresh(d)

Spec == Init /\ [][Next]_<<truth, shown>>

CatchesUp == \A d \in Day : []<>(shown[d] = truth[d])
=============================================================================
