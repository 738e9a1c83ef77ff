----------------------------- MODULE MCInsights -----------------------------
(* Small instances of Insights: the Sunday that ends a week, and the days   *)
(* after it.                                                               *)
EXTENDS Insights, TLC

TwoModes == [cab |-> 4, metro |-> 1]
AnyNames == Permutations(Activity) \cup Permutations(Event)
=============================================================================
