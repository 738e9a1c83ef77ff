------------------------- MODULE MCEmissionPipeline -------------------------
(***************************************************************************)
(* Instances of EmissionPipeline for TLC.                                  *)
(***************************************************************************)
EXTENDS EmissionPipeline, TLC

CONSTANTS a1, r1, r2, api, worker

\* Every request may touch every activity: requests overlap freely.
AnyTarget == [r \in Request |-> Activity]

TwoProcesses == (r1 :> api) @@ (r2 :> worker)

\* A client may move an activity to any day.
AnyMove == [d \in Day |-> Day]
=============================================================================
