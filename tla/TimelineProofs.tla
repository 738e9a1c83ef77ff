--------------------------- MODULE TimelineProofs ---------------------------
(***************************************************************************)
(* Theorems about EmissionPipeline and the Timeline that is composed with  *)
(* it, for every set of activities, trips, days, requests and processes,   *)
(* every calendar and every bound on the faults.                           *)
(*                                                                         *)
(* First the pipeline: types, and what holds of rows and emissions under   *)
(* every interleaving.  Then the summaries, under the hypotheses that keep *)
(* the goroutines of one user from overtaking each other (Alone,           *)
(* RebuildsApart) and that leave out the one change of an activity that    *)
(* its handler skips without an event (PricedStaysPriced).                 *)
(***************************************************************************)
EXTENDS Timeline, TLAPS


-----------------------------------------------------------------------------
(* Typing *)

(* Each kind of job the handlers continue with is a job. *)
LEMMA JobTypes ==
    /\ Idle \in Job
    /\ \A a \in Activity, t \in Trip, d \in Day : Ingested(a, t, d) \in Job
    /\ \A a \in Activity, s \in {"failed", "skipped"} : GiveUp(a, s) \in Job
    /\ \A a \in Activity, d \in Day : [pc |-> "mark", act |-> a, day |-> d] \in Job
    /\ \A d \in Day : Rebuild(d) \in Job
BY DEF Idle, Ingested, GiveUp, Rebuild, Job, IdleJob, PriceJob, GiveUpJob,
       MarkJob, RebuildJob

(* What a job holds at each program counter. *)
LEMMA JobFields ==
    ASSUME NEW j \in Job
    PROVE  /\ j.pc = "save" => /\ j.act \in Activity
                               /\ j.row \in Row
                               /\ j.old \in Day
           /\ j.pc = "remove" => j.act \in Activity /\ j.day \in Day
           /\ j.pc = "merge" => j.act \in Activity /\ j.trip \in Trip
           /\ j.pc = "refetch" => j.act \in Activity
           /\ j.pc = "price" => /\ j.act \in Activity
                                /\ j.trip \in Trip
                                /\ j.day \in Day
           /\ j.pc = "mark" => j.act \in Activity /\ j.day \in Day
           /\ j.pc = "giveup" => /\ j.act \in Activity
                                 /\ j.status \in {"failed", "skipped"}
           /\ j.pc = "rebuild" => j.day \in Day
BY DEF Job, SaveJob, RemoveJob, MergeJob, RefetchJob, PriceJob, MarkJob,
       GiveUpJob, RebuildJob, IdleJob

(* Setting a status keeps the activities table well typed. *)
LEMMA SetStatusType ==
    ASSUME NEW a \in Activity, NEW s \in Status,
           rows \in [Activity -> Row \cup {Null}],
           SetStatus(a, s)
    PROVE  rows' \in [Activity -> Row \cup {Null}]
BY DEF SetStatus, Exists, Row

(* Every step keeps the types. *)
LEMMA TypeStep ==
    ASSUME TypeOK, [Next]_vars
    PROVE  TypeOK'
<1> USE ConstantsAssumption
<1>1. ASSUME NEW r \in Request, NEW a \in Targets[r], NEW t \in Trip, NEW d \in Day,
             CreateActivity(r, a, t, d)
      PROVE  TypeOK'
  <2>1. a \in Activity
    OBVIOUS
  <2>2. [trip |-> t, day |-> d, status |-> "pending"] \in Row
    BY DEF Row, Status
  <2> QED
    BY <1>1, <2>1, <2>2, JobTypes DEF CreateActivity, TypeOK, Continue
<1>2. ASSUME NEW r \in Request, NEW a \in Targets[r], NEW t \in Trip, NEW d \in Day,
             FindForUpdate(r, a, t, d)
      PROVE  TypeOK'
  <2>1. a \in Activity /\ rows[a] \in Row
    BY <1>2 DEF FindForUpdate, Exists, TypeOK
  <2>2. [pc |-> "save", act |-> a, old |-> rows[a].day,
         row |-> [rows[a] EXCEPT !.trip = t, !.day = d]] \in Job
    BY <2>1 DEF Job, SaveJob, Row
  <2> QED
    BY <1>2, <2>2 DEF FindForUpdate, TypeOK, Continue
<1>3. ASSUME NEW r \in Request, NEW a \in Targets[r], NEW t \in Trip,
             PickCandidate(r, a, t)
      PROVE  TypeOK'
  <2>1. [pc |-> "merge", act |-> a, trip |-> t] \in Job
    BY DEF Job, MergeJob
  <2> QED
    BY <1>3, <2>1 DEF PickCandidate, TypeOK, Continue
<1>4. ASSUME NEW r \in Request, NEW a \in Targets[r], FindForDelete(r, a)
      PROVE  TypeOK'
  <2>1. a \in Activity /\ rows[a] \in Row
    BY <1>4 DEF FindForDelete, Exists, TypeOK
  <2>2. [pc |-> "remove", act |-> a, day |-> rows[a].day] \in Job
    BY <2>1 DEF Job, RemoveJob, Row
  <2> QED
    BY <1>4, <2>2 DEF FindForDelete, TypeOK, Continue
<1>5. ASSUME NEW r \in Request, SaveActivity(r)
      PROVE  TypeOK'
  <2>1. /\ chain[r].act \in Activity
        /\ chain[r].row \in Row
        /\ chain[r].old \in Day
    BY <1>5, JobFields DEF SaveActivity, TypeOK
  <2>2. chain[r].row.trip \in Trip /\ chain[r].row.day \in Day
    BY <2>1 DEF Row
  <2> QED
    BY <1>5, <2>1, <2>2, JobTypes DEF SaveActivity, TypeOK, Continue
<1>6. ASSUME NEW r \in Request, RemoveActivity(r)
      PROVE  TypeOK'
  <2>1. chain[r].act \in Activity /\ chain[r].day \in Day
    BY <1>6, JobFields DEF RemoveActivity, TypeOK
  <2> QED
    BY <1>6, <2>1, JobTypes DEF RemoveActivity, TypeOK, Continue
<1>7. ASSUME NEW r \in Request, EnrichFromReceipt(r)
      PROVE  TypeOK'
  <2>1. chain[r].act \in Activity /\ chain[r].trip \in Trip
    BY <1>7, JobFields DEF EnrichFromReceipt, TypeOK
  <2>2. rows' \in [Activity -> Row \cup {Null}]
    BY <1>7, <2>1 DEF EnrichFromReceipt, TypeOK, Exists, Row
  <2>3. [pc |-> "refetch", act |-> chain[r].act] \in Job
    BY <2>1 DEF Job, RefetchJob
  <2> QED
    BY <1>7, <2>2, <2>3 DEF EnrichFromReceipt, TypeOK, Continue
<1>8. ASSUME NEW r \in Request, PublishMerged(r)
      PROVE  TypeOK'
  <2>1. chain[r].act \in Activity
    BY <1>8, JobFields DEF PublishMerged, TypeOK
  <2>2. Exists(chain[r].act) =>
           /\ rows[chain[r].act].trip \in Trip
           /\ rows[chain[r].act].day \in Day
    BY <2>1 DEF TypeOK, Exists, Row
  <2> QED
    BY <1>8, <2>1, <2>2, JobTypes DEF PublishMerged, TypeOK, Continue
<1>9. ASSUME NEW r \in Request, SkipUnpriced(r) \/ FailCalculation(r)
      PROVE  TypeOK'
  <2>1. chain[r].act \in Activity
    BY <1>9, JobFields DEF SkipUnpriced, FailCalculation, TypeOK
  <2>2. rows' \in [Activity -> Row \cup {Null}]
    BY <1>9, <2>1, SetStatusType DEF SkipUnpriced, FailCalculation, TypeOK, Status
  <2> QED
    BY <1>9, <2>2, JobTypes DEF SkipUnpriced, FailCalculation, TypeOK, Continue
<1>10. ASSUME NEW r \in Request, StoreEmission(r)
       PROVE  TypeOK'
  <2>1. /\ chain[r].act \in Activity
        /\ chain[r].trip \in Trip
        /\ chain[r].day \in Day
    BY <1>10, JobFields DEF StoreEmission, TypeOK
  <2>2. chain' \in [Request -> Job]
    BY <1>10, <2>1, JobTypes DEF StoreEmission, TypeOK, Continue
  <2> QED
    BY <1>10, <2>1, <2>2 DEF StoreEmission, TypeOK
<1>11. ASSUME NEW r \in Request, MarkProcessed(r)
       PROVE  TypeOK'
  <2>1. chain[r].act \in Activity /\ chain[r].day \in Day
    BY <1>11, JobFields DEF MarkProcessed, TypeOK
  <2>2. rows' \in [Activity -> Row \cup {Null}]
    BY <1>11, <2>1, SetStatusType DEF MarkProcessed, TypeOK, Status
  <2> QED
    BY <1>11, <2>1, <2>2, JobTypes DEF MarkProcessed, TypeOK, Continue
<1>12. ASSUME NEW r \in Request, MarkGivenUp(r)
       PROVE  TypeOK'
  <2>1. chain[r].act \in Activity /\ chain[r].status \in Status
    BY <1>12, JobFields DEF MarkGivenUp, TypeOK, Status
  <2>2. rows' \in [Activity -> Row \cup {Null}]
    BY <1>12, <2>1, SetStatusType DEF MarkGivenUp, TypeOK
  <2> QED
    BY <1>12, <2>2, JobTypes DEF MarkGivenUp, TypeOK, Continue
<1>13. ASSUME NEW r \in Request, EndRebuild(r)
       PROVE  TypeOK'
  BY <1>13, JobTypes DEF EndRebuild, FinishRebuild, FinishOldDay, TypeOK, Continue
<1>14. ASSUME NEW r \in Request, StatementFails(r)
       PROVE  TypeOK'
  <2>1. PICK j \in AfterError(chain[r]) : Continue(r, j)
    BY <1>14 DEF StatementFails
  <2>2. chain[r] \in Job
    BY DEF TypeOK
  <2>3. j \in Job
    BY <2>1, <2>2, JobFields, JobTypes DEF AfterError
  <2> QED
    BY <1>14, <2>1, <2>3 DEF StatementFails, TypeOK, Continue
<1>15. ASSUME NEW p \in Process, Crash(p)
       PROVE  TypeOK'
  BY <1>15, JobTypes DEF Crash, TypeOK
<1>16. CASE UNCHANGED vars
  BY <1>16 DEF vars, TypeOK
<1> QED
  BY <1>1, <1>2, <1>3, <1>4, <1>5, <1>6, <1>7, <1>8, <1>9, <1>10, <1>11,
     <1>12, <1>13, <1>14, <1>15, <1>16
     DEF Next, PipelineStep, Receive, Serve, HandleActivityIngested

(* The state has the declared types. *)
THEOREM TypeCorrect == Spec => []TypeOK
<1>1. Init => TypeOK
  BY JobTypes DEF Init, TypeOK
<1>2. TypeOK /\ [Next]_vars => TypeOK'
  BY TypeStep
<1> QED
  BY <1>1, <1>2, PTL DEF Spec

-----------------------------------------------------------------------------
(* Emissions and activities *)

(* Setting a status neither creates nor removes a row. *)
LEMMA SetStatusKeepsRows ==
    ASSUME NEW a \in Activity, NEW s \in Status,
           rows \in [Activity -> Row \cup {Null}],
           SetStatus(a, s)
    PROVE  \A b \in Activity :
              /\ (rows'[b] = Null) <=> (rows[b] = Null)
              /\ b # a => rows'[b] = rows[b]
              /\ rows[b] # Null =>
                    /\ rows'[b].trip = rows[b].trip
                    /\ rows'[b].day = rows[b].day
              /\ b = a /\ rows[b] # Null => rows'[b].status = s
<1>1. CASE rows[a] = Null
  BY <1>1 DEF SetStatus, Exists
<1>2. CASE rows[a] # Null
  <2>1. rows[a] \in Row
    BY <1>2
  <2>2. rows' = [rows EXCEPT ![a].status = s]
    BY <1>2 DEF SetStatus, Exists
  <2>3. [rows[a] EXCEPT !.status = s] \in Row
    BY <2>1 DEF Row
  <2>4. \A b \in Activity : rows'[b] = IF b = a THEN [rows[a] EXCEPT !.status = s]
                                               ELSE rows[b]
    BY <2>2
  <2> QED
    BY <2>1, <2>3, <2>4, NullAssumption DEF Row
<1> QED
  BY <1>1, <1>2

(* No emission is ever left without its activity. *)
THEOREM EmissionsHaveActivities == Spec => []EmissionHasActivity
<1>1. Init => EmissionHasActivity
  BY DEF Init, EmissionHasActivity
<1>2. TypeOK /\ EmissionHasActivity /\ [Next]_vars => EmissionHasActivity'
  <2> SUFFICES ASSUME TypeOK, EmissionHasActivity, [Next]_vars
               PROVE  EmissionHasActivity'
    OBVIOUS
  <2> USE ConstantsAssumption, NullAssumption DEF EmissionHasActivity, Exists
  <2>1. ASSUME NEW r \in Request, NEW a \in Targets[r], NEW t \in Trip, NEW d \in Day,
               CreateActivity(r, a, t, d)
        PROVE  EmissionHasActivity'
    <3>1. [trip |-> t, day |-> d, status |-> "pending"] \in Row
      BY DEF Row, Status
    <3> QED
      BY <2>1, <3>1 DEF CreateActivity, TypeOK
  <2>2. ASSUME NEW r \in Request, SaveActivity(r)
        PROVE  EmissionHasActivity'
    <3>1. chain[r].row \in Row
      BY <2>2, JobFields DEF SaveActivity, TypeOK
    <3> QED
      BY <2>2, <3>1 DEF SaveActivity, TypeOK
  <2>3. ASSUME NEW r \in Request, RemoveActivity(r)
        PROVE  EmissionHasActivity'
    BY <2>3 DEF RemoveActivity, TypeOK
  <2>4. ASSUME NEW r \in Request, EnrichFromReceipt(r)
        PROVE  EmissionHasActivity'
    <3>1. chain[r].act \in Activity /\ chain[r].trip \in Trip
      BY <2>4, JobFields DEF EnrichFromReceipt, TypeOK
    <3>2. rows[chain[r].act] # Null =>
             [rows[chain[r].act] EXCEPT !.trip = chain[r].trip] \in Row
      BY <3>1 DEF TypeOK, Row
    <3> QED
      BY <2>4, <3>1, <3>2 DEF EnrichFromReceipt, TypeOK
  <2>5. ASSUME NEW r \in Request,
               SkipUnpriced(r) \/ FailCalculation(r) \/ MarkProcessed(r) \/ MarkGivenUp(r)
        PROVE  EmissionHasActivity'
    <3>1. PICK s \in Status : SetStatus(chain[r].act, s)
      BY <2>5, JobFields
         DEF SkipUnpriced, FailCalculation, MarkProcessed, MarkGivenUp, Status, TypeOK
    <3>2. chain[r].act \in Activity
      BY <2>5, JobFields
         DEF SkipUnpriced, FailCalculation, MarkProcessed, MarkGivenUp, TypeOK
    <3>3. UNCHANGED emissions
      BY <2>5 DEF SkipUnpriced, FailCalculation, MarkProcessed, MarkGivenUp
    <3> QED
      BY <3>1, <3>2, <3>3, SetStatusKeepsRows DEF TypeOK
  <2>6. ASSUME NEW r \in Request, StoreEmission(r)
        PROVE  EmissionHasActivity'
    BY <2>6 DEF StoreEmission, TypeOK
  <2>7. CASE UNCHANGED <<rows, emissions>>
    BY <2>7
  <2> QED
    BY <2>1, <2>2, <2>3, <2>4, <2>5, <2>6, <2>7
       DEF Next, PipelineStep, Receive, Serve, HandleActivityIngested, EndRebuild,
           FindForUpdate, FindForDelete, PickCandidate, PublishMerged,
           FinishRebuild, FinishOldDay, StatementFails, Crash, vars
<1> QED
  BY <1>1, <1>2, TypeCorrect, PTL DEF Spec

-----------------------------------------------------------------------------
(* No lost work *)

(* Every request that handles a payload is one of a pending row's handlers:  *)
(* the invariant is inductive as it stands.                                  *)
THEOREM NoLostWork == Spec => []PendingHasHandler
<1>1. Init => PendingHasHandler
  BY DEF Init, PendingHasHandler, Exists
<1>2. TypeOK /\ PendingHasHandler /\ [Next]_vars => PendingHasHandler'
  <2> SUFFICES ASSUME TypeOK, PendingHasHandler, [Next]_vars, NoFaults',
                      NEW b \in Activity, rows'[b] # Null, rows'[b].status = "pending"
               PROVE  \E r \in Request : InHandler(r, b)'
    BY DEF PendingHasHandler, Exists
  <2> USE ConstantsAssumption, NullAssumption DEF Exists, InHandler
  <2>a. CASE UNCHANGED vars
    BY <2>a DEF vars, PendingHasHandler, NoFaults
  <2>b. ASSUME NEW r \in Request, StatementFails(r)
        PROVE  FALSE
    BY <2>b DEF StatementFails, NoFaults, TypeOK
  <2>c. ASSUME NEW p \in Process, Crash(p)
        PROVE  FALSE
    BY <2>c DEF Crash, NoFaults, TypeOK
  <2>d. ASSUME NEW r \in Request, PipelineStep(r) \/ EndRebuild(r), ~StatementFails(r)
        PROVE  \E q \in Request : InHandler(q, b)'
    <3>1. NoFaults
      BY <2>d DEF PipelineStep, EndRebuild, Receive, Serve, HandleActivityIngested,
                  CreateActivity, FindForUpdate, PickCandidate, FindForDelete,
                  SaveActivity, RemoveActivity, EnrichFromReceipt, PublishMerged,
                  SkipUnpriced, FailCalculation, StoreEmission, MarkProcessed,
                  MarkGivenUp, FinishRebuild, FinishOldDay, NoFaults
    \* Some request had b in its handler and keeps it there.
    <3>2. ASSUME rows[b] # Null, rows[b].status = "pending",
                 ~InHandler(r, b) \/ InHandler(r, b)',
                 \A q \in Request \ {r} : chain'[q] = chain[q]
          PROVE  \E q \in Request : InHandler(q, b)'
      BY <3>1, <3>2 DEF PendingHasHandler
    <3>3. ASSUME NEW a \in Targets[r], NEW t \in Trip, NEW d \in Day,
                 CreateActivity(r, a, t, d)
          PROVE  \E q \in Request : InHandler(q, b)'
      <4>1. CASE b = a
        BY <4>1, <3>3 DEF CreateActivity, Continue, Ingested, TypeOK
      <4>2. CASE b # a
        BY <4>2, <3>2, <3>3 DEF CreateActivity, Continue, Free, Idle, TypeOK
      <4> QED
        BY <4>1, <4>2
    <3>4. ASSUME Free(r), UNCHANGED rows, NEW j, Continue(r, j)
          PROVE  \E q \in Request : InHandler(q, b)'
      BY <3>4, <3>2 DEF Continue, Free, Idle, TypeOK
    <3>5. CASE SaveActivity(r)
      <4>1. CASE b = chain[r].act
        BY <4>1, <3>5 DEF SaveActivity, Continue, Ingested, TypeOK
      <4>2. CASE b # chain[r].act
        BY <4>2, <3>2, <3>5 DEF SaveActivity, Continue, TypeOK
      <4> QED
        BY <4>1, <4>2
    <3>6. CASE RemoveActivity(r)
      BY <3>2, <3>6 DEF RemoveActivity, Continue, TypeOK
    <3>7. CASE EnrichFromReceipt(r)
      <4>1. rows[b] # Null /\ rows[b].status = "pending"
        <5>1. CASE b # chain[r].act \/ rows[b] = Null
          BY <3>7, <5>1 DEF EnrichFromReceipt, TypeOK
        <5>2. CASE b = chain[r].act /\ rows[b] # Null
          <6>1. rows'[b] = [rows[b] EXCEPT !.trip = chain[r].trip] /\ rows[b] \in Row
            BY <3>7, <5>2 DEF EnrichFromReceipt, TypeOK
          <6> QED
            BY <6>1, <5>2 DEF Row
        <5> QED
          BY <5>1, <5>2
      <4> QED
        BY <3>2, <3>7, <4>1 DEF EnrichFromReceipt, Continue, TypeOK
    <3>8. CASE PublishMerged(r)
      BY <3>2, <3>8 DEF PublishMerged, Continue, TypeOK
    <3>9. CASE SkipUnpriced(r) \/ FailCalculation(r) \/ MarkProcessed(r) \/ MarkGivenUp(r)
      <4>1. PICK s \in Status \ {"pending"} : SetStatus(chain[r].act, s)
        BY <3>9, JobFields
           DEF SkipUnpriced, FailCalculation, MarkProcessed, MarkGivenUp, Status, TypeOK
      <4>2. chain[r].act \in Activity
        BY <3>9, JobFields
           DEF SkipUnpriced, FailCalculation, MarkProcessed, MarkGivenUp, TypeOK
      <4>3. b # chain[r].act /\ rows[b] = rows'[b]
        BY <4>1, <4>2, SetStatusKeepsRows DEF TypeOK
      <4>4. \A q \in Request \ {r} : chain'[q] = chain[q]
        BY <3>9 DEF SkipUnpriced, FailCalculation, MarkProcessed, MarkGivenUp,
                    Continue, TypeOK
      <4> QED
        BY <3>2, <4>3, <4>4
    <3>10. CASE StoreEmission(r)
      <4>1. InHandler(r, b) => InHandler(r, b)'
        BY <3>10 DEF StoreEmission, Continue, GiveUp, TypeOK
      <4>2. \A q \in Request \ {r} : chain'[q] = chain[q]
        BY <3>10 DEF StoreEmission, Continue, TypeOK
      <4> QED
        BY <3>2, <3>10, <4>1, <4>2 DEF StoreEmission
    <3>11. CASE EndRebuild(r)
      BY <3>2, <3>11 DEF EndRebuild, FinishRebuild, FinishOldDay, Continue, TypeOK
    <3> QED
      BY <2>d, <3>3, <3>4, <3>5, <3>6, <3>7, <3>8, <3>9, <3>10, <3>11
         DEF PipelineStep, Receive, Serve, HandleActivityIngested,
             FindForUpdate, FindForDelete, PickCandidate
  <2> QED
    BY <2>a, <2>b, <2>c, <2>d DEF Next
<1> QED
  BY <1>1, <1>2, TypeCorrect, PTL DEF Spec

-----------------------------------------------------------------------------
(* A processed activity has an emission *)

\* Where a goroutine works on an activity.
Working == {"save", "remove", "merge", "refetch", "price", "mark", "giveup"}

\* Ids in tables and in goroutines were given out before: an id of a deleted
\* activity is not given to a new one.
KnownIds ==
    /\ \A a \in Activity : rows[a] # Null => a \in used
    /\ \A r \in Request : chain[r].pc \in Working => chain[r].act \in used

\* The emission a goroutine relies on is there as long as its activity has not
\* been deleted: when it is about to set the status to processed, and when it
\* holds a copy of a processed row.
ReliedOn(r) ==
    \/ chain[r].pc = "mark"
    \/ chain[r].pc = "save" /\ chain[r].row.status = "processed"

StoredBeforeMarked ==
    \A r \in Request :
        ReliedOn(r) /\ chain[r].act \notin reborn /\ rows[chain[r].act] # Null
            => emissions[chain[r].act] # Null

ProcessedInv == KnownIds /\ ProcessedHasEmission /\ StoredBeforeMarked

(* The status is set only after the emission is stored, and only a delete    *)
(* removes an emission: a processed activity without one was deleted and     *)
(* inserted again by a Save.                                                 *)
THEOREM ProcessedActivitiesHaveEmissions == Spec => []ProcessedHasEmission
<1>1. Init => ProcessedInv
  BY DEF Init, ProcessedInv, KnownIds, ProcessedHasEmission, StoredBeforeMarked,
         ReliedOn, Exists, Idle, Working
<1>2. TypeOK /\ ProcessedInv /\ [Next]_vars => ProcessedInv'
  <2> SUFFICES ASSUME TypeOK, ProcessedInv, [Next]_vars PROVE ProcessedInv'
    OBVIOUS
  <2> USE ConstantsAssumption, NullAssumption
      DEF ProcessedInv, KnownIds, ProcessedHasEmission, StoredBeforeMarked,
          ReliedOn, Working, Exists
  <2>1. ASSUME NEW r \in Request, NEW a \in Targets[r], NEW t \in Trip, NEW d \in Day,
               CreateActivity(r, a, t, d)
        PROVE  ProcessedInv'
    <3>1. \A b \in Activity : rows'[b] =
             IF b = a THEN [trip |-> t, day |-> d, status |-> "pending"] ELSE rows[b]
      BY <2>1 DEF CreateActivity, TypeOK
    <3>2. \A q \in Request : chain'[q] = IF q = r THEN Ingested(a, t, d) ELSE chain[q]
      BY <2>1 DEF CreateActivity, Continue, TypeOK
    <3>3. a \notin used /\ used' = used \cup {a} /\ UNCHANGED <<emissions, reborn>>
      BY <2>1 DEF CreateActivity
    <3>4. KnownIds'
      BY <3>1, <3>2, <3>3 DEF Ingested
    <3>5. ProcessedHasEmission'
      BY <3>1, <3>3
    <3>6. \A q \in Request : ReliedOn(q) =>
             chain[q].act \in Activity /\ chain[q].act # a
      BY <3>3, JobFields DEF TypeOK
    <3>7. StoredBeforeMarked'
      BY <3>1, <3>2, <3>3, <3>6 DEF Ingested
    <3> QED
      BY <3>4, <3>5, <3>7
  <2>2. ASSUME NEW r \in Request, NEW a \in Targets[r], NEW t \in Trip, NEW d \in Day,
               FindForUpdate(r, a, t, d)
        PROVE  ProcessedInv'
    <3>1. rows[a] \in Row
      BY <2>2 DEF FindForUpdate, TypeOK
    <3>2. [rows[a] EXCEPT !.trip = t, !.day = d].status = rows[a].status
      BY <3>1 DEF Row
    <3>3. \A q \in Request \ {r} : chain'[q] = chain[q]
      BY <2>2 DEF FindForUpdate, Continue, TypeOK
    <3>4. chain'[r].pc = "save" /\ chain'[r].act = a
            /\ chain'[r].row.status = rows[a].status
      BY <2>2, <3>2 DEF FindForUpdate, Continue, TypeOK
    <3>5. UNCHANGED <<rows, emissions, used, reborn>>
      BY <2>2 DEF FindForUpdate
    <3> QED
      BY <3>1, <3>3, <3>4, <3>5
  <2>3. ASSUME NEW r \in Request, SaveActivity(r)
        PROVE  ProcessedInv'
    <3>1. chain[r].act \in Activity /\ chain[r].row \in Row
      BY <2>3, JobFields DEF SaveActivity, TypeOK
    <3>2. \A b \in Activity : rows'[b] = IF b = chain[r].act THEN chain[r].row ELSE rows[b]
      BY <2>3, <3>1 DEF SaveActivity, TypeOK
    <3>3. \A q \in Request \ {r} : chain'[q] = chain[q]
      BY <2>3 DEF SaveActivity, Continue, TypeOK
    <3>4. chain'[r].pc = "price" /\ chain'[r].act = chain[r].act
      BY <2>3 DEF SaveActivity, Continue, Ingested, TypeOK
    <3>5. UNCHANGED <<emissions, used>>
            /\ reborn' = IF rows[chain[r].act] # Null THEN reborn
                                                      ELSE reborn \cup {chain[r].act}
      BY <2>3 DEF SaveActivity
    <3>6. KnownIds'
      BY <2>3, <3>1, <3>2, <3>3, <3>4, <3>5 DEF SaveActivity
    <3>7. ProcessedHasEmission'
      BY <2>3, <3>1, <3>2, <3>5 DEF SaveActivity
    <3>8. \A q \in Request : ReliedOn(q) => chain[q].act \in Activity
      BY JobFields DEF TypeOK
    <3>9. StoredBeforeMarked'
      BY <3>1, <3>2, <3>3, <3>4, <3>5, <3>8
    <3> QED
      BY <3>6, <3>7, <3>9
  <2>4. ASSUME NEW r \in Request, RemoveActivity(r)
        PROVE  ProcessedInv'
    <3>1. \A q \in Request \ {r} : chain'[q] = chain[q]
      BY <2>4 DEF RemoveActivity, Continue, TypeOK
    <3>2. chain'[r].pc \in {"rebuild", "idle"}
      BY <2>4 DEF RemoveActivity, Continue, Rebuild, Idle, TypeOK
    <3>3. \A b \in Activity : rows'[b] = IF b = chain[r].act THEN Null ELSE rows[b]
      BY <2>4 DEF RemoveActivity, TypeOK
    <3>4. \A b \in Activity : b # chain[r].act => emissions'[b] = emissions[b]
      BY <2>4 DEF RemoveActivity, TypeOK
    <3>5. \A q \in Request : ReliedOn(q) => chain[q].act \in Activity
      BY JobFields DEF TypeOK
    <3> QED
      BY <2>4, <3>1, <3>2, <3>3, <3>4, <3>5 DEF RemoveActivity
  <2>5. ASSUME NEW r \in Request, EnrichFromReceipt(r)
        PROVE  ProcessedInv'
    <3>1. chain[r].act \in Activity /\ chain[r].trip \in Trip
      BY <2>5, JobFields DEF EnrichFromReceipt, TypeOK
    <3>2. rows[chain[r].act] # Null =>
             /\ [rows[chain[r].act] EXCEPT !.trip = chain[r].trip] \in Row
             /\ [rows[chain[r].act] EXCEPT !.trip = chain[r].trip].status
                    = rows[chain[r].act].status
      BY <3>1 DEF TypeOK, Row
    <3>3. \A b \in Activity :
             /\ (rows'[b] = Null) <=> (rows[b] = Null)
             /\ rows[b] # Null => rows'[b].status = rows[b].status
      BY <2>5, <3>1, <3>2 DEF EnrichFromReceipt, TypeOK
    <3>4. \A q \in Request : ReliedOn(q) => chain[q].act \in Activity
      BY JobFields DEF TypeOK
    <3>5. \A q \in Request \ {r} : chain'[q] = chain[q]
      BY <2>5 DEF EnrichFromReceipt, Continue, TypeOK
    <3>6. chain'[r].pc = "refetch" /\ chain'[r].act = chain[r].act
      BY <2>5 DEF EnrichFromReceipt, Continue, TypeOK
    <3> QED
      BY <2>5, <3>1, <3>3, <3>4, <3>5, <3>6 DEF EnrichFromReceipt
  <2>6. ASSUME NEW r \in Request,
               SkipUnpriced(r) \/ FailCalculation(r) \/ MarkProcessed(r) \/ MarkGivenUp(r)
        PROVE  ProcessedInv'
    <3>1. chain[r].act \in Activity
      BY <2>6, JobFields
         DEF SkipUnpriced, FailCalculation, MarkProcessed, MarkGivenUp, TypeOK
    <3>2. PICK s \in Status :
             SetStatus(chain[r].act, s) /\ (s = "processed" => chain[r].pc = "mark")
      BY <2>6, JobFields
         DEF SkipUnpriced, FailCalculation, MarkProcessed, MarkGivenUp, Status, TypeOK
    <3>3. UNCHANGED <<emissions, used, reborn>>
      BY <2>6 DEF SkipUnpriced, FailCalculation, MarkProcessed, MarkGivenUp
    <3>4. \A q \in Request \ {r} : chain'[q] = chain[q]
      BY <2>6 DEF SkipUnpriced, FailCalculation, MarkProcessed, MarkGivenUp,
                  Continue, TypeOK
    <3>5. chain'[r].pc \in {"rebuild", "idle"}
      BY <2>6 DEF SkipUnpriced, FailCalculation, MarkProcessed, MarkGivenUp,
                  Continue, Rebuild, Idle, TypeOK
    <3>6. \A b \in Activity :
             /\ (rows'[b] = Null) <=> (rows[b] = Null)
             /\ b # chain[r].act => rows'[b] = rows[b]
             /\ b = chain[r].act /\ rows[b] # Null => rows'[b].status = s
      BY <3>1, <3>2, SetStatusKeepsRows DEF TypeOK
    <3>7. \A q \in Request : ReliedOn(q) => chain[q].act \in Activity
      BY JobFields DEF TypeOK
    <3>8. KnownIds' /\ StoredBeforeMarked'
      BY <3>3, <3>4, <3>5, <3>6, <3>7
    <3>9. ProcessedHasEmission'
      BY <3>1, <3>2, <3>3, <3>6
    <3> QED
      BY <3>8, <3>9
  <2>7. ASSUME NEW r \in Request, StoreEmission(r)
        PROVE  ProcessedInv'
    <3>1. chain[r].act \in Activity /\ chain[r].trip \in Trip
      BY <2>7, JobFields DEF StoreEmission, TypeOK
    <3>2. \A q \in Request \ {r} : chain'[q] = chain[q]
      BY <2>7 DEF StoreEmission, Continue, TypeOK
    <3>3. chain'[r].act = chain[r].act
            /\ chain'[r].pc \in IF rows[chain[r].act] # Null THEN {"mark"} ELSE {"giveup"}
      BY <2>7 DEF StoreEmission, Continue, GiveUp, TypeOK
    <3>4. \A b \in Activity :
             emissions'[b] = IF b = chain[r].act /\ rows[b] # Null
                             THEN chain[r].trip ELSE emissions[b]
      BY <2>7, <3>1 DEF StoreEmission, TypeOK
    <3>5. UNCHANGED <<rows, used, reborn>>
      BY <2>7 DEF StoreEmission
    <3>6. \A q \in Request : ReliedOn(q) => chain[q].act \in Activity
      BY JobFields DEF TypeOK
    <3>7. KnownIds'
      BY <2>7, <3>2, <3>3, <3>5 DEF StoreEmission
    <3>8. ProcessedHasEmission' /\ StoredBeforeMarked'
      BY <3>1, <3>2, <3>3, <3>4, <3>5, <3>6
    <3> QED
      BY <3>7, <3>8
  \* The remaining steps leave the tables alone and start no reliance.
  <2>8. ASSUME UNCHANGED <<rows, emissions, used, reborn>>,
               \A q \in Request :
                  \/ chain'[q] = chain[q]
                  \/ chain'[q].pc \in {"idle", "rebuild"}
                  \/ /\ chain'[q].pc \in Working \ {"mark", "save"}
                     /\ chain'[q].act \in used
        PROVE  ProcessedInv'
    BY <2>8
  <2>9. ASSUME NEW r \in Request, StatementFails(r)
        PROVE  ProcessedInv'
    <3>1. PICK j \in AfterError(chain[r]) : Continue(r, j)
      BY <2>9 DEF StatementFails
    <3>2. \/ j.pc \in {"idle", "rebuild"}
          \/ j.pc = "giveup" /\ j.act = chain[r].act /\ chain[r].pc = "price"
      BY <3>1 DEF AfterError, Idle, Rebuild, GiveUp
    <3> QED
      BY <2>9, <2>8, <3>1, <3>2 DEF StatementFails, Continue, TypeOK
  <2>10. ASSUME NEW p \in Process, Crash(p)
         PROVE  ProcessedInv'
    BY <2>10, <2>8 DEF Crash, Idle
  <2>11. ASSUME NEW r \in Request, NEW a \in Targets[r],
                (\E t \in Trip : PickCandidate(r, a, t)) \/ FindForDelete(r, a)
         PROVE  ProcessedInv'
    BY <2>11, <2>8 DEF PickCandidate, FindForDelete, Continue, TypeOK
  <2>12. ASSUME NEW r \in Request, PublishMerged(r)
         PROVE  ProcessedInv'
    BY <2>12, <2>8 DEF PublishMerged, Continue, Ingested, Idle, TypeOK
  <2>13. ASSUME NEW r \in Request, EndRebuild(r)
         PROVE  ProcessedInv'
    BY <2>13, <2>8 DEF EndRebuild, FinishRebuild, FinishOldDay, Continue, Idle, TypeOK
  <2>14. CASE UNCHANGED vars
    BY <2>14, <2>8 DEF vars
  <2> QED
    BY <2>1, <2>2, <2>3, <2>4, <2>5, <2>6, <2>7, <2>9, <2>10, <2>11, <2>12, <2>13, <2>14
       DEF Next, PipelineStep, Receive, Serve, HandleActivityIngested
<1>3. ProcessedInv => ProcessedHasEmission
  BY DEF ProcessedInv
<1> QED
  BY <1>1, <1>2, <1>3, TypeCorrect, PTL DEF Spec

-----------------------------------------------------------------------------
(* Requests that do not share activities *)

\* No activity can be touched by two requests.
DisjointTargets ==
    \A q, r \in Request : q # r => Targets[q] \cap Targets[r] = {}

\* A goroutine works on an activity of its own request that exists, holds the
\* current content of the row when it prices it, and is about to set the
\* status to processed only when the emission is that of the row.
JobOwned(r) ==
    LET j == chain[r] IN
    j.pc \in Working =>
        /\ j.act \in Targets[r]
        /\ rows[j.act] # Null
        /\ j.pc # "giveup"
        /\ j.pc = "price" => j.trip = rows[j.act].trip
        /\ j.pc = "mark" => /\ emissions[j.act] = rows[j.act].trip
                            /\ rows[j.act].trip \notin NoFactor \cup BadInput

OwnInv ==
    NoFaults => /\ \A r \in Request : JobOwned(r)
                /\ \A a \in Activity : Exists(a) /\ Settled(a) => Decided(a)

\* A goroutine that is not working on an activity is idle or rebuilds a day.
LEMMA JobPhases ==
    ASSUME NEW j \in Job
    PROVE  j.pc \in {"idle", "rebuild"} <=> j.pc \notin Working
BY DEF Job, SaveJob, RemoveJob, MergeJob, RefetchJob, PriceJob, MarkJob,
       GiveUpJob, RebuildJob, IdleJob, Working

(* A step of request r on activity b that leaves every other request and     *)
(* activity alone keeps the invariant, if it leaves r in a state that fits   *)
(* and b either still worked on or decided.                                  *)
LEMMA OwnStep ==
    ASSUME DisjointTargets, TypeOK, TypeOK', OwnInv, NoFaults,
           NEW r \in Request, NEW b \in Targets[r],
           chain[r].pc \in {"idle", "rebuild"} \/ chain[r].act = b,
           \A q \in Request \ {r} : chain'[q] = chain[q],
           \A c \in Activity \ {b} : rows'[c] = rows[c] /\ emissions'[c] = emissions[c],
           JobOwned(r)',
           \/ rows'[b] = Null
           \/ chain'[r].pc \in Working /\ chain'[r].act = b
           \/ Decided(b)'
    PROVE  OwnInv'
<1> USE ConstantsAssumption
<1>1. \A q \in Request : JobOwned(q)'
  <2> SUFFICES ASSUME NEW q \in Request \ {r}, chain'[q].pc \in Working
               PROVE  JobOwned(q)'
    BY DEF JobOwned
  <2>1. chain'[q] = chain[q] /\ JobOwned(q)
    BY DEF OwnInv
  <2>2. chain[q].act \in Activity \ {b}
    BY <2>1 DEF JobOwned, DisjointTargets
  <2> QED
    BY <2>1, <2>2 DEF JobOwned
<1>2. ASSUME NEW c \in Activity, rows'[c] # Null, Settled(c)'
      PROVE  Decided(c)'
  <2>1. CASE c = b
    BY <1>2, <2>1 DEF Settled, Working
  <2>2. CASE c # b
    <3>1. Settled(c)
      BY <1>2, <2>2 DEF Settled
    <3>2. rows[c] # Null /\ rows'[c] = rows[c] /\ emissions'[c] = emissions[c]
      BY <1>2, <2>2
    <3>3. Decided(c)
      BY <3>1, <3>2 DEF OwnInv, Exists
    <3> QED
      BY <3>2, <3>3 DEF Decided
  <2> QED
    BY <2>1, <2>2
<1> QED
  BY <1>1, <1>2 DEF OwnInv, Exists

(* While nothing fails and no two requests share an activity, every activity *)
(* that nobody works on any more has the status and the emission its content *)
(* calls for.                                                                *)
THEOREM OwnRequestsDecide ==
    ASSUME DisjointTargets
    PROVE  Spec => []SettledIsDecided
<1>1. Init => OwnInv
  BY DEF Init, OwnInv, JobOwned, Idle, Working, Exists
<1>2. TypeOK /\ TypeOK' /\ OwnInv /\ [Next]_vars => OwnInv'
  <2> SUFFICES ASSUME TypeOK, TypeOK', OwnInv, [Next]_vars, NoFaults' PROVE OwnInv'
    BY DEF OwnInv
  <2> USE ConstantsAssumption, NullAssumption
  <2>a. CASE UNCHANGED vars
    BY <2>a DEF vars, OwnInv, JobOwned, NoFaults, Settled, Decided, Exists
  <2>b. ASSUME NEW r \in Request, StatementFails(r)
        PROVE  FALSE
    BY <2>b DEF StatementFails, NoFaults, TypeOK
  <2>c. ASSUME NEW p \in Process, Crash(p)
        PROVE  FALSE
    BY <2>c DEF Crash, NoFaults, TypeOK
  <2>d. ASSUME NEW r \in Request, PipelineStep(r) \/ EndRebuild(r), ~StatementFails(r)
        PROVE  OwnInv'
    <3>1. NoFaults
      BY <2>d DEF PipelineStep, EndRebuild, Receive, Serve, HandleActivityIngested,
                  CreateActivity, FindForUpdate, PickCandidate, FindForDelete,
                  SaveActivity, RemoveActivity, EnrichFromReceipt, PublishMerged,
                  SkipUnpriced, FailCalculation, StoreEmission, MarkProcessed,
                  MarkGivenUp, FinishRebuild, FinishOldDay, NoFaults
    <3>2. JobOwned(r) /\ chain[r] \in Job
      BY <3>1 DEF OwnInv, TypeOK
    <3>3. ASSUME NEW a \in Targets[r], NEW t \in Trip, NEW d \in Day,
                 CreateActivity(r, a, t, d)
          PROVE  OwnInv'
      <4>1. rows'[a] = [trip |-> t, day |-> d, status |-> "pending"] /\ rows'[a] # Null
        BY <3>3 DEF CreateActivity, TypeOK, Row, Status
      <4>2. chain'[r] = Ingested(a, t, d) /\ JobOwned(r)'
        BY <3>3, <4>1 DEF CreateActivity, Continue, Ingested, JobOwned, TypeOK
      <4> QED
        BY <3>1, <3>3, <4>2, OwnStep
           DEF CreateActivity, Continue, Free, Idle, Ingested, Working, TypeOK
    <3>4. ASSUME NEW a \in Targets[r], rows[a] # Null, Free(r), NEW j,
                 Continue(r, j), UNCHANGED <<rows, emissions>>,
                 j.pc \in {"save", "remove", "merge"}, j.act = a
          PROVE  OwnInv'
      <4>1. JobOwned(r)' /\ chain'[r].pc \in Working /\ chain'[r].act = a
        BY <3>4 DEF Continue, JobOwned, Working, TypeOK
      <4> QED
        BY <3>1, <3>4, <4>1, OwnStep DEF Continue, Free, Idle, TypeOK
    <3>5. ASSUME NEW a \in Targets[r],
                 \/ \E t \in Trip, d \in Day : FindForUpdate(r, a, t, d)
                 \/ \E t \in Trip : PickCandidate(r, a, t)
                 \/ FindForDelete(r, a)
          PROVE  OwnInv'
      BY <3>5, <3>4 DEF FindForUpdate, PickCandidate, FindForDelete, Exists
    <3>6. CASE SaveActivity(r)
      <4>1. chain[r].act \in Targets[r] /\ chain[r].row \in Row
        BY <3>2, <3>6, JobFields DEF SaveActivity, JobOwned, Working
      <4>2. rows'[chain[r].act] = chain[r].row
        BY <3>6, <4>1 DEF SaveActivity, TypeOK
      <4>3. /\ chain'[r].pc = "price"
            /\ chain'[r].act = chain[r].act
            /\ chain'[r].trip = chain[r].row.trip
        BY <3>6 DEF SaveActivity, Continue, Ingested, TypeOK
      <4>4. JobOwned(r)'
        BY <4>1, <4>2, <4>3 DEF JobOwned
      <4> QED
        BY <3>1, <3>6, <4>1, <4>3, <4>4, OwnStep
           DEF SaveActivity, Continue, Working, TypeOK
    <3>7. CASE RemoveActivity(r)
      <4>1. chain[r].act \in Targets[r]
        BY <3>2, <3>7 DEF RemoveActivity, JobOwned, Working
      <4>2. rows'[chain[r].act] = Null
        BY <3>7, <4>1 DEF RemoveActivity, TypeOK
      <4>3. JobOwned(r)'
        BY <3>7 DEF RemoveActivity, Continue, Rebuild, Idle, JobOwned, Working, TypeOK
      <4> QED
        BY <3>1, <3>7, <4>1, <4>2, <4>3, OwnStep DEF RemoveActivity, Continue, TypeOK
    <3>8. CASE EnrichFromReceipt(r)
      <4>1. /\ chain[r].act \in Targets[r]
            /\ rows[chain[r].act] # Null
            /\ chain[r].trip \in Trip
        BY <3>2, <3>8, JobFields DEF EnrichFromReceipt, JobOwned, Working
      <4>2. rows'[chain[r].act] # Null
        BY <3>8, <4>1 DEF EnrichFromReceipt, Exists, TypeOK, Row
      <4>3. chain'[r] = [pc |-> "refetch", act |-> chain[r].act]
        BY <3>8 DEF EnrichFromReceipt, Continue, TypeOK
      <4>4. JobOwned(r)'
        BY <4>1, <4>2, <4>3 DEF JobOwned
      <4> QED
        BY <3>1, <3>8, <4>1, <4>3, <4>4, OwnStep
           DEF EnrichFromReceipt, Continue, Working, TypeOK
    <3>9. CASE PublishMerged(r)
      <4>1. chain[r].act \in Targets[r] /\ rows[chain[r].act] # Null
        BY <3>2, <3>9 DEF PublishMerged, JobOwned, Working
      <4>2. /\ chain'[r].pc = "price"
            /\ chain'[r].act = chain[r].act
            /\ chain'[r].trip = rows[chain[r].act].trip
        BY <3>9, <4>1 DEF PublishMerged, Continue, Ingested, Exists, TypeOK
      <4>3. UNCHANGED <<rows, emissions>>
        BY <3>9 DEF PublishMerged
      <4>4. JobOwned(r)'
        BY <4>1, <4>2, <4>3 DEF JobOwned
      <4> QED
        BY <3>1, <3>9, <4>1, <4>2, <4>3, <4>4, OwnStep
           DEF PublishMerged, Continue, Working, TypeOK
    <3>10. CASE SkipUnpriced(r) \/ FailCalculation(r) \/ MarkProcessed(r)
      <4>1. PICK b \in Targets[r] : b = chain[r].act /\ b \in Activity /\ rows[b] # Null
        BY <3>2, <3>10
           DEF SkipUnpriced, FailCalculation, MarkProcessed, JobOwned, Working
      <4> DEFINE s == IF chain[r].pc = "mark" THEN "processed"
                      ELSE IF chain[r].trip \in NoFactor THEN "skipped" ELSE "failed"
      <4>2. SetStatus(b, s) /\ s \in Status
        BY <3>10, <4>1 DEF SkipUnpriced, FailCalculation, MarkProcessed, Status,
                           ConstantsAssumption
      <4>3. /\ rows'[b] # Null /\ rows'[b].status = s
            /\ rows'[b].trip = rows[b].trip
            /\ \A c \in Activity \ {b} : rows'[c] = rows[c]
        BY <4>1, <4>2, SetStatusKeepsRows DEF TypeOK
      <4>4. UNCHANGED emissions /\ chain'[r].pc \in {"idle", "rebuild"}
              /\ \A q \in Request \ {r} : chain'[q] = chain[q]
        BY <3>10 DEF SkipUnpriced, FailCalculation, MarkProcessed, Continue,
                     Idle, Rebuild, TypeOK
      <4>5. Decided(b)'
        <5>1. CASE chain[r].pc = "mark"
          BY <3>2, <4>1, <4>3, <4>4, <5>1 DEF JobOwned, Working, Decided
        <5>2. CASE chain[r].pc = "price"
          <6>1. chain[r].trip = rows[b].trip /\ chain[r].trip \in NoFactor \cup BadInput
            BY <3>2, <3>10, <4>1, <5>2
               DEF JobOwned, Working, SkipUnpriced, FailCalculation, MarkProcessed
          <6> QED
            BY <4>3, <5>2, <6>1 DEF Decided, ConstantsAssumption
        <5> QED
          BY <3>10, <5>1, <5>2 DEF SkipUnpriced, FailCalculation, MarkProcessed
      <4>6. JobOwned(r)'
        BY <4>4 DEF JobOwned, Working
      <4> HIDE DEF s
      <4> QED
        BY <3>1, <4>1, <4>3, <4>4, <4>5, <4>6, OwnStep
    <3>11. CASE StoreEmission(r)
      <4>1. /\ chain[r].act \in Targets[r]
            /\ rows[chain[r].act] # Null
            /\ chain[r].trip = rows[chain[r].act].trip
            /\ chain[r].trip \notin NoFactor \cup BadInput
        BY <3>2, <3>11 DEF StoreEmission, JobOwned, Working
      <4>2. /\ chain'[r].pc = "mark" /\ chain'[r].act = chain[r].act
            /\ emissions'[chain[r].act] = chain[r].trip
            /\ UNCHANGED rows
        BY <3>11, <4>1 DEF StoreEmission, Exists, Continue, TypeOK
      <4>3. JobOwned(r)'
        BY <4>1, <4>2 DEF JobOwned
      <4> QED
        BY <3>1, <3>11, <4>1, <4>2, <4>3, OwnStep
           DEF StoreEmission, Exists, Continue, Working, TypeOK
    <3>12. CASE MarkGivenUp(r)
      BY <3>2, <3>12 DEF MarkGivenUp, JobOwned, Working
    <3>13. CASE EndRebuild(r)
      <4>1. /\ UNCHANGED <<rows, emissions>>
            /\ \A q \in Request : chain'[q] = chain[q]
                  \/ (chain'[q].pc = "idle" /\ chain[q].pc = "rebuild")
        BY <3>13 DEF EndRebuild, FinishRebuild, FinishOldDay, Continue, Idle, TypeOK
      <4>2. \A q \in Request : JobOwned(q)'
        BY <3>1, <4>1 DEF OwnInv, JobOwned, Working
      <4>3. \A a \in Activity : Settled(a)' => Settled(a)
        BY <4>1 DEF Settled
      <4> QED
        BY <3>1, <4>1, <4>2, <4>3 DEF OwnInv, Exists, Decided
    <3> QED
      BY <2>d, <3>3, <3>5, <3>6, <3>7, <3>8, <3>9, <3>10, <3>11, <3>12, <3>13
         DEF PipelineStep, Receive, Serve, HandleActivityIngested
  <2> QED
    BY <2>a, <2>b, <2>c, <2>d DEF Next
<1>3. OwnInv => SettledIsDecided
  BY DEF OwnInv, SettledIsDecided
<1> QED
  BY <1>1, <1>2, <1>3, TypeCorrect, PTL DEF Spec

-----------------------------------------------------------------------------
(* RecomputeDay: types *)

(* The steps of RecomputeDay. *)
Phase == {"aggregate", "upsertDay", "readWeek", "upsertWeek", "readMonth", "upsertMonth"}

Work ==
    UNION {[pc : {"aggregate", "readWeek", "readMonth"}],
           [pc : {"upsertDay"}, terms : DaySummary],
           [pc : {"upsertWeek", "upsertMonth"}, terms : RollupSummary]}

TimelineTypeOK ==
    /\ TypeOK
    /\ daily \in [Day -> DaySummary \cup {Null}]
    /\ weekly \in [Week -> RollupSummary \cup {Null}]
    /\ monthly \in [Month -> RollupSummary \cup {Null}]
    /\ work \in [Rebuilder -> Work]

(* What the aggregation and the roll-ups compute is of the type they store. *)
LEMMA DayTermsType ==
    ASSUME TypeOK, NEW d \in Day
    PROVE  DayTerms(d) \in DaySummary
BY DEF DayTerms, DaySummary, Term, TypeOK, Exists, Row

(* The same of a roll-up: pairs of a day and a term of that day. *)
LEMMA RollupTermsType ==
    ASSUME daily \in [Day -> DaySummary \cup {Null}], NEW D \in SUBSET Day
    PROVE  RollupTerms(D) \in RollupSummary
<1>1. ASSUME NEW d \in Day PROVE OrEmpty(daily[d]) \in SUBSET Term
  BY DEF OrEmpty, DaySummary
<1>2. ASSUME NEW y \in RollupTerms(D) PROVE y \in Day \X Term
  <2>1. PICK d \in D : y \in {<<d, x>> : x \in OrEmpty(daily[d])}
    BY <1>2 DEF RollupTerms
  <2> QED
    BY <1>1, <2>1
<1> QED
  BY <1>2 DEF RollupSummary

(* What RecomputeDay holds at each of its steps. *)
LEMMA WorkFields ==
    ASSUME NEW s \in Work
    PROVE  /\ s.pc \in Phase
           /\ s.pc = "upsertDay" => s.terms \in DaySummary
           /\ s.pc \in {"upsertWeek", "upsertMonth"} => s.terms \in RollupSummary
BY DEF Work, Phase

(* Each state that a statement of RecomputeDay leaves it in is of its type. *)
LEMMA WorkTypes ==
    /\ Start \in Work
    /\ \A pc \in {"readWeek", "readMonth"} : [pc |-> pc] \in Work
    /\ \A s \in DaySummary : [pc |-> "upsertDay", terms |-> s] \in Work
    /\ \A s \in RollupSummary, pc \in {"upsertWeek", "upsertMonth"} :
          [pc |-> pc, terms |-> s] \in Work
BY DEF Start, Work

(* A goroutine that runs RecomputeDay has a day. *)
LEMMA DayOfType ==
    ASSUME TypeOK, NEW g \in Rebuilder, Rebuilding(g)
    PROVE  DayOf(g) \in Day /\ WeekOf[DayOf(g)] \in Week /\ MonthOf[DayOf(g)] \in Month
<1>1. g[1] \in Request
  BY DEF Rebuilder
<1>2. chain[g[1]] \in Job /\ oldDay[g[1]] \in Day \cup {Null}
  BY <1>1 DEF TypeOK
<1>3. DayOf(g) \in Day
  BY <1>2, JobFields DEF Rebuilding, DayOf
<1> QED
  BY <1>3, CalendarAssumption

(* To the pipeline, a step of the timeline is one of its own, or an error in *)
(* RecomputeDay that ends the goroutine.                                     *)
LEMMA PipelineTypeStep ==
    ASSUME TypeOK, [TNext]_tvars
    PROVE  TypeOK'
<1>1. ASSUME NEW g \in Rebuilder, RecomputeDay(g) PROVE [Next]_vars
  <2>1. g[1] \in Request
    BY DEF Rebuilder
  <2>2. UNCHANGED vars \/ EndRebuild(g[1])
    BY <1>1 DEF RecomputeDay, AggregateDay, UpsertDaily, ReadWeek, UpsertWeekly,
                ReadMonth, UpsertMonthly, EndOf, EndRebuild
  <2> QED
    BY <2>1, <2>2 DEF Next
<1>2. ASSUME NEW g \in Rebuilder, RecomputeFails(g) PROVE TypeOK'
  BY <1>2, JobTypes DEF RecomputeFails, TypeOK, Continue
<1>3. ASSUME NEW r \in Request, PipelineStep(r) PROVE [Next]_vars
  BY <1>3 DEF Next
<1>4. ASSUME NEW p \in Process, CrashProcess(p) PROVE [Next]_vars
  BY <1>4 DEF Next, CrashProcess
<1>5. UNCHANGED tvars => [Next]_vars
  BY DEF tvars
<1> QED
  BY <1>1, <1>2, <1>3, <1>4, <1>5, TypeStep DEF TNext

(* The state of the timeline has its types. *)
THEOREM TimelineTypeCorrect == TSpec => []TimelineTypeOK
<1>1. TInit => TimelineTypeOK
  <2>1. Init => TypeOK
    BY JobTypes DEF Init, TypeOK
  <2> QED
    BY <2>1, WorkTypes DEF TInit, TimelineTypeOK
<1>2. TimelineTypeOK /\ [TNext]_tvars => TimelineTypeOK'
  <2> SUFFICES ASSUME TimelineTypeOK, [TNext]_tvars PROVE TimelineTypeOK'
    OBVIOUS
  <2>1. TypeOK'
    BY PipelineTypeStep DEF TimelineTypeOK
  <2>2. ASSUME NEW g \in Rebuilder, RecomputeDay(g) PROVE TimelineTypeOK'
    <3>1. Rebuilding(g)
      BY <2>2 DEF RecomputeDay, AggregateDay, UpsertDaily, ReadWeek, UpsertWeekly,
                  ReadMonth, UpsertMonthly, At
    <3>2. /\ DayOf(g) \in Day
          /\ DayTerms(DayOf(g)) \in DaySummary
      BY <3>1, DayOfType, DayTermsType DEF TimelineTypeOK
    <3>3. /\ RollupTerms(WeekDays(WeekOf[DayOf(g)])) \in RollupSummary
          /\ RollupTerms(MonthDays(MonthOf[DayOf(g)])) \in RollupSummary
      BY RollupTermsType DEF TimelineTypeOK, WeekDays, MonthDays
    <3>4. work[g] \in Work
      BY DEF TimelineTypeOK
    <3>5. CASE AggregateDay(g)
      BY <2>1, <3>2, <3>5, WorkTypes DEF AggregateDay, Advance, TimelineTypeOK, summaries
    <3>6. CASE UpsertDaily(g)
      BY <2>1, <3>2, <3>4, <3>6, WorkTypes, WorkFields
         DEF UpsertDaily, At, Advance, TimelineTypeOK
    <3>7. CASE ReadWeek(g)
      BY <2>1, <3>3, <3>7, WorkTypes DEF ReadWeek, Advance, TimelineTypeOK, summaries
    <3>8. CASE UpsertWeekly(g)
      BY <2>1, <3>4, <3>8, WorkTypes, WorkFields
         DEF UpsertWeekly, At, Advance, TimelineTypeOK
    <3>9. CASE ReadMonth(g)
      BY <2>1, <3>3, <3>9, WorkTypes DEF ReadMonth, Advance, TimelineTypeOK, summaries
    <3>10. CASE UpsertMonthly(g)
      BY <2>1, <3>4, <3>10, WorkTypes, WorkFields
         DEF UpsertMonthly, At, Advance, TimelineTypeOK
    <3> QED
      BY <2>2, <3>5, <3>6, <3>7, <3>8, <3>9, <3>10 DEF RecomputeDay
  <2>3. ASSUME NEW g \in Rebuilder, RecomputeFails(g) PROVE TimelineTypeOK'
    BY <2>1, <2>3, WorkTypes DEF RecomputeFails, Advance, TimelineTypeOK, summaries
  <2>4. ASSUME NEW p \in Process, CrashProcess(p) PROVE TimelineTypeOK'
    BY <2>1, <2>4, WorkTypes DEF CrashProcess, TimelineTypeOK, summaries
  <2>5. CASE UNCHANGED <<summaries, work>>
    BY <2>1, <2>5 DEF TimelineTypeOK, summaries
  <2> QED
    BY <2>2, <2>3, <2>4, <2>5 DEF TNext, tvars
<1> QED
  BY <1>1, <1>2, PTL DEF TSpec

-----------------------------------------------------------------------------
(* One request at a time *)

\* A client waits for the answer, and for what it started, before it goes on.
Alone == \A q, r \in Request : q = r \/ Free(q) \/ Free(r)

Handling == {"price", "mark", "giveup"}

\* Alone, what a request has read of an activity is still so, and the day that
\* an activity has left is not the one it is in.
JobIsCurrent(r) ==
    LET j == chain[r] IN
    /\ j.pc = "save" => Exists(j.act) /\ rows[j.act].day = j.old /\ j.row.day \in Moves[j.old]
    /\ j.pc = "remove" => Exists(j.act) /\ rows[j.act].day = j.day
    /\ j.pc \in {"merge", "refetch", "giveup"} => Exists(j.act)
    /\ j.pc = "price" => /\ Exists(j.act)
                         /\ rows[j.act].day = j.day
                         /\ rows[j.act].trip = j.trip
    /\ j.pc = "mark" => Exists(j.act) /\ rows[j.act].day = j.day
    /\ oldDay[r] # Null => /\ j.pc \in Handling \cup {"rebuild", "idle"}
                           /\ j.pc \in Handling => rows[j.act].day # oldDay[r]
                           /\ j.pc = "rebuild" => j.day # oldDay[r]

JobsInv == \A r \in Request : JobIsCurrent(r)

(* A step of one request finds every other one free, and leaves it so. *)
LEMMA OthersAreFree ==
    ASSUME TypeOK, Alone, Alone', NEW q \in Request, PipelineStep(q),
           NEW r \in Request, r # q
    PROVE  Free(r) /\ chain'[r] = chain[r] /\ oldDay'[r] = oldDay[r]
<1>1. chain'[r] = chain[r] /\ oldDay'[r] = oldDay[r]
  BY DEF PipelineStep, Receive, Serve, HandleActivityIngested, CreateActivity,
         FindForUpdate, PickCandidate, FindForDelete, SaveActivity, RemoveActivity,
         EnrichFromReceipt, PublishMerged, SkipUnpriced, FailCalculation,
         StoreEmission, MarkProcessed, MarkGivenUp, StatementFails, Continue, TypeOK
<1>2. CASE Receive(q)
  <2>1. PICK a \in Targets[q] :
           \/ \E t \in Trip, d \in Day : CreateActivity(q, a, t, d) \/ FindForUpdate(q, a, t, d)
           \/ \E t \in Trip : PickCandidate(q, a, t)
           \/ FindForDelete(q, a)
    BY <1>2 DEF Receive
  <2>a. ASSUME NEW t \in Trip, NEW d \in Day, CreateActivity(q, a, t, d)
        PROVE  chain'[q].pc # "idle"
    BY <2>a DEF CreateActivity, Continue, Ingested, TypeOK
  <2>b. ASSUME NEW t \in Trip, NEW d \in Day, FindForUpdate(q, a, t, d)
        PROVE  chain'[q].pc # "idle"
    BY <2>b DEF FindForUpdate, Continue, TypeOK
  <2>c. ASSUME NEW t \in Trip, PickCandidate(q, a, t) PROVE chain'[q].pc # "idle"
    BY <2>c DEF PickCandidate, Continue, TypeOK
  <2>d. ASSUME FindForDelete(q, a) PROVE chain'[q].pc # "idle"
    BY <2>d DEF FindForDelete, Continue, TypeOK
  <2>2. chain'[q].pc # "idle"
    BY <2>1, <2>a, <2>b, <2>c, <2>d
  <2> QED
    BY <1>1, <2>2 DEF Alone, Free, Idle
<1>3. CASE ~Receive(q)
  <2>1. chain[q].pc # "idle"
    BY <1>3 DEF PipelineStep, Serve, HandleActivityIngested, SaveActivity,
                RemoveActivity, EnrichFromReceipt, PublishMerged, SkipUnpriced,
                FailCalculation, StoreEmission, MarkProcessed, MarkGivenUp, StatementFails
  <2> QED
    BY <1>1, <2>1 DEF Alone, Free, Idle
<1> QED
  BY <1>2, <1>3

(* What a request has read is current after its own step. *)
LEMMA JobStep ==
    ASSUME TypeOK, JobsInv, NEW r \in Request, PipelineStep(r)
    PROVE  JobIsCurrent(r)'
<1> USE ConstantsAssumption, NullAssumption DEF Exists, Handling
<1> DEFINE j == chain[r]
<1>0. /\ JobIsCurrent(r)
      /\ j \in Job
  BY DEF JobsInv, TypeOK
<1>1. ASSUME NEW a \in Targets[r], NEW t \in Trip, NEW d \in Day,
             CreateActivity(r, a, t, d)
      PROVE  JobIsCurrent(r)'
  <2>1. /\ rows'[a] = [trip |-> t, day |-> d, status |-> "pending"]
        /\ chain'[r] = Ingested(a, t, d) /\ oldDay'[r] = Null
    BY <1>1 DEF CreateActivity, Continue, Free, TypeOK
  <2>2. rows'[a] \in Row
    BY <2>1 DEF Row, Status
  <2> QED
    BY <2>1, <2>2 DEF Ingested, JobIsCurrent
<1>2. ASSUME NEW a \in Targets[r], NEW t \in Trip, NEW d \in Day,
             FindForUpdate(r, a, t, d)
      PROVE  JobIsCurrent(r)'
  <2>1. /\ rows' = rows /\ rows[a] \in Row /\ oldDay'[r] = Null
        /\ chain'[r] = [pc |-> "save", act |-> a, old |-> rows[a].day,
                        row |-> [rows[a] EXCEPT !.trip = t, !.day = d]]
        /\ d \in Moves[rows[a].day]
    BY <1>2 DEF FindForUpdate, Continue, Free, TypeOK
  <2>2. /\ chain'[r].pc = "save" /\ chain'[r].act = a
        /\ chain'[r].old = rows[a].day
        /\ chain'[r].row = [rows[a] EXCEPT !.trip = t, !.day = d]
    BY <2>1
  <2>4. chain'[r].row.day = d
    BY <2>1, <2>2 DEF Row
  <2>3. /\ rows'[a] # Null /\ rows'[a].day = rows[a].day /\ oldDay'[r] = Null
        /\ d \in Moves[rows[a].day]
    BY <2>1
  <2> QED
    BY <2>2, <2>3, <2>4 DEF JobIsCurrent
<1>3. ASSUME NEW a \in Targets[r], NEW t \in Trip, PickCandidate(r, a, t)
      PROVE  JobIsCurrent(r)'
  BY <1>3 DEF PickCandidate, Continue, Free, TypeOK, JobIsCurrent
<1>4. ASSUME NEW a \in Targets[r], FindForDelete(r, a)
      PROVE  JobIsCurrent(r)'
  BY <1>4 DEF FindForDelete, Continue, Free, TypeOK, JobIsCurrent
<1>5. CASE SaveActivity(r)
  <2>1. /\ j.act \in Activity /\ j.row \in Row /\ j.old \in Day
        /\ j.row.trip \in Trip /\ j.row.day \in Day
    BY <1>0, <1>5, JobFields DEF SaveActivity, Row
  <2>2. /\ rows'[j.act] = j.row
        /\ chain'[r] = Ingested(j.act, j.row.trip, j.row.day)
        /\ oldDay'[r] = IF j.old = j.row.day THEN Null ELSE j.old
    BY <1>5, <2>1 DEF SaveActivity, Continue, TypeOK
  <2> QED
    BY <2>1, <2>2 DEF Ingested, JobIsCurrent
<1>6. CASE RemoveActivity(r)
  BY <1>0, <1>6 DEF RemoveActivity, Continue, Rebuild, JobIsCurrent, TypeOK
<1>7. CASE EnrichFromReceipt(r)
  <2>1. j.act \in Activity /\ j.trip \in Trip /\ rows[j.act] \in Row
    BY <1>0, <1>7, JobFields DEF EnrichFromReceipt, TypeOK, JobIsCurrent
  <2>2. /\ rows'[j.act] = [rows[j.act] EXCEPT !.trip = j.trip]
        /\ chain'[r] = [pc |-> "refetch", act |-> j.act]
        /\ oldDay'[r] = oldDay[r]
    BY <1>7, <2>1 DEF EnrichFromReceipt, Continue, TypeOK
  <2>3. oldDay[r] = Null
    BY <1>0, <1>7 DEF EnrichFromReceipt, JobIsCurrent
  <2> QED
    BY <2>1, <2>2, <2>3 DEF JobIsCurrent, Row
<1>8. CASE PublishMerged(r)
  BY <1>0, <1>8 DEF PublishMerged, Continue, Ingested, Idle, JobIsCurrent, TypeOK
<1>9. CASE SkipUnpriced(r) \/ FailCalculation(r) \/ MarkGivenUp(r)
  BY <1>0, <1>9 DEF SkipUnpriced, FailCalculation, MarkGivenUp, Continue, Idle,
                    JobIsCurrent, TypeOK
<1>10. CASE StoreEmission(r)
  BY <1>0, <1>10 DEF StoreEmission, Continue, GiveUp, JobIsCurrent, TypeOK
<1>11. CASE MarkProcessed(r)
  BY <1>0, <1>11 DEF MarkProcessed, Continue, Rebuild, JobIsCurrent, TypeOK
<1>12. CASE StatementFails(r)
  <2>1. PICK i \in AfterError(j) : Continue(r, i)
    BY <1>12 DEF StatementFails
  <2>2. chain'[r] = i /\ rows' = rows /\ oldDay' = oldDay
    BY <1>12, <2>1 DEF StatementFails, Continue, TypeOK
  <2>3. CASE j.pc = "price"
    <3>1. i \in {GiveUp(j.act, "skipped"), Idle, GiveUp(j.act, "failed")}
      BY <2>1, <2>3 DEF AfterError
    <3> QED
      BY <1>0, <2>2, <2>3, <3>1 DEF GiveUp, Idle, JobIsCurrent
  <2>4. CASE j.pc = "mark"
    <3>1. i = Rebuild(j.day)
      BY <2>1, <2>4 DEF AfterError
    <3> QED
      BY <1>0, <2>2, <2>4, <3>1 DEF Rebuild, JobIsCurrent
  <2>5. CASE j.pc \notin {"price", "mark"}
    <3>1. i = Idle
      BY <2>1, <2>5 DEF AfterError
    <3>2. oldDay[r] = Null \/ j.pc = "giveup"
      BY <1>0, <1>12, <2>5 DEF JobIsCurrent, StatementFails
    <3> QED
      BY <1>0, <2>2, <2>5, <3>1, <3>2 DEF Idle, JobIsCurrent
  <2> QED
    BY <2>3, <2>4, <2>5
<1> QED
  BY <1>1, <1>2, <1>3, <1>4, <1>5, <1>6, <1>7, <1>8, <1>9, <1>10, <1>11, <1>12
     DEF PipelineStep, Receive, Serve, HandleActivityIngested

(* Alone, no request works with what it read in vain. *)
LEMMA JobsStep ==
    ASSUME TypeOK, JobsInv, Alone, Alone', [TNext]_tvars
    PROVE  JobsInv'
<1>1. ASSUME NEW q \in Request, PipelineStep(q) PROVE JobsInv'
  <2>1. ASSUME NEW r \in Request, r # q PROVE JobIsCurrent(r)'
    <3>1. chain'[r] = Idle /\ oldDay'[r] = Null
      BY <1>1, <2>1, OthersAreFree DEF Free
    <3> QED
      BY <3>1 DEF JobIsCurrent, Idle
  <2> QED
    BY <1>1, <2>1, JobStep DEF JobsInv
<1>2. ASSUME UNCHANGED rows,
             \A r \in Request : /\ chain'[r] = chain[r] \/ chain'[r] = Idle
                                /\ oldDay'[r] = oldDay[r] \/ oldDay'[r] = Null
      PROVE  JobsInv'
  <2> SUFFICES ASSUME NEW r \in Request PROVE JobIsCurrent(r)'
    BY DEF JobsInv
  <2>1. JobIsCurrent(r)
    BY DEF JobsInv
  <2> QED
    BY <1>2, <2>1 DEF JobIsCurrent, Idle, Exists, Handling
<1>3. ASSUME NEW g \in Rebuilder, RecomputeDay(g) \/ RecomputeFails(g) PROVE JobsInv'
  <2>1. g[1] \in Request
    BY DEF Rebuilder
  <2> QED
    BY <1>2, <1>3, <2>1
       DEF RecomputeDay, AggregateDay, UpsertDaily, ReadWeek, UpsertWeekly, ReadMonth,
           UpsertMonthly, EndOf, FinishRebuild, FinishOldDay, RecomputeFails, Continue,
           TypeOK, vars
<1>4. ASSUME NEW p \in Process, CrashProcess(p) PROVE JobsInv'
  BY <1>2, <1>4 DEF CrashProcess, Crash, TypeOK
<1>5. CASE UNCHANGED tvars
  BY <1>2, <1>5 DEF tvars, vars
<1> QED
  BY <1>1, <1>3, <1>4, <1>5 DEF TNext

-----------------------------------------------------------------------------
(* RecomputeDay works on the truth *)

Contributes(a, d) ==
    /\ Exists(a)
    /\ rows[a].day = d
    /\ rows[a].status = "processed"
    /\ emissions[a] # Null

(* The terms of a day depend only on the activities that contribute to it. *)
LEMMA DayTermsLocal ==
    ASSUME NEW d \in Day,
           \A a \in Activity : \/ rows'[a] = rows[a] /\ emissions'[a] = emissions[a]
                               \/ ~Contributes(a, d) /\ ~Contributes(a, d)'
    PROVE  DayTerms(d)' = DayTerms(d)
<1>1. ASSUME NEW x PROVE x \in DayTerms(d)' <=> x \in DayTerms(d)
  <2>1. x \in DayTerms(d) <=>
          \E a \in Activity : /\ Contributes(a, d)
                              /\ x = [act |-> a, trip |-> rows[a].trip, priced |-> emissions[a]]
    BY DEF DayTerms, Contributes
  <2>2. x \in DayTerms(d)' <=>
          \E a \in Activity : /\ Contributes(a, d)'
                              /\ x = [act |-> a, trip |-> rows'[a].trip, priced |-> emissions'[a]]
    BY DEF DayTerms, Contributes
  <2>3. ASSUME NEW a \in Activity
        PROVE  /\ Contributes(a, d)' <=> Contributes(a, d)
               /\ Contributes(a, d) => rows'[a] = rows[a] /\ emissions'[a] = emissions[a]
    BY DEF Contributes, Exists
  <2> QED
    BY <2>1, <2>2, <2>3
<1> QED
  BY <1>1

(* Two goroutines that run RecomputeDay belong to one request, and work on   *)
(* different days.                                                           *)
LEMMA DaysDiffer ==
    ASSUME TypeOK, JobsInv, Alone,
           NEW g \in Rebuilder, NEW h \in Rebuilder, g # h, Rebuilding(g), Rebuilding(h)
    PROVE  g[1] = h[1] /\ DayOf(g) # DayOf(h)
<1>1. /\ g[1] \in Request /\ h[1] \in Request
      /\ g[2] \in {"chain", "oldDay"} /\ h[2] \in {"chain", "oldDay"}
      /\ g = <<g[1], g[2]>> /\ h = <<h[1], h[2]>>
  BY DEF Rebuilder
<1>2. ~Free(g[1]) /\ ~Free(h[1])
  BY DEF Rebuilding, Free, Idle
<1>3. g[1] = h[1]
  BY <1>1, <1>2 DEF Alone
<1>4. JobIsCurrent(g[1])
  BY <1>1 DEF JobsInv
<1>5. g[2] # h[2]
  BY <1>1, <1>3
<1> QED
  BY <1>1, <1>3, <1>4, <1>5 DEF JobIsCurrent, Rebuilding, DayOf

(* While a request rebuilds a day, what its other goroutine does concerns    *)
(* another day.                                                              *)
LEMMA RebuildUndisturbed ==
    ASSUME TypeOK, JobsInv, Alone, Alone', NEW q \in Request, PipelineStep(q),
           NEW g \in Rebuilder, Rebuilding(g), NEW d \in Day, d = DayOf(g)
    PROVE  Rebuilding(g)' /\ DayOf(g)' = d /\ DayTerms(d)' = DayTerms(d)
<1> DEFINE j == chain[q]
<1>1. g[1] \in Request /\ g[2] \in {"chain", "oldDay"}
  BY DEF Rebuilder
<1>2. ~Free(g[1])
  BY DEF Rebuilding, Free, Idle
<1>3. g[1] = q
  BY <1>1, <1>2, OthersAreFree
<1>4. ~Receive(q)
  BY <1>2, <1>3 DEF Receive, CreateActivity, FindForUpdate, PickCandidate, FindForDelete
<1>5. JobIsCurrent(q) /\ j \in Job
  BY DEF JobsInv, TypeOK
<1>6. g[2] = "oldDay" /\ oldDay[q] = d /\ d # Null
  <2>1. CASE g[2] = "chain"
    <3>1. j.pc = "rebuild"
      BY <1>3, <2>1 DEF Rebuilding
    <3> QED
      BY <1>4, <3>1
         DEF PipelineStep, Serve, HandleActivityIngested, SaveActivity, RemoveActivity,
             EnrichFromReceipt, PublishMerged, SkipUnpriced, FailCalculation,
             StoreEmission, MarkProcessed, MarkGivenUp, StatementFails
  <2> QED
    BY <1>1, <1>3, <2>1 DEF Rebuilding, DayOf
<1>7. HandleActivityIngested(q) \/ StatementFails(q)
  BY <1>4, <1>5, <1>6
     DEF JobIsCurrent, Handling, PipelineStep, Serve, SaveActivity, RemoveActivity,
         EnrichFromReceipt, PublishMerged
<1>8. oldDay' = oldDay
  BY <1>7 DEF HandleActivityIngested, SkipUnpriced, FailCalculation, StoreEmission,
              MarkProcessed, MarkGivenUp, StatementFails
<1>9. Rebuilding(g)' /\ DayOf(g)' = d
  BY <1>3, <1>6, <1>8 DEF Rebuilding, DayOf
<1>10. DayTerms(d)' = DayTerms(d)
  <2>1. CASE StatementFails(q)
    BY <2>1, DayTermsLocal DEF StatementFails
  <2>2. CASE HandleActivityIngested(q)
    <3>1. PICK a \in Activity : a = j.act /\ rows[a].day # d
      BY <1>5, <1>6, <2>2, JobFields
         DEF HandleActivityIngested, SkipUnpriced, FailCalculation, StoreEmission,
             MarkProcessed, MarkGivenUp, JobIsCurrent, Handling
    <3>2. \A b \in Activity \ {a} : rows'[b] = rows[b] /\ emissions'[b] = emissions[b]
      BY <2>2, <3>1
         DEF HandleActivityIngested, SkipUnpriced, FailCalculation, StoreEmission,
             MarkProcessed, MarkGivenUp, SetStatus, TypeOK
    <3>3. rows' = rows \/ \E s \in Status : SetStatus(a, s)
      BY <1>5, <2>2, <3>1, JobFields
         DEF HandleActivityIngested, SkipUnpriced, FailCalculation, StoreEmission,
             MarkProcessed, MarkGivenUp, Status
    <3>4. rows'[a] # Null => rows'[a].day = rows[a].day
      BY <3>3, SetStatusKeepsRows DEF TypeOK
    <3>5. ~Contributes(a, d) /\ ~Contributes(a, d)'
      BY <3>1, <3>4 DEF Contributes, Exists
    <3> QED
      BY <3>2, <3>5, DayTermsLocal
  <2> QED
    BY <1>7, <2>1, <2>2
<1> QED
  BY <1>9, <1>10

(* A step of one RecomputeDay leaves every other one where it is. *)
LEMMA OtherRebuilds ==
    ASSUME TimelineTypeOK, NEW h \in Rebuilder, RecomputeDay(h) \/ RecomputeFails(h),
           NEW g \in Rebuilder, g # h
    PROVE  /\ Rebuilding(g)' <=> Rebuilding(g)
           /\ Rebuilding(g) => DayOf(g)' = DayOf(g)
           /\ work'[g] = work[g]
<1>1. /\ g[1] \in Request /\ h[1] \in Request
      /\ g[2] \in {"chain", "oldDay"} /\ h[2] \in {"chain", "oldDay"}
      /\ g = <<g[1], g[2]>> /\ h = <<h[1], h[2]>>
  BY DEF Rebuilder
<1>2. work'[g] = work[g]
  BY DEF RecomputeDay, AggregateDay, UpsertDaily, ReadWeek, UpsertWeekly, ReadMonth,
         UpsertMonthly, RecomputeFails, Advance, TimelineTypeOK
<1>3. /\ h[2] = "chain" => /\ oldDay' = oldDay
                           /\ \A r \in Request \ {h[1]} : chain'[r] = chain[r]
      /\ h[2] = "oldDay" => /\ chain' = chain
                            /\ \A r \in Request \ {h[1]} : oldDay'[r] = oldDay[r]
  BY <1>1 DEF RecomputeDay, AggregateDay, UpsertDaily, ReadWeek, UpsertWeekly, ReadMonth,
              UpsertMonthly, EndOf, FinishRebuild, FinishOldDay, RecomputeFails, Continue,
              TimelineTypeOK, TypeOK, vars
<1> QED
  BY <1>1, <1>2, <1>3 DEF Rebuilding, DayOf

Later == {"readWeek", "upsertWeek", "readMonth", "upsertMonth"}

\* What RecomputeDay has aggregated is the truth of its day, and once written
\* the daily summary is.
DayWork(g) ==
    /\ ~Rebuilding(g) => work[g] = Start
    /\ Rebuilding(g) =>
          /\ work[g].pc = "upsertDay" => work[g].terms = DayTerms(DayOf(g))
          /\ work[g].pc \in Later => daily[DayOf(g)] = DayTerms(DayOf(g))

DayWorkInv == \A g \in Rebuilder : DayWork(g)

(* What a rebuild has aggregated or stored stays the truth of its day. *)
LEMMA DayWorkStep ==
    ASSUME TimelineTypeOK, JobsInv, DayWorkInv, Alone, Alone', [TNext]_tvars
    PROVE  DayWorkInv'
<1> SUFFICES ASSUME NEW g \in Rebuilder PROVE DayWork(g)'
  BY DEF DayWorkInv
<1>1. DayWork(g) /\ TypeOK
  BY DEF DayWorkInv, TimelineTypeOK
<1>2. ASSUME NEW q \in Request, PipelineStep(q), UNCHANGED <<summaries, work>>
      PROVE  DayWork(g)'
  <2>1. CASE ~Rebuilding(g)
    BY <1>1, <1>2, <2>1 DEF DayWork, Start, Later
  <2>2. CASE Rebuilding(g)
    <3> DEFINE d == DayOf(g)
    <3>1. d \in Day
      BY <1>1, <2>2, DayOfType
    <3>2. Rebuilding(g)' /\ DayOf(g)' = d /\ DayTerms(d)' = DayTerms(d)
      BY <1>1, <1>2, <2>2, <3>1, RebuildUndisturbed
    <3>3. DayTerms(DayOf(g))' = DayTerms(d)
      BY <3>2 DEF DayTerms
    <3> QED
      BY <1>1, <1>2, <2>2, <3>2, <3>3 DEF DayWork, summaries
  <2> QED
    BY <2>1, <2>2
<1>3. ASSUME NEW h \in Rebuilder, RecomputeDay(h) \/ RecomputeFails(h), h # g
      PROVE  DayWork(g)'
  <2>1. /\ Rebuilding(g)' <=> Rebuilding(g)
        /\ Rebuilding(g) => DayOf(g)' = DayOf(g)
        /\ work'[g] = work[g]
    BY <1>3, OtherRebuilds
  <2>2. CASE ~Rebuilding(g)
    BY <1>1, <2>1, <2>2 DEF DayWork
  <2>3. CASE Rebuilding(g)
    <3>1. DayOf(g) \in Day
      BY <1>1, <2>3, DayOfType
    <3>2. UNCHANGED <<rows, emissions>>
      BY <1>3 DEF RecomputeDay, AggregateDay, UpsertDaily, ReadWeek, UpsertWeekly,
                  ReadMonth, UpsertMonthly, EndOf, FinishRebuild, FinishOldDay,
                  RecomputeFails, vars
    <3>3. DayTerms(DayOf(g))' = DayTerms(DayOf(g))
      BY <2>1, <2>3, <3>2 DEF DayTerms, Exists
    <3>4. daily'[DayOf(g)] = daily[DayOf(g)]
      <4>1. CASE UpsertDaily(h)
        <5>1. Rebuilding(h)
          BY <4>1 DEF UpsertDaily, At
        <5>2. DayOf(h) # DayOf(g)
          BY <1>1, <1>3, <2>3, <5>1, DaysDiffer
        <5> QED
          BY <3>1, <4>1, <5>2 DEF UpsertDaily, TimelineTypeOK
      <4>2. CASE ~UpsertDaily(h)
        BY <1>3, <4>2 DEF RecomputeDay, AggregateDay, ReadWeek, UpsertWeekly, ReadMonth,
                          UpsertMonthly, RecomputeFails, summaries
      <4> QED
        BY <4>1, <4>2
    <3> QED
      BY <1>1, <2>1, <2>3, <3>3, <3>4 DEF DayWork
  <2> QED
    BY <2>2, <2>3
<1>4. ASSUME RecomputeDay(g) PROVE DayWork(g)'
  <2>1. Rebuilding(g) /\ g[1] \in Request
    BY <1>4 DEF RecomputeDay, AggregateDay, UpsertDaily, ReadWeek, UpsertWeekly,
                ReadMonth, UpsertMonthly, At, Rebuilder
  <2>2. DayOf(g) \in Day
    BY <1>1, <2>1, DayOfType
  <2>3. CASE UpsertMonthly(g)
    <3>1. ~Rebuilding(g)'
      BY <1>1, <2>1, <2>3 DEF UpsertMonthly, EndOf, FinishRebuild, FinishOldDay, Continue,
                              Idle, Rebuilding, TypeOK
    <3> QED
      BY <2>3, <3>1 DEF UpsertMonthly, Advance, DayWork, TimelineTypeOK
  <2>4. CASE ~UpsertMonthly(g)
    <3>1. UNCHANGED vars
      BY <1>4, <2>4 DEF RecomputeDay, AggregateDay, UpsertDaily, ReadWeek, UpsertWeekly,
                        ReadMonth
    <3>2. /\ Rebuilding(g)'
          /\ DayOf(g)' = DayOf(g)
          /\ DayTerms(DayOf(g))' = DayTerms(DayOf(g))
      BY <2>1, <3>1 DEF Rebuilding, DayOf, DayTerms, Exists, vars
    <3>3. CASE AggregateDay(g)
      BY <3>2, <3>3 DEF AggregateDay, Advance, DayWork, Later, TimelineTypeOK
    <3>4. CASE UpsertDaily(g)
      <4>1. work[g].terms = DayTerms(DayOf(g)) /\ work'[g].pc = "readWeek"
        BY <1>1, <2>1, <3>4 DEF UpsertDaily, At, Advance, DayWork, TimelineTypeOK
      <4>2. daily'[DayOf(g)] = work[g].terms
        BY <2>2, <3>4 DEF UpsertDaily, TimelineTypeOK
      <4> QED
        BY <3>2, <4>1, <4>2 DEF DayWork
    <3>5. CASE ReadWeek(g) \/ UpsertWeekly(g) \/ ReadMonth(g)
      <4>1. /\ work[g].pc \in Later /\ work'[g].pc \in Later /\ work'[g].pc # "upsertDay"
            /\ daily' = daily
        BY <3>5 DEF ReadWeek, UpsertWeekly, ReadMonth, At, Advance, Later, TimelineTypeOK,
                    summaries
      <4> QED
        BY <1>1, <2>1, <3>2, <4>1 DEF DayWork
    <3> QED
      BY <1>4, <2>4, <3>3, <3>4, <3>5 DEF RecomputeDay
  <2> QED
    BY <2>3, <2>4
<1>5. ASSUME RecomputeFails(g) PROVE DayWork(g)'
  <2>1. ~Rebuilding(g)' /\ work'[g] = Start
    BY <1>1, <1>5 DEF RecomputeFails, Rebuilder, Rebuilding, Continue, Idle, Advance,
                      TimelineTypeOK, TypeOK
  <2> QED
    BY <2>1 DEF DayWork
<1>6. ASSUME NEW p \in Process, CrashProcess(p) PROVE DayWork(g)'
  <2>1. g[1] \in Request
    BY DEF Rebuilder
  <2>2. CASE ProcessOf[g[1]] = p
    <3>1. ~Rebuilding(g)' /\ work'[g] = Start
      BY <1>6, <2>1, <2>2 DEF CrashProcess, Crash, Rebuilding, Idle
    <3> QED
      BY <3>1 DEF DayWork
  <2>3. CASE ProcessOf[g[1]] # p
    <3>1. /\ Rebuilding(g)' <=> Rebuilding(g)
          /\ DayOf(g)' = DayOf(g)
          /\ work'[g] = work[g] /\ daily' = daily
          /\ DayTerms(DayOf(g))' = DayTerms(DayOf(g))
      BY <1>6, <2>1, <2>3 DEF CrashProcess, Crash, Rebuilding, DayOf, DayTerms, Exists,
                              summaries
    <3> QED
      BY <1>1, <3>1 DEF DayWork
  <2> QED
    BY <2>2, <2>3
<1>7. CASE UNCHANGED tvars
  BY <1>1, <1>7 DEF tvars, vars, summaries, DayWork, Rebuilding, DayOf, DayTerms, Exists
<1> QED
  BY <1>2, <1>3, <1>4, <1>5, <1>6, <1>7 DEF TNext

\* The invariant of one request at a time.
DayInv == TimelineTypeOK /\ JobsInv /\ DayWorkInv

(* Types, current jobs and truthful rebuilds: the invariant of the days. *)
LEMMA DayInvariant == TSpec /\ []Alone => []DayInv
<1>1. TInit => JobsInv /\ DayWorkInv
  BY DEF TInit, Init, JobsInv, JobIsCurrent, Idle, DayWorkInv, DayWork, Rebuilder,
         Rebuilding
<1>2. TimelineTypeOK /\ JobsInv /\ DayWorkInv /\ Alone /\ Alone' /\ [TNext]_tvars
         => JobsInv' /\ DayWorkInv'
  BY JobsStep, DayWorkStep DEF TimelineTypeOK
<1> QED
  BY <1>1, <1>2, TimelineTypeCorrect, PTL DEF TSpec, DayInv

(* A summary that is stored is shown as it is. *)
LEMMA ShownAsStored ==
    ASSUME NEW s \in DaySummary \cup RollupSummary
    PROVE  OrEmpty(s) = s
BY NoSummaryAssumption DEF OrEmpty

(* While a user's requests do not overlap, the daily summaries implement the *)
(* ledger, whatever fails or crashes: a summary only ever changes to what    *)
(* the activities of its day say at that moment.                             *)
THEOREM DailySummariesImplementLedger == TSpec /\ []Alone => ImplementsLedger
<1>1. TInit => Ledger!Init
  BY DEF TInit, Init, Ledger!Init, Ledger!Empty, DayTerms, Exists, GetDailySummary, OrEmpty
<1>2. DayInv /\ DayInv' /\ [TNext]_tvars =>
         [Ledger!Next]_<<[d \in Day |-> DayTerms(d)], [d \in Day |-> GetDailySummary(d)]>>
  <2> SUFFICES ASSUME DayInv, DayInv', [TNext]_tvars
               PROVE  Ledger!Next
    OBVIOUS
  <2>1. ASSUME NEW g \in Rebuilder, UpsertDaily(g) PROVE Ledger!Next
    <3>1. PICK d \in Day : d = DayOf(g)
      BY <2>1, DayOfType DEF UpsertDaily, At, DayInv, TimelineTypeOK
    <3>2. /\ work[g].terms = DayTerms(d)
          /\ work[g].terms \in DaySummary
      BY <2>1, <3>1, WorkFields DEF UpsertDaily, At, DayInv, DayWorkInv, DayWork, TimelineTypeOK
    <3>3. daily' = [daily EXCEPT ![d] = DayTerms(d)]
      BY <2>1, <3>1, <3>2 DEF UpsertDaily
    <3>4. \A e \in Day : GetDailySummary(e)' = IF e = d THEN DayTerms(d) ELSE GetDailySummary(e)
      BY <3>2, <3>3, ShownAsStored DEF GetDailySummary, DayInv, TimelineTypeOK
    <3>5. \A e \in Day : DayTerms(e)' = DayTerms(e)
      BY <2>1 DEF UpsertDaily, vars, DayTerms, Exists
    <3>6. Ledger!Refresh(d)
      BY <3>4, <3>5 DEF Ledger!Refresh
    <3> QED
      BY <3>6 DEF Ledger!Next
  <2>2. ASSUME UNCHANGED daily PROVE Ledger!Next
    <3>1. \A d \in Day : DayTerms(d)' \in SUBSET Term
      BY DEF DayInv, TimelineTypeOK, DayTerms, Term, TypeOK, Exists, Row
    <3>2. \A d \in Day : GetDailySummary(d)' = GetDailySummary(d)
      BY <2>2 DEF GetDailySummary
    <3>3. Ledger!Change
      BY <3>1, <3>2 DEF Ledger!Change
    <3> QED
      BY <3>3 DEF Ledger!Next
  <2> QED
    BY <2>1, <2>2 DEF TNext, RecomputeDay, AggregateDay, ReadWeek, UpsertWeekly, ReadMonth,
                      UpsertMonthly, RecomputeFails, CrashProcess, tvars, summaries
<1> QED
  BY <1>1, <1>2, DayInvariant, PTL DEF TSpec, ImplementsLedger, Ledger!Spec

-----------------------------------------------------------------------------
(* Weeks and months *)

\* When a request has moved an activity, the two rebuilds it has started do not
\* run at one time in one week or month.
RebuildsApart ==
    \A r \in Request :
        chain[r].pc = "rebuild" /\ oldDay[r] # Null
            => /\ WeekOf[chain[r].day] # WeekOf[oldDay[r]]
               /\ MonthOf[chain[r].day] # MonthOf[oldDay[r]]

(* A roll-up depends only on the days it sums. *)
LEMMA RollupLocal ==
    ASSUME NEW D \in SUBSET Day, \A d \in D : daily'[d] = daily[d]
    PROVE  RollupTerms(D)' = RollupTerms(D)
<1>1. \A d \in D : OrEmpty(daily[d])' = OrEmpty(daily[d])
  BY DEF OrEmpty
<1>2. ASSUME NEW x PROVE x \in RollupTerms(D)' <=> x \in RollupTerms(D)
  <2>1. x \in RollupTerms(D) <=> \E d \in D : \E y \in OrEmpty(daily[d]) : x = <<d, y>>
    BY DEF RollupTerms
  <2>2. x \in RollupTerms(D)' <=> \E d \in D : \E y \in OrEmpty(daily[d])' : x = <<d, y>>
    BY DEF RollupTerms
  <2> QED
    BY <1>1, <2>1, <2>2
<1> QED
  BY <1>2

(* Kept apart, two goroutines never roll up the same week or month. *)
LEMMA PeriodsDiffer ==
    ASSUME TypeOK, JobsInv, Alone, RebuildsApart,
           NEW g \in Rebuilder, NEW h \in Rebuilder, g # h, Rebuilding(g), Rebuilding(h)
    PROVE  /\ WeekOf[DayOf(g)] # WeekOf[DayOf(h)]
           /\ MonthOf[DayOf(g)] # MonthOf[DayOf(h)]
<1>1. g[1] = h[1]
  BY DaysDiffer
<1>2. /\ g[1] \in Request /\ h[1] \in Request
      /\ g[2] \in {"chain", "oldDay"} /\ h[2] \in {"chain", "oldDay"}
      /\ g = <<g[1], g[2]>> /\ h = <<h[1], h[2]>>
  BY DEF Rebuilder
<1>3. g[2] # h[2]
  BY <1>1, <1>2
<1> QED
  BY <1>1, <1>2, <1>3 DEF RebuildsApart, Rebuilding, DayOf

\* What RecomputeDay has read for a period is the sum of its days, and once
\* written the summary of the week is.
WeekWork(g) ==
    Rebuilding(g) =>
        LET w == WeekOf[DayOf(g)]
            m == MonthOf[DayOf(g)]
        IN  /\ work[g].pc = "upsertWeek" => work[g].terms = RollupTerms(WeekDays(w))
            /\ work[g].pc \in {"readMonth", "upsertMonth"}
                   => weekly[w] = RollupTerms(WeekDays(w))
            /\ work[g].pc = "upsertMonth" => work[g].terms = RollupTerms(MonthDays(m))

WeekWorkInv == \A g \in Rebuilder : WeekWork(g)

(* What a rebuild has summed or stored stays the sum of its week and month. *)
LEMMA WeekWorkStep ==
    ASSUME DayInv, WeekWorkInv, Alone, Alone', RebuildsApart, [TNext]_tvars
    PROVE  WeekWorkInv'
<1> SUFFICES ASSUME NEW g \in Rebuilder, Rebuilding(g)' PROVE WeekWork(g)'
  BY DEF WeekWorkInv, WeekWork
<1>1. WeekWork(g) /\ DayWork(g) /\ TypeOK /\ JobsInv /\ TimelineTypeOK
  BY DEF WeekWorkInv, DayInv, DayWorkInv, TimelineTypeOK
<1> DEFINE Kept == /\ Rebuilding(g) /\ DayOf(g)' = DayOf(g)
                   /\ daily' = daily /\ weekly' = weekly
<1>2. ASSUME Kept
      PROVE  LET w == WeekOf[DayOf(g)]
                 m == MonthOf[DayOf(g)]
             IN  /\ RollupTerms(WeekDays(WeekOf[DayOf(g)]))' = RollupTerms(WeekDays(w))
                 /\ RollupTerms(MonthDays(MonthOf[DayOf(g)]))' = RollupTerms(MonthDays(m))
  BY <1>2 DEF RollupTerms, WeekDays, MonthDays, OrEmpty
<1>3. ASSUME Kept, work'[g] = work[g] PROVE WeekWork(g)'
  BY <1>1, <1>2, <1>3 DEF WeekWork
<1>4. ASSUME NEW q \in Request, PipelineStep(q), UNCHANGED <<summaries, work>>
      PROVE  WeekWork(g)'
  <2>1. CASE Rebuilding(g)
    <3>1. DayOf(g) \in Day
      BY <1>1, <2>1, DayOfType
    <3>2. DayOf(g)' = DayOf(g)
      BY <1>1, <1>4, <2>1, <3>1, RebuildUndisturbed
    <3> QED
      BY <1>3, <1>4, <2>1, <3>2 DEF summaries
  <2>2. CASE ~Rebuilding(g)
    BY <1>1, <1>4, <2>2 DEF DayWork, Start, WeekWork
  <2> QED
    BY <2>1, <2>2
<1>5. ASSUME NEW h \in Rebuilder, RecomputeDay(h) \/ RecomputeFails(h), h # g
      PROVE  WeekWork(g)'
  <2>1. /\ Rebuilding(g)
        /\ DayOf(g)' = DayOf(g)
        /\ work'[g] = work[g]
    BY <1>1, <1>5, OtherRebuilds
  <2>2. PICK d \in Day : d = DayOf(g)
    BY <1>1, <2>1, DayOfType
  <2>3. CASE UpsertDaily(h)
    <3>1. Rebuilding(h)
      BY <2>3 DEF UpsertDaily, At
    <3>2. DayOf(h) \notin WeekDays(WeekOf[d]) \cup MonthDays(MonthOf[d])
      BY <1>1, <1>5, <2>1, <2>2, <3>1, PeriodsDiffer DEF WeekDays, MonthDays
    <3>3. \A e \in WeekDays(WeekOf[d]) \cup MonthDays(MonthOf[d]) : daily'[e] = daily[e]
      BY <1>1, <2>3, <3>2 DEF UpsertDaily, WeekDays, MonthDays, TimelineTypeOK
    <3>4. /\ RollupTerms(WeekDays(WeekOf[d]))' = RollupTerms(WeekDays(WeekOf[d]))
          /\ RollupTerms(MonthDays(MonthOf[d]))' = RollupTerms(MonthDays(MonthOf[d]))
      <4>1. WeekDays(WeekOf[d]) \in SUBSET Day /\ MonthDays(MonthOf[d]) \in SUBSET Day
        BY DEF WeekDays, MonthDays
      <4> QED
        BY <3>3, <4>1, RollupLocal
    <3>5. weekly' = weekly
      BY <2>3 DEF UpsertDaily
    <3>6. /\ RollupTerms(WeekDays(WeekOf[DayOf(g)]))' = RollupTerms(WeekDays(WeekOf[d]))'
          /\ RollupTerms(MonthDays(MonthOf[DayOf(g)]))' = RollupTerms(MonthDays(MonthOf[d]))'
      BY <2>1, <2>2 DEF RollupTerms, WeekDays, MonthDays
    <3> QED
      BY <1>1, <2>1, <2>2, <3>4, <3>5, <3>6 DEF WeekWork
  <2>4. CASE UpsertWeekly(h)
    <3>1. Rebuilding(h)
      BY <2>4 DEF UpsertWeekly, At
    <3>2. WeekOf[DayOf(h)] # WeekOf[d]
      BY <1>1, <1>5, <2>1, <2>2, <3>1, PeriodsDiffer
    <3>3. daily' = daily /\ weekly'[WeekOf[d]] = weekly[WeekOf[d]]
      BY <1>1, <2>4, <3>2, CalendarAssumption DEF UpsertWeekly, TimelineTypeOK
    <3>4. /\ RollupTerms(WeekDays(WeekOf[DayOf(g)]))' = RollupTerms(WeekDays(WeekOf[d]))
          /\ RollupTerms(MonthDays(MonthOf[DayOf(g)]))' = RollupTerms(MonthDays(MonthOf[d]))
      BY <2>1, <2>2, <3>3 DEF RollupTerms, WeekDays, MonthDays, OrEmpty
    <3> QED
      BY <1>1, <2>1, <2>2, <3>3, <3>4 DEF WeekWork
  <2>5. CASE ~UpsertDaily(h) /\ ~UpsertWeekly(h)
    <3>1. daily' = daily /\ weekly' = weekly
      BY <1>5, <2>5 DEF RecomputeDay, AggregateDay, ReadWeek, ReadMonth, UpsertMonthly,
                        RecomputeFails, summaries
    <3> QED
      BY <1>3, <2>1, <3>1
  <2> QED
    BY <2>3, <2>4, <2>5
<1>6. ASSUME RecomputeDay(g) PROVE WeekWork(g)'
  <2>1. Rebuilding(g) /\ g[1] \in Request
    BY <1>6 DEF RecomputeDay, AggregateDay, UpsertDaily, ReadWeek, UpsertWeekly,
                ReadMonth, UpsertMonthly, At, Rebuilder
  <2>2. CASE UpsertMonthly(g)
    BY <1>1, <2>1, <2>2 DEF UpsertMonthly, EndOf, FinishRebuild, FinishOldDay, Continue,
                            Idle, Rebuilding, TypeOK
  <2>3. CASE AggregateDay(g) \/ UpsertDaily(g)
    <3>1. work'[g].pc \in {"upsertDay", "readWeek"}
      BY <1>1, <2>3 DEF AggregateDay, UpsertDaily, Advance, TimelineTypeOK
    <3> QED
      BY <3>1 DEF WeekWork
  <2>4. CASE ReadWeek(g)
    <3>1. /\ Kept
          /\ work'[g] = [pc |-> "upsertWeek",
                         terms |-> RollupTerms(WeekDays(WeekOf[DayOf(g)]))]
      BY <1>1, <2>1, <2>4 DEF ReadWeek, Advance, DayOf, TimelineTypeOK, vars, summaries
    <3> QED
      BY <1>2, <3>1 DEF WeekWork
  <2>5. CASE UpsertWeekly(g)
    <3> DEFINE w == WeekOf[DayOf(g)]
    <3>1. w \in Week
      BY <1>1, <2>1, DayOfType
    <3>2. work[g].terms = RollupTerms(WeekDays(w))
      BY <1>1, <2>1, <2>5 DEF UpsertWeekly, At, WeekWork
    <3>3. /\ weekly'[w] = RollupTerms(WeekDays(w))
          /\ work'[g].pc = "readMonth"
          /\ daily' = daily
          /\ DayOf(g)' = DayOf(g)
      BY <1>1, <2>5, <3>1, <3>2 DEF UpsertWeekly, Advance, TimelineTypeOK, vars, DayOf
    <3>4. RollupTerms(WeekDays(WeekOf[DayOf(g)]))' = RollupTerms(WeekDays(w))
      BY <3>3 DEF RollupTerms, WeekDays, OrEmpty
    <3> QED
      BY <3>3, <3>4 DEF WeekWork
  <2>6. CASE ReadMonth(g)
    <3>1. /\ Kept
          /\ work[g].pc = "readMonth"
          /\ work'[g] = [pc |-> "upsertMonth",
                         terms |-> RollupTerms(MonthDays(MonthOf[DayOf(g)]))]
      BY <1>1, <2>1, <2>6 DEF ReadMonth, At, Advance, DayOf, TimelineTypeOK, vars, summaries
    <3> QED
      BY <1>1, <1>2, <2>1, <3>1 DEF WeekWork
  <2> QED
    BY <1>6, <2>2, <2>3, <2>4, <2>5, <2>6 DEF RecomputeDay
<1>7. ASSUME RecomputeFails(g) PROVE WeekWork(g)'
  BY <1>1, <1>7 DEF RecomputeFails, Rebuilder, Rebuilding, Continue, Idle, TypeOK
<1>8. ASSUME NEW p \in Process, CrashProcess(p) PROVE WeekWork(g)'
  <2>1. g[1] \in Request
    BY DEF Rebuilder
  <2>2. ProcessOf[g[1]] # p
    BY <1>8, <2>1 DEF CrashProcess, Crash, Rebuilding, Idle
  <2>3. Kept /\ work'[g] = work[g]
    BY <1>8, <2>1, <2>2 DEF CrashProcess, Crash, Rebuilding, DayOf, summaries
  <2> QED
    BY <1>3, <2>3
<1>9. CASE UNCHANGED tvars
  <2>1. Kept /\ work'[g] = work[g]
    BY <1>9 DEF tvars, vars, summaries, Rebuilding, DayOf
  <2> QED
    BY <1>3, <2>1
<1> QED
  BY <1>4, <1>5, <1>6, <1>7, <1>8, <1>9 DEF TNext

(* Rebuilding a day repairs it and its week, whatever a crash, an error or a *)
(* missed event left there, while a user's requests do not overlap and the   *)
(* two rebuilds of a move do not meet in one period.                         *)
THEOREM RebuildRepairs == TSpec /\ []Alone /\ []RebuildsApart => []RebuildHeals
<1>1. TInit => WeekWorkInv
  BY DEF TInit, Init, WeekWorkInv, WeekWork, Rebuilding, Rebuilder, Idle
<1>2. DayInv /\ WeekWorkInv /\ Alone /\ Alone' /\ RebuildsApart /\ [TNext]_tvars
         => WeekWorkInv'
  BY WeekWorkStep
<1>3. DayInv /\ WeekWorkInv => RebuildHeals
  BY DEF DayInv, DayWorkInv, DayWork, WeekWorkInv, WeekWork, RebuildHeals, Later
<1> QED
  BY <1>1, <1>2, <1>3, DayInvariant, PTL DEF TSpec

-----------------------------------------------------------------------------
(* The summaries are exact *)

Unpriceable == NoFactor \cup BadInput

\* No activity that has an emission is changed to a content without a price.
\* (Its handler would skip it without an event, and its day keep the old sum.)
PricedStaysPriced ==
    \A a \in Activity : Exists(a) /\ rows[a].trip \in Unpriceable => emissions[a] = Null

\* Who will bring the summary of a day up to date: a rebuild that has not
\* written it, or a request that will start one.
RebuildOwesDay(g, d) ==
    Rebuilding(g) /\ DayOf(g) = d /\ work[g].pc \in {"aggregate", "upsertDay"}

JobOwesDay(r, d) ==
    LET j == chain[r] IN
    \/ j.pc = "mark" /\ j.day = d
    \/ j.pc = "price" /\ j.day = d /\ j.trip \notin Unpriceable
    \/ j.pc = "refetch" /\ rows[j.act].day = d /\ rows[j.act].trip \notin Unpriceable

DayOwed(d) ==
    \/ \E g \in Rebuilder : RebuildOwesDay(g, d)
    \/ \E r \in Request : JobOwesDay(r, d)

WeekOwedBy(g, w) ==
    Rebuilding(g) /\ WeekOf[DayOf(g)] = w /\ work[g].pc \in {"readWeek", "upsertWeek"}

MonthOwedBy(g, m) ==
    Rebuilding(g) /\ MonthOf[DayOf(g)] = m /\ work[g].pc \in Later

KnownInv == \A a \in Activity : Exists(a) => a \in used

NoGiveUps == \A r \in Request : chain[r].pc # "giveup"

DaysInv == \A d \in Day : GetDailySummary(d) = DayTerms(d) \/ DayOwed(d)

WeeksInv ==
    \A w \in Week : \/ GetWeeklySummary(w) = RollupTerms(WeekDays(w))
                    \/ \E g \in Rebuilder : WeekOwedBy(g, w)

MonthsInv ==
    \A m \in Month : \/ GetMonthlySummary(m) = RollupTerms(MonthDays(m))
                     \/ \E g \in Rebuilder : MonthOwedBy(g, m)

(* Ids of rows were given out: alone, no Save brings a deleted row back. *)
LEMMA KnownStep ==
    ASSUME TypeOK, JobsInv, KnownInv, [TNext]_tvars
    PROVE  KnownInv'
<1>a. ASSUME NEW r \in Request, PipelineStep(r) PROVE used \subseteq used'
  <2>1. CASE Receive(r)
    BY <2>1 DEF Receive, CreateActivity, FindForUpdate, PickCandidate, FindForDelete
  <2>2. CASE ~Receive(r)
    BY <1>a, <2>2 DEF PipelineStep, Serve, HandleActivityIngested, SaveActivity,
           RemoveActivity, EnrichFromReceipt, PublishMerged, SkipUnpriced, FailCalculation,
           StoreEmission, MarkProcessed, MarkGivenUp, StatementFails
  <2> QED
    BY <2>1, <2>2
<1>b. ASSUME NEW g \in Rebuilder, RecomputeDay(g) \/ RecomputeFails(g)
      PROVE  used' = used
  BY <1>b DEF RecomputeDay, AggregateDay, UpsertDaily, ReadWeek, UpsertWeekly, ReadMonth,
           UpsertMonthly, EndOf, FinishRebuild, FinishOldDay, RecomputeFails, vars
<1>c. used \subseteq used'
  BY <1>a, <1>b DEF TNext, CrashProcess, Crash, vars, tvars
<1> SUFFICES ASSUME NEW b \in Activity, rows'[b] # Null, rows[b] = Null PROVE b \in used'
  BY <1>c DEF KnownInv, Exists
<1>1. ASSUME NEW r \in Request, NEW a \in Targets[r], NEW t \in Trip, NEW d \in Day,
             CreateActivity(r, a, t, d)
      PROVE  b \in used'
  BY <1>1 DEF CreateActivity, TypeOK
<1>2. ASSUME NEW r \in Request, SaveActivity(r) PROVE FALSE
  BY <1>2 DEF SaveActivity, JobsInv, JobIsCurrent, Exists, TypeOK
<1>3. ASSUME NEW r \in Request, RemoveActivity(r) PROVE FALSE
  BY <1>3 DEF RemoveActivity, TypeOK
<1>4. ASSUME NEW r \in Request, EnrichFromReceipt(r) PROVE FALSE
  BY <1>4 DEF EnrichFromReceipt, Exists, TypeOK
<1>5. ASSUME NEW r \in Request, HandleActivityIngested(r) PROVE FALSE
  <2>1. rows' = rows \/ \E s \in Status : SetStatus(chain[r].act, s) /\ chain[r].act \in Activity
    BY <1>5, JobFields
       DEF HandleActivityIngested, SkipUnpriced, FailCalculation, StoreEmission,
           MarkProcessed, MarkGivenUp, Status, TypeOK
  <2> QED
    BY <2>1, SetStatusKeepsRows DEF TypeOK
<1>6. CASE UNCHANGED rows
  BY <1>6
<1> QED
  BY <1>1, <1>2, <1>3, <1>4, <1>5, <1>6
     DEF TNext, PipelineStep, Receive, Serve, FindForUpdate, PickCandidate, FindForDelete,
         PublishMerged, StatementFails, RecomputeDay, AggregateDay, UpsertDaily, ReadWeek,
         UpsertWeekly, ReadMonth, UpsertMonthly, EndOf, FinishRebuild, FinishOldDay,
         RecomputeFails, CrashProcess, Crash, vars, tvars

(* A goroutine that starts to rebuild starts at the aggregation. *)
LEMMA StartedRebuild ==
    ASSUME DayWorkInv, UNCHANGED work, NEW g \in Rebuilder, ~Rebuilding(g), Rebuilding(g)',
           NEW d \in Day, DayOf(g)' = d
    PROVE  RebuildOwesDay(g, d)'
BY DEF DayWorkInv, DayWork, RebuildOwesDay, Start

(* A request that changes what a day adds up to owes the day a rebuild.      *)
LEMMA ChangeIsOwed ==
    ASSUME DayInv, DayInv', KnownInv, PricedStaysPriced, PricedStaysPriced', NoGiveUps,
           NEW q \in Request, PipelineStep(q), UNCHANGED work, ~StatementFails(q),
           NEW d \in Day
    PROVE  DayTerms(d)' = DayTerms(d) \/ DayOwed(d)'
<1> USE ConstantsAssumption, NullAssumption DEF Exists
<1> DEFINE j == chain[q]
<1>0. /\ JobIsCurrent(q) /\ j \in Job
      /\ TypeOK /\ TypeOK' /\ DayWorkInv
      /\ <<q, "chain">> \in Rebuilder /\ <<q, "oldDay">> \in Rebuilder
  BY DEF DayInv, JobsInv, TimelineTypeOK, TypeOK, Rebuilder
<1>1. ASSUME NEW a \in Activity,
             \A b \in Activity \ {a} : rows'[b] = rows[b] /\ emissions'[b] = emissions[b],
             ~Contributes(a, d), ~Contributes(a, d)'
      PROVE  DayTerms(d)' = DayTerms(d)
  BY <1>1, DayTermsLocal
<1>2. ASSUME UNCHANGED <<rows, emissions>> PROVE DayTerms(d)' = DayTerms(d)
  BY <1>2 DEF DayTerms, Exists
<1>3. ASSUME NEW a \in Targets[q], NEW t \in Trip, NEW e \in Day,
             CreateActivity(q, a, t, e)
      PROVE  DayTerms(d)' = DayTerms(d)
  <2>1. a \in Activity /\ rows[a] = Null
    BY <1>3 DEF CreateActivity, KnownInv
  <2>2. rows'[a].status = "pending"
    BY <1>0, <1>3, <2>1 DEF CreateActivity, TypeOK
  <2>3. \A b \in Activity \ {a} : rows'[b] = rows[b] /\ emissions'[b] = emissions[b]
    BY <1>0, <1>3 DEF CreateActivity, TypeOK
  <2>4. ~Contributes(a, d) /\ ~Contributes(a, d)'
    BY <2>1, <2>2 DEF Contributes
  <2> QED
    BY <1>1, <2>1, <2>3, <2>4
<1>4. ASSUME SaveActivity(q) PROVE DayTerms(d)' = DayTerms(d) \/ DayOwed(d)'
  <2>1. PICK a \in Activity : a = j.act
    BY <1>0, <1>4, JobFields DEF SaveActivity
  <2>2. /\ j.row \in Row /\ j.old \in Day /\ j.row.day \in Day
        /\ rows[a] # Null /\ rows[a].day = j.old /\ oldDay[q] = Null
    BY <1>0, <1>4, <2>1, JobFields DEF SaveActivity, JobIsCurrent, Handling, Row
  <2>3. /\ rows'[a] = j.row /\ emissions' = emissions
        /\ \A b \in Activity \ {a} : rows'[b] = rows[b] /\ emissions'[b] = emissions[b]
        /\ chain'[q] = Ingested(a, j.row.trip, j.row.day)
        /\ oldDay'[q] = IF j.old = j.row.day THEN Null ELSE j.old
    BY <1>0, <1>4, <2>1 DEF SaveActivity, Continue, TypeOK
  <2>4. CASE d = j.row.day /\ j.row.trip \notin Unpriceable
    <3>1. JobOwesDay(q, d)'
      BY <2>3, <2>4 DEF JobOwesDay, Ingested
    <3> QED
      BY <3>1 DEF DayOwed
  <2>5. CASE d = j.row.day /\ j.row.trip \in Unpriceable
    <3>1. rows'[a] # Null /\ emissions[a] = Null
      BY <2>2, <2>3, <2>5 DEF PricedStaysPriced
    <3> QED
      BY <1>1, <2>3, <3>1 DEF Contributes
  <2>6. CASE d = j.old /\ d # j.row.day
    <3> DEFINE g == <<q, "oldDay">>
    <3>1. ~Rebuilding(g) /\ Rebuilding(g)' /\ DayOf(g)' = d
      BY <2>2, <2>3, <2>6 DEF Rebuilding, DayOf
    <3>2. RebuildOwesDay(g, d)'
      BY <1>0, <3>1, StartedRebuild
    <3> QED
      BY <1>0, <3>2 DEF DayOwed
  <2>7. CASE d # j.old /\ d # j.row.day
    <3>1. ~Contributes(a, d) /\ ~Contributes(a, d)'
      BY <2>2, <2>3, <2>7 DEF Contributes
    <3> QED
      BY <1>1, <2>3, <3>1
  <2> QED
    BY <2>4, <2>5, <2>6, <2>7
<1>5. ASSUME RemoveActivity(q) PROVE DayTerms(d)' = DayTerms(d) \/ DayOwed(d)'
  <2>1. PICK a \in Activity : a = j.act
    BY <1>0, <1>5, JobFields DEF RemoveActivity
  <2>2. rows[a] # Null /\ rows[a].day = j.day /\ j.pc = "remove"
    BY <1>0, <1>5, <2>1 DEF RemoveActivity, JobIsCurrent
  <2>3. /\ rows'[a] = Null
        /\ \A b \in Activity \ {a} : rows'[b] = rows[b] /\ emissions'[b] = emissions[b]
        /\ chain'[q] = Rebuild(j.day)
    BY <1>0, <1>5, <2>1, <2>2 DEF RemoveActivity, Continue, TypeOK
  <2>4. CASE d = j.day
    <3> DEFINE g == <<q, "chain">>
    <3>1. ~Rebuilding(g) /\ Rebuilding(g)' /\ DayOf(g)' = d
      BY <2>2, <2>3, <2>4 DEF Rebuilding, DayOf, Rebuild
    <3>2. RebuildOwesDay(g, d)'
      BY <1>0, <3>1, StartedRebuild
    <3> QED
      BY <1>0, <3>2 DEF DayOwed
  <2>5. CASE d # j.day
    <3>1. ~Contributes(a, d) /\ ~Contributes(a, d)'
      BY <2>2, <2>3, <2>5 DEF Contributes
    <3> QED
      BY <1>1, <2>3, <3>1
  <2> QED
    BY <2>4, <2>5
<1>6. ASSUME EnrichFromReceipt(q) PROVE DayTerms(d)' = DayTerms(d) \/ DayOwed(d)'
  <2>1. PICK a \in Activity : a = j.act
    BY <1>0, <1>6, JobFields DEF EnrichFromReceipt
  <2>2. rows[a] \in Row /\ j.trip \in Trip
    BY <1>0, <1>6, <2>1, JobFields DEF EnrichFromReceipt, JobIsCurrent, TypeOK
  <2>3. /\ rows'[a] = [rows[a] EXCEPT !.trip = j.trip]
        /\ emissions' = emissions
        /\ \A b \in Activity \ {a} : rows'[b] = rows[b] /\ emissions'[b] = emissions[b]
        /\ chain'[q] = [pc |-> "refetch", act |-> a]
    BY <1>0, <1>6, <2>1, <2>2 DEF EnrichFromReceipt, Continue, TypeOK
  <2>4. rows'[a] \in Row /\ rows'[a].day = rows[a].day /\ rows'[a].trip = j.trip
    BY <2>2, <2>3 DEF Row
  <2>5. CASE d # rows[a].day
    <3>1. ~Contributes(a, d) /\ ~Contributes(a, d)'
      BY <2>4, <2>5 DEF Contributes
    <3> QED
      BY <1>1, <2>3, <3>1
  <2>6. CASE d = rows[a].day /\ j.trip \notin Unpriceable
    <3>1. /\ chain'[q].pc = "refetch" /\ chain'[q].act = a
          /\ rows'[a].day = d /\ rows'[a].trip \notin Unpriceable
      BY <2>3, <2>4, <2>6
    <3>2. JobOwesDay(q, d)'
      BY <3>1 DEF JobOwesDay, Unpriceable
    <3> QED
      BY <3>2 DEF DayOwed
  <2>7. CASE j.trip \in Unpriceable
    <3>1. emissions[a] = Null
      BY <2>3, <2>4, <2>7 DEF PricedStaysPriced
    <3>2. ~Contributes(a, d) /\ ~Contributes(a, d)'
      BY <2>3, <3>1 DEF Contributes
    <3> QED
      BY <1>1, <2>3, <3>2
  <2> QED
    BY <2>5, <2>6, <2>7
<1>7. ASSUME SkipUnpriced(q) \/ FailCalculation(q) PROVE DayTerms(d)' = DayTerms(d)
  <2>1. PICK a \in Activity : a = j.act
    BY <1>0, <1>7, JobFields DEF SkipUnpriced, FailCalculation
  <2>2. emissions[a] = Null
    BY <1>0, <1>7, <2>1
       DEF SkipUnpriced, FailCalculation, JobIsCurrent, PricedStaysPriced, Unpriceable
  <2>3. /\ emissions' = emissions
        /\ \A b \in Activity \ {a} : rows'[b] = rows[b] /\ emissions'[b] = emissions[b]
    BY <1>0, <1>7, <2>1 DEF SkipUnpriced, FailCalculation, SetStatus, TypeOK
  <2>4. ~Contributes(a, d) /\ ~Contributes(a, d)'
    BY <2>2, <2>3 DEF Contributes
  <2> QED
    BY <1>1, <2>3, <2>4
<1>8. ASSUME StoreEmission(q) PROVE DayTerms(d)' = DayTerms(d) \/ DayOwed(d)'
  <2>1. PICK a \in Activity : a = j.act
    BY <1>0, <1>8, JobFields DEF StoreEmission
  <2>2. rows[a] # Null /\ rows[a].day = j.day
    BY <1>0, <1>8, <2>1 DEF StoreEmission, JobIsCurrent
  <2>3. /\ rows' = rows
        /\ \A b \in Activity \ {a} : rows'[b] = rows[b] /\ emissions'[b] = emissions[b]
        /\ chain'[q] = [pc |-> "mark", act |-> a, day |-> j.day]
    BY <1>0, <1>8, <2>1, <2>2 DEF StoreEmission, Continue, TypeOK
  <2>4. CASE d = j.day
    <3>1. JobOwesDay(q, d)'
      BY <2>3, <2>4 DEF JobOwesDay
    <3> QED
      BY <3>1 DEF DayOwed
  <2>5. CASE d # j.day
    <3>1. ~Contributes(a, d) /\ ~Contributes(a, d)'
      BY <2>2, <2>3, <2>5 DEF Contributes
    <3> QED
      BY <1>1, <2>3, <3>1
  <2> QED
    BY <2>4, <2>5
<1>9. ASSUME MarkProcessed(q) PROVE DayTerms(d)' = DayTerms(d) \/ DayOwed(d)'
  <2>1. PICK a \in Activity : a = j.act
    BY <1>0, <1>9, JobFields DEF MarkProcessed
  <2>2. rows[a] # Null /\ rows[a].day = j.day /\ j.pc = "mark"
    BY <1>0, <1>9, <2>1 DEF MarkProcessed, JobIsCurrent
  <2>3. /\ SetStatus(a, "processed")
        /\ emissions' = emissions
        /\ chain'[q] = Rebuild(j.day)
    BY <1>0, <1>9, <2>1 DEF MarkProcessed, Continue, TypeOK
  <2>4. /\ rows'[a].day = j.day
        /\ \A b \in Activity \ {a} : rows'[b] = rows[b] /\ emissions'[b] = emissions[b]
    BY <1>0, <2>2, <2>3, SetStatusKeepsRows DEF Status, TypeOK
  <2>5. CASE d = j.day
    <3> DEFINE g == <<q, "chain">>
    <3>1. ~Rebuilding(g) /\ Rebuilding(g)' /\ DayOf(g)' = d
      BY <2>2, <2>3, <2>5 DEF Rebuilding, DayOf, Rebuild
    <3>2. RebuildOwesDay(g, d)'
      BY <1>0, <3>1, StartedRebuild
    <3> QED
      BY <1>0, <3>2 DEF DayOwed
  <2>6. CASE d # j.day
    <3>1. ~Contributes(a, d) /\ ~Contributes(a, d)'
      BY <2>2, <2>4, <2>6 DEF Contributes
    <3> QED
      BY <1>1, <2>4, <3>1
  <2> QED
    BY <2>5, <2>6
<1>10. ~MarkGivenUp(q)
  BY DEF MarkGivenUp, NoGiveUps
<1> QED
  BY <1>2, <1>3, <1>4, <1>5, <1>6, <1>7, <1>8, <1>9, <1>10
     DEF PipelineStep, Receive, Serve, HandleActivityIngested, FindForUpdate,
         PickCandidate, FindForDelete, PublishMerged

(* A request that owes a day a rebuild goes on owing it until a rebuild runs. *)
LEMMA JobDebtStays ==
    ASSUME DayInv, PricedStaysPriced',
           NEW q \in Request, PipelineStep(q), UNCHANGED work, ~StatementFails(q),
           NEW d \in Day, JobOwesDay(q, d)
    PROVE  DayOwed(d)'
<1> USE ConstantsAssumption, NullAssumption DEF Exists
<1> DEFINE j == chain[q]
<1>0. /\ JobIsCurrent(q) /\ j \in Job
      /\ TypeOK /\ DayWorkInv
      /\ <<q, "chain">> \in Rebuilder
  BY DEF DayInv, JobsInv, TimelineTypeOK, TypeOK, Rebuilder
<1>a. ~Receive(q)
  <2>1. Receive(q) => Free(q)
    BY DEF Receive, CreateActivity, FindForUpdate, PickCandidate, FindForDelete
  <2> QED
    BY <2>1 DEF Free, Idle, JobOwesDay
<1>b. Serve(q) \/ HandleActivityIngested(q)
  BY <1>a DEF PipelineStep
<1>1. CASE j.pc = "mark"
  <2>1. MarkProcessed(q)
    BY <1>1, <1>b DEF Serve, HandleActivityIngested, SaveActivity, RemoveActivity,
                EnrichFromReceipt, PublishMerged, SkipUnpriced, FailCalculation,
                StoreEmission, MarkGivenUp
  <2>2. chain'[q] = Rebuild(d)
    BY <1>0, <1>1, <2>1 DEF MarkProcessed, Continue, JobOwesDay, TypeOK
  <2> DEFINE g == <<q, "chain">>
  <2>3. ~Rebuilding(g) /\ Rebuilding(g)' /\ DayOf(g)' = d
    BY <1>1, <2>2 DEF Rebuilding, DayOf, Rebuild
  <2>4. RebuildOwesDay(g, d)'
    BY <1>0, <2>3, StartedRebuild
  <2> QED
    BY <1>0, <2>4 DEF DayOwed
<1>2. CASE j.pc = "price"
  <2>1. StoreEmission(q)
    BY <1>2, <1>b DEF Serve, HandleActivityIngested, SaveActivity, RemoveActivity,
                EnrichFromReceipt, PublishMerged, SkipUnpriced, FailCalculation,
                MarkProcessed, MarkGivenUp, JobOwesDay, Unpriceable
  <2>2. chain'[q] = [pc |-> "mark", act |-> j.act, day |-> d]
    BY <1>0, <1>2, <2>1 DEF StoreEmission, Continue, JobOwesDay, JobIsCurrent, TypeOK
  <2>3. JobOwesDay(q, d)'
    BY <2>2 DEF JobOwesDay
  <2> QED
    BY <2>3 DEF DayOwed
<1>3. CASE j.pc = "refetch"
  <2>1. PublishMerged(q)
    BY <1>3, <1>b DEF Serve, HandleActivityIngested, SaveActivity, RemoveActivity,
                EnrichFromReceipt, SkipUnpriced, FailCalculation, StoreEmission,
                MarkProcessed, MarkGivenUp
  <2>2. chain'[q] = Ingested(j.act, rows[j.act].trip, d)
    BY <1>0, <1>3, <2>1 DEF PublishMerged, Continue, JobOwesDay, JobIsCurrent, TypeOK
  <2>3. rows[j.act].trip \notin Unpriceable
    BY <1>3 DEF JobOwesDay
  <2>4. JobOwesDay(q, d)'
    BY <2>2, <2>3 DEF JobOwesDay, Ingested, Unpriceable
  <2> QED
    BY <2>4 DEF DayOwed
<1> QED
  BY <1>1, <1>2, <1>3 DEF JobOwesDay

(* Alone, no handler finds the activity gone or gives it up without an error. *)
LEMMA GiveUpsStep ==
    ASSUME TypeOK, JobsInv, NoGiveUps, NEW q \in Request, PipelineStep(q),
           ~StatementFails(q)
    PROVE  NoGiveUps'
<1> SUFFICES ASSUME NEW r \in Request PROVE chain'[r].pc # "giveup"
  BY DEF NoGiveUps
<1>1. JobIsCurrent(q) /\ chain[r].pc # "giveup" /\ chain[q].pc # "giveup"
  BY DEF JobsInv, NoGiveUps
<1>2. CASE Receive(q)
  <2>1. PICK a \in Targets[q] :
           \/ \E t \in Trip, d \in Day : CreateActivity(q, a, t, d) \/ FindForUpdate(q, a, t, d)
           \/ \E t \in Trip : PickCandidate(q, a, t)
           \/ FindForDelete(q, a)
    BY <1>2 DEF Receive
  <2> DEFINE Started == {"price", "save", "merge", "remove"}
  <2>2. ASSUME NEW t \in Trip, NEW d \in Day, CreateActivity(q, a, t, d)
        PROVE  \E i : Continue(q, i) /\ i.pc \in Started
    BY <2>2 DEF CreateActivity, Ingested
  <2>3. ASSUME NEW t \in Trip, NEW d \in Day, FindForUpdate(q, a, t, d)
        PROVE  \E i : Continue(q, i) /\ i.pc \in Started
    BY <2>3 DEF FindForUpdate
  <2>4. ASSUME NEW t \in Trip, PickCandidate(q, a, t)
        PROVE  \E i : Continue(q, i) /\ i.pc \in Started
    BY <2>4 DEF PickCandidate
  <2>5. ASSUME FindForDelete(q, a)
        PROVE  \E i : Continue(q, i) /\ i.pc \in Started
    BY <2>5 DEF FindForDelete
  <2> QED
    BY <1>1, <2>1, <2>2, <2>3, <2>4, <2>5 DEF Continue, TypeOK
<1>3. CASE Serve(q)
  BY <1>1, <1>3 DEF Serve, SaveActivity, RemoveActivity, EnrichFromReceipt, PublishMerged,
                    Continue, Ingested, Rebuild, Idle, TypeOK
<1>4. CASE HandleActivityIngested(q)
  BY <1>1, <1>4 DEF HandleActivityIngested, SkipUnpriced, FailCalculation, StoreEmission,
                    MarkProcessed, MarkGivenUp, Continue, Rebuild, Idle, JobIsCurrent,
                    TypeOK
<1> QED
  BY <1>2, <1>3, <1>4 DEF PipelineStep

DaysExactInv == NoFaults => NoGiveUps /\ DaysInv

(* Every day is up to date, or owed a rebuild. *)
LEMMA DaysStep ==
    ASSUME DayInv, DayInv', KnownInv, DaysExactInv, Alone, Alone',
           PricedStaysPriced, PricedStaysPriced', [TNext]_tvars
    PROVE  DaysExactInv'
<1> SUFFICES ASSUME NoFaults' PROVE (NoGiveUps /\ DaysInv)'
  BY DEF DaysExactInv
<1>0. TimelineTypeOK /\ TypeOK /\ JobsInv /\ faults \in Nat
  BY DEF DayInv, TimelineTypeOK, TypeOK
<1>1. ASSUME NEW q \in Request, PipelineStep(q), UNCHANGED <<summaries, work>>
      PROVE  (NoGiveUps /\ DaysInv)'
  <2>1. ~StatementFails(q)
    BY <1>0 DEF StatementFails, NoFaults
  <2>2. faults' = faults
    <3>1. CASE Receive(q)
      BY <3>1 DEF Receive, CreateActivity, FindForUpdate, PickCandidate, FindForDelete
    <3>2. CASE Serve(q)
      BY <3>2 DEF Serve, SaveActivity, RemoveActivity, EnrichFromReceipt, PublishMerged
    <3>3. CASE HandleActivityIngested(q)
      BY <3>3 DEF HandleActivityIngested, SkipUnpriced, FailCalculation, StoreEmission,
                  MarkProcessed, MarkGivenUp
    <3> QED
      BY <1>1, <2>1, <3>1, <3>2, <3>3 DEF PipelineStep
  <2>3. NoGiveUps /\ DaysInv
    BY <2>2 DEF DaysExactInv, NoFaults
  <2>4. ASSUME NEW d \in Day PROVE GetDailySummary(d)' = DayTerms(d)' \/ DayOwed(d)'
    <3>1. CASE DayOwed(d)
      <4>1. CASE \E g \in Rebuilder : RebuildOwesDay(g, d)
        <5>1. PICK g \in Rebuilder : RebuildOwesDay(g, d)
          BY <4>1
        <5>2. RebuildOwesDay(g, d)'
          BY <1>0, <1>1, <5>1, RebuildUndisturbed DEF RebuildOwesDay
        <5> QED
          BY <5>2 DEF DayOwed
      <4>2. CASE \E r \in Request : JobOwesDay(r, d)
        <5>1. PICK r \in Request : JobOwesDay(r, d)
          BY <4>2
        <5>2. r = q
          BY <1>0, <1>1, <5>1, OthersAreFree DEF JobOwesDay, Free, Idle
        <5> QED
          BY <1>1, <2>1, <5>1, <5>2, JobDebtStays
      <4> QED
        BY <3>1, <4>1, <4>2 DEF DayOwed
    <3>2. CASE GetDailySummary(d) = DayTerms(d)
      <4>1. DayTerms(d)' = DayTerms(d) \/ DayOwed(d)'
        BY <1>1, <2>1, <2>3, ChangeIsOwed
      <4>2. GetDailySummary(d)' = GetDailySummary(d)
        BY <1>1 DEF GetDailySummary, OrEmpty, summaries
      <4> QED
        BY <3>2, <4>1, <4>2
    <3> QED
      BY <2>3, <3>1, <3>2 DEF DaysInv
  <2>5. NoGiveUps'
    BY <1>0, <1>1, <2>1, <2>3, GiveUpsStep
  <2> QED
    BY <2>4, <2>5 DEF DaysInv
<1>2. ASSUME NEW g \in Rebuilder, RecomputeDay(g) PROVE (NoGiveUps /\ DaysInv)'
  <2>1. Rebuilding(g) /\ g[1] \in Request
    BY <1>2 DEF RecomputeDay, AggregateDay, UpsertDaily, ReadWeek, UpsertWeekly,
                ReadMonth, UpsertMonthly, At, Rebuilder
  <2>2. /\ rows' = rows /\ emissions' = emissions /\ faults' = faults
        /\ \A r \in Request : \/ chain'[r] = chain[r]
                              \/ chain[r].pc = "rebuild" /\ chain'[r] = Idle
    BY <1>0, <1>2, <2>1
       DEF RecomputeDay, AggregateDay, UpsertDaily, ReadWeek, UpsertWeekly, ReadMonth,
           UpsertMonthly, EndOf, FinishRebuild, FinishOldDay, Continue, TypeOK, vars
  <2>3. NoGiveUps /\ DaysInv
    BY <2>2 DEF DaysExactInv, NoFaults
  <2>4. NoGiveUps'
    BY <2>2, <2>3 DEF NoGiveUps, Idle
  <2>5. ASSUME NEW d \in Day PROVE GetDailySummary(d)' = DayTerms(d)' \/ DayOwed(d)'
    <3>1. DayTerms(d)' = DayTerms(d)
      BY <2>2 DEF DayTerms, Exists
    <3>2. ASSUME NEW r \in Request, JobOwesDay(r, d) PROVE DayOwed(d)'
      <4>1. chain'[r] = chain[r] /\ rows' = rows
        BY <2>2, <3>2 DEF JobOwesDay
      <4>2. JobOwesDay(r, d)'
        BY <3>2, <4>1 DEF JobOwesDay, Unpriceable
      <4> QED
        BY <4>2 DEF DayOwed
    <3>3. ASSUME NEW h \in Rebuilder, h # g, RebuildOwesDay(h, d) PROVE DayOwed(d)'
      <4>1. RebuildOwesDay(h, d)'
        BY <1>0, <1>2, <3>3, OtherRebuilds DEF RebuildOwesDay
      <4> QED
        BY <4>1 DEF DayOwed
    <3>4. ASSUME AggregateDay(g), RebuildOwesDay(g, d) PROVE DayOwed(d)'
      <4>1. /\ work'[g].pc = "upsertDay"
            /\ Rebuilding(g)' /\ DayOf(g)' = d
        BY <1>0, <3>4 DEF AggregateDay, Advance, RebuildOwesDay, Rebuilding, DayOf,
                          TimelineTypeOK, vars
      <4>2. RebuildOwesDay(g, d)'
        BY <4>1 DEF RebuildOwesDay
      <4> QED
        BY <4>2 DEF DayOwed
    <3>5. CASE UpsertDaily(g) /\ d = DayOf(g)
      <4>1. work[g].pc = "upsertDay" /\ work[g].terms = DayTerms(d)
        BY <2>1, <3>5 DEF UpsertDaily, At, DayInv, DayWorkInv, DayWork
      <4>2. daily'[d] = DayTerms(d)
        BY <1>0, <3>5, <4>1 DEF UpsertDaily, TimelineTypeOK
      <4>3. GetDailySummary(d)' = OrEmpty(DayTerms(d))
        BY <4>2 DEF GetDailySummary, OrEmpty
      <4>4. DayTerms(d) \in DaySummary
        BY <1>0, DayTermsType
      <4> QED
        BY <3>1, <4>3, <4>4, ShownAsStored
    <3>6. CASE ~(UpsertDaily(g) /\ d = DayOf(g))
      <4>1. daily'[d] = daily[d]
        BY <1>0, <1>2, <3>6
           DEF RecomputeDay, AggregateDay, UpsertDaily, ReadWeek, UpsertWeekly, ReadMonth,
               UpsertMonthly, TimelineTypeOK, summaries
      <4>2. GetDailySummary(d)' = GetDailySummary(d)
        BY <4>1 DEF GetDailySummary, OrEmpty
      <4>3. RebuildOwesDay(g, d) => AggregateDay(g)
        BY <1>2, <3>6 DEF RebuildOwesDay, RecomputeDay, UpsertDaily, ReadWeek, UpsertWeekly,
                          ReadMonth, UpsertMonthly, At
      <4>4. GetDailySummary(d) = DayTerms(d) \/ DayOwed(d)
        BY <2>3 DEF DaysInv
      <4>5. DayOwed(d) => DayOwed(d)'
        BY <3>2, <3>3, <3>4, <4>3 DEF DayOwed
      <4> QED
        BY <3>1, <4>2, <4>4, <4>5
    <3> QED
      BY <3>5, <3>6
  <2> QED
    BY <2>4, <2>5 DEF DaysInv
<1>3. ASSUME NEW g \in Rebuilder, RecomputeFails(g) PROVE FALSE
  BY <1>0, <1>3 DEF RecomputeFails, NoFaults
<1>4. ASSUME NEW p \in Process, CrashProcess(p) PROVE FALSE
  BY <1>0, <1>4 DEF CrashProcess, Crash, NoFaults
<1>5. CASE UNCHANGED tvars
  <2>1. NoGiveUps /\ DaysInv
    BY <1>5 DEF DaysExactInv, NoFaults, tvars, vars
  <2>2. NoGiveUps'
    BY <1>5, <2>1 DEF NoGiveUps, tvars, vars
  <2>3. ASSUME NEW d \in Day PROVE GetDailySummary(d)' = DayTerms(d)' \/ DayOwed(d)'
    <3>1. DayTerms(d)' = DayTerms(d) /\ GetDailySummary(d)' = GetDailySummary(d)
      BY <1>5 DEF tvars, vars, summaries, DayTerms, Exists, GetDailySummary, OrEmpty
    <3>2. ASSUME NEW r \in Request, JobOwesDay(r, d) PROVE JobOwesDay(r, d)'
      BY <1>5, <3>2 DEF tvars, vars, JobOwesDay, Unpriceable
    <3>3. ASSUME NEW g \in Rebuilder, RebuildOwesDay(g, d) PROVE RebuildOwesDay(g, d)'
      BY <1>5, <3>3 DEF tvars, vars, RebuildOwesDay, Rebuilding, DayOf
    <3> QED
      BY <2>1, <3>1, <3>2, <3>3 DEF DaysInv, DayOwed
  <2> QED
    BY <2>2, <2>3 DEF DaysInv
<1> QED
  BY <1>1, <1>2, <1>3, <1>4, <1>5 DEF TNext

PeriodsInv == NoFaults => WeeksInv /\ MonthsInv

(* Every week and month is the sum of its days, or owed one by a rebuild.    *)
LEMMA PeriodsStep ==
    ASSUME DayInv, WeekWorkInv, PeriodsInv, Alone, Alone', RebuildsApart,
           [TNext]_tvars
    PROVE  PeriodsInv'
<1> SUFFICES ASSUME NoFaults' PROVE (WeeksInv /\ MonthsInv)'
  BY DEF PeriodsInv
<1>0. TimelineTypeOK /\ TypeOK /\ JobsInv /\ faults \in Nat
  BY DEF DayInv, TimelineTypeOK, TypeOK
<1>1. ASSUME NEW q \in Request, PipelineStep(q), UNCHANGED <<summaries, work>>
      PROVE  (WeeksInv /\ MonthsInv)'
  <2>1. NoFaults
    <3>1. CASE Receive(q)
      BY <3>1 DEF Receive, CreateActivity, FindForUpdate, PickCandidate, FindForDelete,
                  NoFaults
    <3>2. CASE Serve(q)
      BY <3>2 DEF Serve, SaveActivity, RemoveActivity, EnrichFromReceipt, PublishMerged,
                  NoFaults
    <3>3. CASE HandleActivityIngested(q)
      BY <3>3 DEF HandleActivityIngested, SkipUnpriced, FailCalculation, StoreEmission,
                  MarkProcessed, MarkGivenUp, NoFaults
    <3>4. CASE StatementFails(q)
      BY <1>0, <3>4 DEF StatementFails, NoFaults
    <3> QED
      BY <1>1, <3>1, <3>2, <3>3, <3>4 DEF PipelineStep
  <2>2. WeeksInv /\ MonthsInv
    BY <2>1 DEF PeriodsInv
  <2>3. ASSUME NEW g \in Rebuilder, Rebuilding(g)
        PROVE  Rebuilding(g)' /\ DayOf(g)' = DayOf(g) /\ work'[g] = work[g]
    <3>1. PICK d \in Day : d = DayOf(g)
      BY <1>0, <2>3, DayOfType
    <3> QED
      BY <1>0, <1>1, <2>3, <3>1, RebuildUndisturbed
  <2>4. ASSUME NEW w \in Week
        PROVE  \/ GetWeeklySummary(w)' = RollupTerms(WeekDays(w))'
               \/ \E g \in Rebuilder : WeekOwedBy(g, w)'
    <3>1. /\ GetWeeklySummary(w)' = GetWeeklySummary(w)
          /\ RollupTerms(WeekDays(w))' = RollupTerms(WeekDays(w))
      BY <1>1 DEF GetWeeklySummary, RollupTerms, WeekDays, OrEmpty, summaries
    <3>2. ASSUME NEW g \in Rebuilder, WeekOwedBy(g, w) PROVE WeekOwedBy(g, w)'
      BY <2>3, <3>2 DEF WeekOwedBy
    <3> QED
      BY <2>2, <3>1, <3>2 DEF WeeksInv
  <2>5. ASSUME NEW m \in Month
        PROVE  \/ GetMonthlySummary(m)' = RollupTerms(MonthDays(m))'
               \/ \E g \in Rebuilder : MonthOwedBy(g, m)'
    <3>1. /\ GetMonthlySummary(m)' = GetMonthlySummary(m)
          /\ RollupTerms(MonthDays(m))' = RollupTerms(MonthDays(m))
      BY <1>1 DEF GetMonthlySummary, RollupTerms, MonthDays, OrEmpty, summaries
    <3>2. ASSUME NEW g \in Rebuilder, MonthOwedBy(g, m) PROVE MonthOwedBy(g, m)'
      BY <2>3, <3>2 DEF MonthOwedBy
    <3> QED
      BY <2>2, <3>1, <3>2 DEF MonthsInv
  <2> QED
    BY <2>4, <2>5 DEF WeeksInv, MonthsInv
<1>2. ASSUME NEW g \in Rebuilder, RecomputeDay(g) PROVE (WeeksInv /\ MonthsInv)'
  <2>1. Rebuilding(g) /\ faults' = faults
    BY <1>2 DEF RecomputeDay, AggregateDay, UpsertDaily, ReadWeek, UpsertWeekly,
                ReadMonth, UpsertMonthly, At, EndOf, FinishRebuild, FinishOldDay, vars
  <2>2. WeeksInv /\ MonthsInv
    BY <2>1 DEF PeriodsInv, NoFaults
  <2>3. ASSUME NEW h \in Rebuilder, h # g, Rebuilding(h)
        PROVE  Rebuilding(h)' /\ DayOf(h)' = DayOf(h) /\ work'[h] = work[h]
    BY <1>0, <1>2, <2>3, OtherRebuilds
  <2>4. ~UpsertMonthly(g) => /\ Rebuilding(g)' /\ DayOf(g)' = DayOf(g)
                             /\ work'[g].pc \in Phase
    <3>1. ~UpsertMonthly(g) => UNCHANGED vars
      BY <1>2 DEF RecomputeDay, AggregateDay, UpsertDaily, ReadWeek, UpsertWeekly, ReadMonth
    <3>2. ~UpsertMonthly(g) => work'[g].pc \in Phase
      BY <1>0, <1>2 DEF RecomputeDay, AggregateDay, UpsertDaily, ReadWeek, UpsertWeekly,
                        ReadMonth, Advance, Phase, TimelineTypeOK
    <3> QED
      BY <2>1, <3>1, <3>2 DEF Rebuilding, DayOf, vars
  <2>5. ASSUME NEW D \in SUBSET Day, UpsertDaily(g) => DayOf(g) \notin D
        PROVE  RollupTerms(D)' = RollupTerms(D)
    <3>1. \A d \in D : daily'[d] = daily[d]
      BY <1>0, <1>2, <2>5
         DEF RecomputeDay, AggregateDay, UpsertDaily, ReadWeek, UpsertWeekly, ReadMonth,
             UpsertMonthly, TimelineTypeOK, summaries
    <3> QED
      BY <3>1, RollupLocal
  <2>6. ASSUME NEW w \in Week
        PROVE  \/ GetWeeklySummary(w)' = RollupTerms(WeekDays(w))'
               \/ \E h \in Rebuilder : WeekOwedBy(h, w)'
    <3>1. CASE UpsertDaily(g) /\ w = WeekOf[DayOf(g)]
      <4>1. work'[g].pc = "readWeek" /\ ~UpsertMonthly(g)
        BY <1>0, <3>1 DEF UpsertDaily, UpsertMonthly, At, Advance, TimelineTypeOK
      <4>2. WeekOwedBy(g, w)'
        BY <2>4, <3>1, <4>1 DEF WeekOwedBy
      <4> QED
        BY <4>2
    <3>2. CASE UpsertWeekly(g) /\ w = WeekOf[DayOf(g)]
      <4>1. work[g].terms = RollupTerms(WeekDays(w))
        BY <2>1, <3>2 DEF UpsertWeekly, At, WeekWorkInv, WeekWork
      <4>2. weekly'[w] = RollupTerms(WeekDays(w)) /\ daily' = daily
        BY <1>0, <3>2, <4>1 DEF UpsertWeekly, TimelineTypeOK
      <4>3. RollupTerms(WeekDays(w)) \in RollupSummary
        BY <1>0, RollupTermsType DEF TimelineTypeOK, WeekDays
      <4>4. GetWeeklySummary(w)' = OrEmpty(RollupTerms(WeekDays(w)))
        BY <4>2 DEF GetWeeklySummary, OrEmpty
      <4>5. RollupTerms(WeekDays(w))' = RollupTerms(WeekDays(w))
        BY <4>2 DEF RollupTerms, WeekDays, OrEmpty
      <4> QED
        BY <4>3, <4>4, <4>5, ShownAsStored
    <3>3. CASE w # WeekOf[DayOf(g)] \/ ~(UpsertDaily(g) \/ UpsertWeekly(g))
      <4>1. UpsertDaily(g) => DayOf(g) \notin WeekDays(w)
        BY <3>3 DEF WeekDays
      <4>2. RollupTerms(WeekDays(w))' = RollupTerms(WeekDays(w))
        BY <2>5, <4>1 DEF WeekDays
      <4>3. weekly'[w] = weekly[w]
        BY <1>0, <1>2, <3>3
           DEF RecomputeDay, AggregateDay, UpsertDaily, ReadWeek, UpsertWeekly, ReadMonth,
               UpsertMonthly, TimelineTypeOK, summaries
      <4>4. GetWeeklySummary(w)' = GetWeeklySummary(w)
        BY <4>3 DEF GetWeeklySummary, OrEmpty
      <4>5. ASSUME NEW h \in Rebuilder, h # g, WeekOwedBy(h, w) PROVE WeekOwedBy(h, w)'
        BY <2>3, <4>5 DEF WeekOwedBy
      <4>6. ASSUME WeekOwedBy(g, w) PROVE WeekOwedBy(g, w)'
        <5>1. ReadWeek(g)
          BY <1>2, <3>3, <4>6 DEF WeekOwedBy, RecomputeDay, AggregateDay, UpsertDaily,
                                  UpsertWeekly, ReadMonth, UpsertMonthly, At
        <5>2. work'[g].pc = "upsertWeek" /\ ~UpsertMonthly(g)
          BY <1>0, <5>1 DEF ReadWeek, UpsertMonthly, At, Advance, TimelineTypeOK
        <5> QED
          BY <2>4, <4>6, <5>2 DEF WeekOwedBy
      <4> QED
        BY <2>2, <4>2, <4>4, <4>5, <4>6 DEF WeeksInv
    <3> QED
      BY <3>1, <3>2, <3>3
  <2>7. ASSUME NEW m \in Month
        PROVE  \/ GetMonthlySummary(m)' = RollupTerms(MonthDays(m))'
               \/ \E h \in Rebuilder : MonthOwedBy(h, m)'
    <3>1. CASE UpsertDaily(g) /\ m = MonthOf[DayOf(g)]
      <4>1. work'[g].pc \in Later /\ ~UpsertMonthly(g)
        BY <1>0, <3>1 DEF UpsertDaily, UpsertMonthly, At, Advance, TimelineTypeOK, Later
      <4>2. MonthOwedBy(g, m)'
        BY <2>4, <3>1, <4>1 DEF MonthOwedBy
      <4> QED
        BY <4>2
    <3>2. CASE UpsertMonthly(g) /\ m = MonthOf[DayOf(g)]
      <4>1. work[g].terms = RollupTerms(MonthDays(m))
        BY <2>1, <3>2 DEF UpsertMonthly, At, WeekWorkInv, WeekWork
      <4>2. monthly'[m] = RollupTerms(MonthDays(m)) /\ daily' = daily
        BY <1>0, <3>2, <4>1 DEF UpsertMonthly, TimelineTypeOK
      <4>3. RollupTerms(MonthDays(m)) \in RollupSummary
        BY <1>0, RollupTermsType DEF TimelineTypeOK, MonthDays
      <4>4. GetMonthlySummary(m)' = OrEmpty(RollupTerms(MonthDays(m)))
        BY <4>2 DEF GetMonthlySummary, OrEmpty
      <4>5. RollupTerms(MonthDays(m))' = RollupTerms(MonthDays(m))
        BY <4>2 DEF RollupTerms, MonthDays, OrEmpty
      <4> QED
        BY <4>3, <4>4, <4>5, ShownAsStored
    <3>3. CASE m # MonthOf[DayOf(g)] \/ ~(UpsertDaily(g) \/ UpsertMonthly(g))
      <4>1. UpsertDaily(g) => DayOf(g) \notin MonthDays(m)
        BY <3>3 DEF MonthDays
      <4>2. RollupTerms(MonthDays(m))' = RollupTerms(MonthDays(m))
        BY <2>5, <4>1 DEF MonthDays
      <4>3. monthly'[m] = monthly[m]
        BY <1>0, <1>2, <3>3
           DEF RecomputeDay, AggregateDay, UpsertDaily, ReadWeek, UpsertWeekly, ReadMonth,
               UpsertMonthly, TimelineTypeOK, summaries
      <4>4. GetMonthlySummary(m)' = GetMonthlySummary(m)
        BY <4>3 DEF GetMonthlySummary, OrEmpty
      <4>5. ASSUME NEW h \in Rebuilder, h # g, MonthOwedBy(h, m) PROVE MonthOwedBy(h, m)'
        BY <2>3, <4>5 DEF MonthOwedBy
      <4>6. ASSUME MonthOwedBy(g, m) PROVE MonthOwedBy(g, m)'
        <5>1. ReadWeek(g) \/ UpsertWeekly(g) \/ ReadMonth(g)
          BY <1>2, <3>3, <4>6 DEF MonthOwedBy, RecomputeDay, AggregateDay, UpsertDaily,
                                  UpsertMonthly, At, Later
        <5>2. work'[g].pc \in Later /\ ~UpsertMonthly(g)
          BY <1>0, <5>1 DEF ReadWeek, UpsertWeekly, ReadMonth, UpsertMonthly, At, Advance,
                            TimelineTypeOK, Later
        <5> QED
          BY <2>4, <4>6, <5>2 DEF MonthOwedBy
      <4> QED
        BY <2>2, <4>2, <4>4, <4>5, <4>6 DEF MonthsInv
    <3> QED
      BY <3>1, <3>2, <3>3
  <2> QED
    BY <2>6, <2>7 DEF WeeksInv, MonthsInv
<1>3. ASSUME NEW g \in Rebuilder, RecomputeFails(g) PROVE FALSE
  BY <1>0, <1>3 DEF RecomputeFails, NoFaults
<1>4. ASSUME NEW p \in Process, CrashProcess(p) PROVE FALSE
  BY <1>0, <1>4 DEF CrashProcess, Crash, NoFaults
<1>5. CASE UNCHANGED tvars
  BY <1>5 DEF tvars, vars, summaries, PeriodsInv, NoFaults, WeeksInv, MonthsInv,
              GetWeeklySummary, GetMonthlySummary, RollupTerms, WeekDays, MonthDays,
              OrEmpty, WeekOwedBy, MonthOwedBy, Rebuilding, DayOf
<1> QED
  BY <1>1, <1>2, <1>3, <1>4, <1>5 DEF TNext

\* What the pages show of the days.
DailySummariesExact ==
    NoFaults /\ Quiet => \A d \in Day : GetDailySummary(d) = DayTerms(d)

(* Without activities every sum is empty, and so is what is shown. *)
LEMMA ExactInitially ==
    ASSUME TInit
    PROVE  KnownInv /\ DaysExactInv /\ WeekWorkInv /\ PeriodsInv
<1>1. \A a \in Activity : rows[a] = Null
  BY DEF TInit, Init
<1>2. \A g \in Rebuilder : ~Rebuilding(g)
  BY DEF TInit, Init, Rebuilder, Rebuilding, Idle
<1>3. \A d \in Day : GetDailySummary(d) = {} /\ DayTerms(d) = {}
  BY <1>1 DEF TInit, GetDailySummary, OrEmpty, DayTerms, Exists
<1>4. \A D \in SUBSET Day : RollupTerms(D) = {}
  BY DEF TInit, RollupTerms, OrEmpty
<1>5. /\ \A w \in Week : GetWeeklySummary(w) = {} /\ RollupTerms(WeekDays(w)) = {}
      /\ \A m \in Month : GetMonthlySummary(m) = {} /\ RollupTerms(MonthDays(m)) = {}
  BY <1>4 DEF TInit, GetWeeklySummary, GetMonthlySummary, OrEmpty, WeekDays, MonthDays
<1>6. NoGiveUps
  BY DEF TInit, Init, NoGiveUps, Idle
<1> QED
  BY <1>1, <1>2, <1>3, <1>5, <1>6
     DEF KnownInv, Exists, DaysExactInv, DaysInv, WeekWorkInv, WeekWork, PeriodsInv,
         WeeksInv, MonthsInv

(* When nothing is in progress, nothing is owed. *)
LEMMA QuietOwesNothing ==
    ASSUME Quiet
    PROVE  /\ \A g \in Rebuilder : ~Rebuilding(g)
           /\ \A r \in Request : chain[r].pc = "idle"
BY DEF Quiet, Free, Idle, Rebuilder, Rebuilding

(* Without faults, and while a user's requests do not overlap and no priced  *)
(* activity becomes unpriceable, the summary that is shown of every day is   *)
(* the aggregate of its activities as soon as nothing is in progress.        *)
THEOREM DaysAreExact ==
    TSpec /\ []Alone /\ []PricedStaysPriced => []DailySummariesExact
<1>1. TInit => KnownInv /\ DaysExactInv
  BY ExactInitially
<1>2. DayInv /\ KnownInv /\ [TNext]_tvars => KnownInv'
  BY KnownStep DEF DayInv, TimelineTypeOK
<1>3. DayInv /\ DayInv' /\ KnownInv /\ DaysExactInv /\ Alone /\ Alone'
         /\ PricedStaysPriced /\ PricedStaysPriced' /\ [TNext]_tvars
         => DaysExactInv'
  BY DaysStep
<1>4. DaysExactInv => DailySummariesExact
  BY QuietOwesNothing
     DEF DaysExactInv, DaysInv, DayOwed, RebuildOwesDay, JobOwesDay, DailySummariesExact
<1> QED
  BY <1>1, <1>2, <1>3, <1>4, DayInvariant, PTL DEF TSpec

(* If moreover the two rebuilds of a move do not meet in one period, the     *)
(* weeks and months are the sums of their days.                              *)
THEOREM SummariesAreExact ==
    TSpec /\ []Alone /\ []PricedStaysPriced /\ []RebuildsApart => []SummariesExact
<1>1. TInit => WeekWorkInv /\ PeriodsInv
  BY ExactInitially
<1>2. DayInv /\ WeekWorkInv /\ Alone /\ Alone' /\ RebuildsApart /\ [TNext]_tvars
         => WeekWorkInv'
  BY WeekWorkStep
<1>3. DayInv /\ WeekWorkInv /\ PeriodsInv /\ Alone /\ Alone' /\ RebuildsApart
         /\ [TNext]_tvars
         => PeriodsInv'
  BY PeriodsStep
<1>4. DailySummariesExact /\ PeriodsInv => SummariesExact
  BY QuietOwesNothing
     DEF DailySummariesExact, PeriodsInv, WeeksInv, MonthsInv, WeekOwedBy, MonthOwedBy,
         SummariesExact
<1> QED
  BY <1>1, <1>2, <1>3, <1>4, DaysAreExact, DayInvariant, PTL DEF TSpec
=============================================================================
