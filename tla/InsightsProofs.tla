--------------------------- MODULE InsightsProofs ---------------------------
(***************************************************************************)
(* Proofs about Insights: the types, that a period has one insight of a    *)
(* type unless evaluations overlap, and how many it has if they do.        *)
(***************************************************************************)
EXTENDS Insights, FiniteSetTheorems, TLAPS

(* The kind of row a rule inserts is one of the table's. *)
LEMMA KindOfRule ==
    ASSUME NEW i \in 1..4, NEW d \in Day
    PROVE  /\ KindOf(i, d) \in Kind
           /\ (KindOf(i, d)[1] = "streak") = (i = 1)
<1>1. Monday(d) \in Week
  BY DEF Week
<1>2. /\ Rules[1] = "streak" /\ Rules[2] = "weekly_comparison"
      /\ Rules[3] = "mode_spike" /\ Rules[4] = "mode_summary"
  BY DEF Rules
<1>3. CASE i = 1
  BY <1>2, <1>3 DEF KindOf, Kind
<1>4. CASE i \in 2..4
  BY <1>1, <1>2, <1>4 DEF KindOf, Kind
<1> QED
  BY <1>3, <1>4

(* The fields of a handler. *)
LEMMA JobFields ==
    ASSUME NEW j \in Job
    PROVE  /\ j # Null /\ j.day \in Day /\ j.stale \in BOOLEAN
           /\ j.rule \in 1..5 /\ j.found \in BOOLEAN
BY NullAssumption DEF Job

(* A handler that goes on to its next rule is still one. *)
LEMMA NextRule ==
    ASSUME NEW j \in Job, j.rule \in 1..4
    PROVE  /\ [j EXCEPT !.rule = j.rule + 1] \in Job
           /\ [j EXCEPT !.found = FALSE, !.rule = j.rule + 1] \in Job
<1>1. j.rule + 1 \in 1..5
  OBVIOUS
<1>2. \A n \in 1..5 :
        /\ [j EXCEPT !.rule = n] \in Job
        /\ [j EXCEPT !.found = FALSE, !.rule = n] \in Job
  BY DEF Job
<1> QED
  BY <1>1, <1>2

-----------------------------------------------------------------------------
(* Types *)

(* The first tables are typed. *)
LEMMA InitTypes == Init => InsightsTypeOK
BY InsightsAssumption DEF Init, InsightsTypeOK, Logged

(* What a step does to the handlers: one of them goes on, or one starts. *)
LEMMA ChangeJob ==
    ASSUME InsightsTypeOK, NEW e \in Event, NEW a \in Activity, NEW d \in Day, Change(e, a, d)
    PROVE  /\ job[e] = Null /\ job' = [job EXCEPT ![e] = Started(d)] /\ Started(d) \in Job
           /\ UNCHANGED <<insights, faults>>
           /\ clash' = clash \cup Overlaps(job')
BY DEF Change, Track, Started, Job

(* What a recompute does to its handler. *)
LEMMA RecomputeJob ==
    ASSUME InsightsTypeOK, NEW e \in Event, Recompute(e)
    PROVE  /\ job[e] \in Job
           /\ job' = [job EXCEPT ![e] = [job[e] EXCEPT !.stale = FALSE]]
           /\ UNCHANGED <<insights, faults>>
           /\ clash' = clash \cup Overlaps(job')
BY DEF Recompute, Recomputing, Track, InsightsTypeOK

(* What a rule that looks does to its handler. *)
LEMMA EvaluateJob ==
    ASSUME InsightsTypeOK, NEW e \in Event, Evaluate(e)
    PROVE  /\ job[e] \in Job /\ job[e].rule \in 1..4 /\ ~job[e].found
           /\ \/ /\ job' = [job EXCEPT ![e] = [job[e] EXCEPT !.found = TRUE]]
                 /\ insights[KindOf(job[e].rule, job[e].day)] = 0
              \/ job' = [job EXCEPT ![e] = [job[e] EXCEPT !.rule = job[e].rule + 1]]
           /\ UNCHANGED <<insights, faults>>
           /\ clash' = clash \cup Overlaps(job')
BY DEF Evaluate, Evaluating, IsDue, Track, InsightsTypeOK

(* What a rule that inserts does to its handler. *)
LEMMA CreateJob ==
    ASSUME InsightsTypeOK, NEW e \in Event, Create(e)
    PROVE  /\ job[e] \in Job /\ job[e].rule \in 1..4 /\ job[e].found
           /\ job' = [job EXCEPT ![e] =
                        [job[e] EXCEPT !.found = FALSE, !.rule = job[e].rule + 1]]
           /\ insights' = [insights EXCEPT ![KindOf(job[e].rule, job[e].day)] =
                             insights[KindOf(job[e].rule, job[e].day)] + 1]
           /\ faults' = faults
           /\ clash' = clash \cup Overlaps(job')
BY DEF Create, Evaluating, Track, InsightsTypeOK

(* What a failed statement does to its handler. *)
LEMMA FailJob ==
    ASSUME InsightsTypeOK, NEW e \in Event, Fail(e)
    PROVE  /\ job[e] \in Job
           /\ \/ /\ job[e].rule \in 1..4
                 /\ job' = [job EXCEPT ![e] =
                              [job[e] EXCEPT !.found = FALSE, !.rule = job[e].rule + 1]]
              \/ /\ job[e].rule = 1
                 /\ job' = [job EXCEPT ![e] = [job[e] EXCEPT !.found = TRUE]]
              \/ job' = [job EXCEPT ![e] = [job[e] EXCEPT !.stale = FALSE]]
           /\ insights' = insights /\ faults' \in Nat /\ faults' > 0
           /\ clash' = clash \cup Overlaps(job')
<1>1. /\ job[e] \in Job /\ faults \in Nat /\ faults' = faults + 1 /\ insights' = insights
  BY InsightsAssumption DEF Fail, Evaluating, Recomputing, InsightsTypeOK
<1>2. faults' \in Nat /\ faults' > 0
  BY <1>1
<1>3. clash' = clash \cup Overlaps(job')
  BY DEF Fail, Track
<1>4. \/ /\ job[e].rule \in 1..4
         /\ job' = [job EXCEPT ![e] =
                      [job[e] EXCEPT !.found = FALSE, !.rule = job[e].rule + 1]]
      \/ /\ job[e].rule = 1
         /\ job' = [job EXCEPT ![e] = [job[e] EXCEPT !.found = TRUE]]
      \/ job' = [job EXCEPT ![e] = [job[e] EXCEPT !.stale = FALSE]]
  BY DEF Fail, Evaluating, Track
<1> QED
  BY <1>1, <1>2, <1>3, <1>4

(* Every step keeps the types. *)
LEMMA StepTypes ==
    ASSUME InsightsTypeOK, [Next]_vars
    PROVE  InsightsTypeOK'
<1>0. CASE UNCHANGED vars
  BY <1>0 DEF vars, InsightsTypeOK
<1>1. ASSUME NEW e \in Event, NEW a \in Activity, NEW d \in Day, Change(e, a, d)
      PROVE  InsightsTypeOK'
  <2>1. job' \in [Event -> Job \cup {Null}] /\ UNCHANGED <<insights, faults>>
    BY <1>1, ChangeJob DEF InsightsTypeOK
  <2>2. acts' \in [Activity -> Logged \cup {Null}]
    BY <1>1 DEF Change, Logged, InsightsTypeOK
  <2> QED
    BY <2>1, <2>2 DEF InsightsTypeOK
<1>2. ASSUME NEW e \in Event, Recompute(e)
      PROVE  InsightsTypeOK'
  <2>1. /\ job' = [job EXCEPT ![e] = [job[e] EXCEPT !.stale = FALSE]]
        /\ [job[e] EXCEPT !.stale = FALSE] \in Job
        /\ UNCHANGED <<acts, insights, faults>>
    BY <1>2, RecomputeJob DEF Recompute, Job
  <2> QED
    BY <2>1 DEF InsightsTypeOK
<1>3. ASSUME NEW e \in Event, Evaluate(e)
      PROVE  InsightsTypeOK'
  <2>1. PICK j \in Job : job' = [job EXCEPT ![e] = j]
    <3>1. job[e] \in Job /\ job[e].rule \in 1..4
      BY <1>3, EvaluateJob
    <3>2. /\ [job[e] EXCEPT !.found = TRUE] \in Job
          /\ [job[e] EXCEPT !.rule = job[e].rule + 1] \in Job
      BY <3>1, NextRule DEF Job
    <3> QED
      BY <1>3, <3>2, EvaluateJob
  <2> QED
    BY <1>3, <2>1 DEF Evaluate, InsightsTypeOK
<1>4. ASSUME NEW e \in Event, Create(e)
      PROVE  InsightsTypeOK'
  <2>1. job[e] \in Job /\ job[e].rule \in 1..4
    BY <1>4, CreateJob
  <2>2. [job[e] EXCEPT !.found = FALSE, !.rule = job[e].rule + 1] \in Job
    BY <2>1, NextRule
  <2>3. KindOf(job[e].rule, job[e].day) \in Kind
    BY <2>1, JobFields, KindOfRule
  <2>4. insights' \in [Kind -> Nat]
    <3> DEFINE kind == KindOf(job[e].rule, job[e].day)
    <3>1. insights' = [insights EXCEPT ![kind] = insights[kind] + 1] /\ kind \in Kind
      BY <1>4, <2>3, CreateJob
    <3>2. insights \in [Kind -> Nat]
      BY DEF InsightsTypeOK
    <3> HIDE DEF kind
    <3> QED
      BY <3>1, <3>2
  <2>5. job' \in [Event -> Job \cup {Null}] /\ UNCHANGED <<acts, faults>>
    BY <1>4, <2>2, CreateJob DEF Create, InsightsTypeOK
  <2> QED
    BY <2>4, <2>5 DEF InsightsTypeOK
<1>5. ASSUME NEW e \in Event, Fail(e)
      PROVE  InsightsTypeOK'
  <2>1. job[e] \in Job
    BY <1>5, FailJob
  <2>2. PICK j \in Job : job' = [job EXCEPT ![e] = j]
    <3>1. /\ [job[e] EXCEPT !.found = TRUE] \in Job /\ [job[e] EXCEPT !.stale = FALSE] \in Job
      BY <2>1 DEF Job
    <3>2. job[e].rule \in 1..4 =>
            [job[e] EXCEPT !.found = FALSE, !.rule = job[e].rule + 1] \in Job
      BY <2>1, NextRule
    <3> QED
      BY <1>5, <3>1, <3>2, FailJob
  <2>3. faults' \in 0..MaxFaults /\ UNCHANGED <<acts, insights>>
    BY <1>5, InsightsAssumption DEF Fail, InsightsTypeOK
  <2> QED
    BY <2>2, <2>3 DEF InsightsTypeOK
<1> QED
  BY <1>0, <1>1, <1>2, <1>3, <1>4, <1>5 DEF Next

(* Theorem: the types hold in every reachable state. *)
THEOREM TypesAreKept == Spec => []InsightsTypeOK
BY InitTypes, StepTypes, PTL DEF Spec

-----------------------------------------------------------------------------
(* One insight for a period *)

(* As long as no two evaluations overlapped, the one that found its rule    *)
(* due is alone, and what it found still holds.                            *)
Alone == \A e, f \in Event : Evaluating(e) /\ Evaluating(f) => e = f
FoundHolds ==
    \A e \in Event :
        Evaluating(e) /\ job[e].found =>
            \/ insights[KindOf(job[e].rule, job[e].day)] = 0
            \/ job[e].rule = 1 /\ faults > 0
OnceInv ==
    "rules" \notin clash =>
        /\ Alone
        /\ FoundHolds
        /\ \A k \in Kind : insights[k] <= 1 \/ (k[1] = "streak" /\ faults > 0)

(* No insight is there at first. *)
LEMMA InitOnce == Init => OnceInv
<1> SUFFICES ASSUME Init PROVE OnceInv
  OBVIOUS
<1>1. /\ \A e \in Event : ~Evaluating(e)
      /\ \A k \in Kind : insights[k] = 0
  BY DEF Init, Evaluating
<1> QED
  BY <1>1 DEF OnceInv, Alone, FoundHolds

(* Without an overlap in the history, evaluations are alone now. *)
LEMMA NoOverlap ==
    ASSUME clash' = clash \cup Overlaps(job'), "rules" \notin clash'
    PROVE  "rules" \notin clash /\ Alone'
<1>1. "rules" \notin Overlaps(job')
  OBVIOUS
<1> QED
  BY <1>1 DEF Overlaps, Alone, Evaluating

(* Every step keeps the insights of a period single. *)
LEMMA StepOnce ==
    ASSUME InsightsTypeOK, OnceInv, [Next]_vars
    PROVE  OnceInv'
<1>0. CASE UNCHANGED vars
  BY <1>0 DEF vars, OnceInv, Alone, FoundHolds, Evaluating
<1> SUFFICES ASSUME Next PROVE OnceInv'
  BY <1>0
<1> SUFFICES ASSUME "rules" \notin clash'
             PROVE  /\ Alone' /\ FoundHolds'
                    /\ \A k \in Kind : insights'[k] <= 1 \/ (k[1] = "streak" /\ faults' > 0)
  BY DEF OnceInv
<1>1. ASSUME NEW e \in Event, NEW a \in Activity, NEW d \in Day, Change(e, a, d)
      PROVE  /\ Alone' /\ FoundHolds'
             /\ \A k \in Kind : insights'[k] <= 1 \/ (k[1] = "streak" /\ faults' > 0)
  <2>1. /\ job' = [job EXCEPT ![e] = Started(d)] /\ UNCHANGED <<insights, faults>>
        /\ "rules" \notin clash /\ Alone'
    BY <1>1, ChangeJob, NoOverlap
  <2>2. FoundHolds'
    BY <2>1 DEF OnceInv, FoundHolds, Evaluating, Started, InsightsTypeOK
  <2> QED
    BY <2>1, <2>2 DEF OnceInv
<1>2. ASSUME NEW e \in Event, Recompute(e)
      PROVE  /\ Alone' /\ FoundHolds'
             /\ \A k \in Kind : insights'[k] <= 1 \/ (k[1] = "streak" /\ faults' > 0)
  <2>1. /\ job[e] \in Job /\ job' = [job EXCEPT ![e] = [job[e] EXCEPT !.stale = FALSE]]
        /\ UNCHANGED <<insights, faults>>
        /\ "rules" \notin clash /\ Alone'
    BY <1>2, RecomputeJob, NoOverlap
  <2>2. FoundHolds'
    BY <2>1, NullAssumption DEF OnceInv, FoundHolds, Evaluating, Job, InsightsTypeOK
  <2> QED
    BY <2>1, <2>2 DEF OnceInv
<1>3. ASSUME NEW e \in Event, Evaluate(e)
      PROVE  /\ Alone' /\ FoundHolds'
             /\ \A k \in Kind : insights'[k] <= 1 \/ (k[1] = "streak" /\ faults' > 0)
  <2>1. /\ job[e] \in Job /\ job[e].rule \in 1..4 /\ ~job[e].found
        /\ UNCHANGED <<insights, faults>>
        /\ "rules" \notin clash /\ Alone'
    BY <1>3, EvaluateJob, NoOverlap
  <2>2. FoundHolds'
    <3>1. CASE /\ job' = [job EXCEPT ![e] = [job[e] EXCEPT !.found = TRUE]]
               /\ insights[KindOf(job[e].rule, job[e].day)] = 0
      BY <2>1, <3>1, NullAssumption DEF OnceInv, FoundHolds, Evaluating, Job, InsightsTypeOK
    <3>2. CASE job' = [job EXCEPT ![e] = [job[e] EXCEPT !.rule = job[e].rule + 1]]
      BY <2>1, <3>2, NullAssumption DEF OnceInv, FoundHolds, Evaluating, Job, InsightsTypeOK
    <3> QED
      BY <1>3, <3>1, <3>2, EvaluateJob
  <2> QED
    BY <2>1, <2>2 DEF OnceInv
<1>4. ASSUME NEW e \in Event, Create(e)
      PROVE  /\ Alone' /\ FoundHolds'
             /\ \A k \in Kind : insights'[k] <= 1 \/ (k[1] = "streak" /\ faults' > 0)
  <2> DEFINE i == job[e].rule
             kind == KindOf(job[e].rule, job[e].day)
  <2>1. /\ job[e] \in Job /\ i \in 1..4 /\ job[e].found
        /\ job' = [job EXCEPT ![e] = [job[e] EXCEPT !.found = FALSE, !.rule = i + 1]]
        /\ insights' = [insights EXCEPT ![kind] = insights[kind] + 1] /\ faults' = faults
        /\ "rules" \notin clash /\ Alone'
    BY <1>4, CreateJob, NoOverlap
  <2>2. kind \in Kind /\ (kind[1] = "streak") = (i = 1) /\ job[e] # Null
    BY <2>1, KindOfRule, JobFields
  <2>3. \A f \in Event : Evaluating(f) => f = e
    BY <2>1, <2>2 DEF OnceInv, Alone, Evaluating
  <2>4. insights[kind] = 0 \/ (i = 1 /\ faults > 0)
    BY <2>1, <2>2 DEF OnceInv, FoundHolds, Evaluating
  <2>5. FoundHolds'
    BY <2>1, <2>3 DEF FoundHolds, Evaluating, Job, InsightsTypeOK
  <2>6. ASSUME NEW k \in Kind
        PROVE  insights'[k] <= 1 \/ (k[1] = "streak" /\ faults' > 0)
    <3>1. CASE k = kind
      BY <2>1, <2>2, <2>4, <3>1 DEF InsightsTypeOK
    <3>2. CASE k # kind
      BY <2>1, <2>2, <3>2 DEF InsightsTypeOK, OnceInv
    <3> QED
      BY <3>1, <3>2
  <2> QED
    BY <2>1, <2>5, <2>6
<1>5. ASSUME NEW e \in Event, Fail(e)
      PROVE  /\ Alone' /\ FoundHolds'
             /\ \A k \in Kind : insights'[k] <= 1 \/ (k[1] = "streak" /\ faults' > 0)
  <2>1. /\ job[e] \in Job /\ insights' = insights /\ faults' > 0 /\ faults' \in Nat
        /\ "rules" \notin clash /\ Alone'
    BY <1>5, FailJob, NoOverlap
  <2>2. \A f \in Event :
          Evaluating(f)' /\ job'[f].found =>
            \/ job'[f].rule = 1
            \/ /\ Evaluating(f) /\ job[f].found
               /\ job'[f].rule = job[f].rule /\ job'[f].day = job[f].day
    <3>1. CASE job' = [job EXCEPT ![e] = [job[e] EXCEPT !.found = FALSE, !.rule = job[e].rule + 1]]
      BY <2>1, <3>1 DEF Evaluating, Job, InsightsTypeOK
    <3>2. CASE /\ job[e].rule = 1
               /\ job' = [job EXCEPT ![e] = [job[e] EXCEPT !.found = TRUE]]
      BY <2>1, <3>2 DEF Evaluating, Job, InsightsTypeOK
    <3>3. CASE job' = [job EXCEPT ![e] = [job[e] EXCEPT !.stale = FALSE]]
      BY <2>1, <3>3, NullAssumption DEF Evaluating, Job, InsightsTypeOK
    <3> QED
      BY <1>5, <3>1, <3>2, <3>3, FailJob
  <2>3. FoundHolds'
    BY <2>1, <2>2 DEF OnceInv, FoundHolds
  <2> QED
    BY <2>1, <2>3 DEF OnceInv
<1> QED
  BY <1>1, <1>2, <1>3, <1>4, <1>5 DEF Next

(* Theorem: with any number of events and rules' outcomes, a period has one *)
(* insight of a type unless evaluations overlapped or the check of the     *)
(* streak failed (mode_summary.go:42, streak.go:35).                       *)
THEOREM PeriodsHaveOneInsight == Spec => []InsightOnce
<1>1. OnceInv => InsightOnce
  BY DEF OnceInv, InsightOnce
<1> QED
  BY <1>1, TypesAreKept, InitOnce, StepOnce, PTL DEF Spec

-----------------------------------------------------------------------------
(* However many events overlap *)

(* The events whose evaluation is past the rule for k. *)
Spent(j, k) ==
    {e \in Event : j[e] # Null /\ \E i \in 1..4 : KindOf(i, j[e].day) = k /\ i < j[e].rule}
SpentInv == \A k \in Kind : insights[k] <= Cardinality(Spent(job, k))

(* The events that reached a period are finitely many. *)
LEMMA SpentFinite ==
    ASSUME NEW j, NEW k
    PROVE  IsFiniteSet(Spent(j, k)) /\ Cardinality(Spent(j, k)) \in Nat
<1>1. Spent(j, k) \subseteq Event
  BY DEF Spent
<1> QED
  BY <1>1, InsightsAssumption, FS_Subset, FS_CardinalityType

(* Two rules never insert rows of one type. *)
LEMMA RulesDiffer ==
    ASSUME NEW i \in 1..4, NEW j \in 1..4, NEW d, NEW c, KindOf(i, d) = KindOf(j, c)
    PROVE  i = j
<1>1. /\ Rules[1] = "streak" /\ Rules[2] = "weekly_comparison"
      /\ Rules[3] = "mode_spike" /\ Rules[4] = "mode_summary"
  BY DEF Rules
<1>2. Rules[i] = Rules[j]
  BY DEF KindOf
<1>3. i \in {1, 2, 3, 4} /\ j \in {1, 2, 3, 4}
  OBVIOUS
<1> QED
  BY <1>1, <1>2, <1>3

(* No event is spent at first. *)
LEMMA InitSpent == Init => SpentInv
<1> SUFFICES ASSUME Init, NEW k \in Kind
             PROVE  insights[k] <= Cardinality(Spent(job, k))
  BY DEF SpentInv
<1>1. insights[k] = 0
  BY DEF Init
<1> QED
  BY <1>1, SpentFinite

(* A handler that goes on, on the same day, has spent no less. *)
LEMMA SpentGrows ==
    ASSUME InsightsTypeOK, NEW e \in Event, NEW q \in Job, job' = [job EXCEPT ![e] = q],
           job[e] # Null => q.day = job[e].day /\ job[e].rule <= q.rule, NEW k
    PROVE  /\ Spent(job, k) \subseteq Spent(job', k)
           /\ Cardinality(Spent(job, k)) <= Cardinality(Spent(job', k))
<1>1. q.rule \in Int /\ (job[e] # Null => job[e].rule \in Int) /\ q # Null
  BY JobFields DEF InsightsTypeOK
<1>2. \A f \in Event : job'[f] = IF f = e THEN q ELSE job[f]
  BY DEF InsightsTypeOK
<1>3. ASSUME NEW f \in Spent(job, k)
      PROVE  f \in Spent(job', k)
  <2>1. PICK i \in 1..4 : KindOf(i, job[f].day) = k /\ i < job[f].rule
    BY DEF Spent
  <2>2. f \in Event /\ job[f] # Null
    BY DEF Spent
  <2>3. CASE f = e
    <3>1. job'[f] = q /\ q.day = job[f].day /\ job[f].rule <= q.rule
      BY <1>2, <2>2, <2>3
    <3>2. i < q.rule
      BY <1>1, <2>1, <2>2, <2>3, <3>1
    <3> QED
      BY <1>1, <2>1, <2>2, <3>1, <3>2 DEF Spent
  <2>4. CASE f # e
    BY <1>2, <2>1, <2>2, <2>4 DEF Spent
  <2> QED
    BY <2>3, <2>4
<1>4. Spent(job, k) \subseteq Spent(job', k)
  BY <1>3
<1> QED
  BY <1>4, SpentFinite, FS_Subset

(* What the steps make of a handler. *)
Onward(j, q) == q \in Job /\ q.day = j.day /\ j.rule <= q.rule
(* A handler keeps its date and goes on through its rules. *)
LEMMA HandlersGoOn ==
    ASSUME NEW j \in Job
    PROVE  /\ Onward(j, [j EXCEPT !.stale = FALSE])
           /\ Onward(j, [j EXCEPT !.found = TRUE])
           /\ j.rule \in 1..4 => Onward(j, [j EXCEPT !.rule = j.rule + 1])
           /\ j.rule \in 1..4 => Onward(j, [j EXCEPT !.found = FALSE, !.rule = j.rule + 1])
<1>1. j.rule \in Int /\ j.rule <= j.rule /\ j.rule <= j.rule + 1
  BY JobFields
<1>2. Onward(j, [j EXCEPT !.stale = FALSE])
  BY <1>1 DEF Onward, Job
<1>3. Onward(j, [j EXCEPT !.found = TRUE])
  BY <1>1 DEF Onward, Job
<1>4. ASSUME j.rule \in 1..4
      PROVE  /\ Onward(j, [j EXCEPT !.rule = j.rule + 1])
             /\ Onward(j, [j EXCEPT !.found = FALSE, !.rule = j.rule + 1])
  <2>1. /\ [j EXCEPT !.rule = j.rule + 1].day = j.day
        /\ [j EXCEPT !.rule = j.rule + 1].rule = j.rule + 1
        /\ [j EXCEPT !.found = FALSE, !.rule = j.rule + 1].day = j.day
        /\ [j EXCEPT !.found = FALSE, !.rule = j.rule + 1].rule = j.rule + 1
    BY DEF Job
  <2> QED
    BY <1>1, <1>4, <2>1, NextRule DEF Onward
<1> QED
  BY <1>2, <1>3, <1>4

(* Every step spends at most one event on an insight. *)
LEMMA StepSpent ==
    ASSUME InsightsTypeOK, SpentInv, [Next]_vars
    PROVE  SpentInv'
<1> SUFFICES ASSUME NEW k \in Kind
             PROVE  insights'[k] <= Cardinality(Spent(job', k))
  BY DEF SpentInv, Spent
<1>0. /\ insights[k] \in Nat /\ insights[k] <= Cardinality(Spent(job, k))
      /\ Cardinality(Spent(job, k)) \in Nat /\ Cardinality(Spent(job', k)) \in Nat
  BY SpentFinite DEF SpentInv, InsightsTypeOK
<1>1. CASE UNCHANGED vars
  BY <1>0, <1>1 DEF vars, Spent
<1>2. ASSUME NEW e \in Event, NEW q, job' = [job EXCEPT ![e] = q], insights' = insights,
             q \in Job, job[e] # Null => Onward(job[e], q)
      PROVE  insights'[k] <= Cardinality(Spent(job', k))
  <2>1. Cardinality(Spent(job, k)) <= Cardinality(Spent(job', k))
    BY <1>2, SpentGrows DEF Onward
  <2> QED
    BY <1>0, <1>2, <2>1
<1>3. ASSUME NEW e \in Event, NEW a \in Activity, NEW d \in Day, Change(e, a, d)
      PROVE  insights'[k] <= Cardinality(Spent(job', k))
  BY <1>2, <1>3, ChangeJob
<1>4. ASSUME NEW e \in Event, \/ Recompute(e) \/ Evaluate(e) \/ Fail(e)
      PROVE  insights'[k] <= Cardinality(Spent(job', k))
  <2>1. job[e] \in Job /\ insights' = insights
    BY <1>4, RecomputeJob, EvaluateJob, FailJob
  <2>2. \/ job' = [job EXCEPT ![e] = [job[e] EXCEPT !.stale = FALSE]]
        \/ job' = [job EXCEPT ![e] = [job[e] EXCEPT !.found = TRUE]]
        \/ /\ job[e].rule \in 1..4
           /\ \/ job' = [job EXCEPT ![e] = [job[e] EXCEPT !.rule = job[e].rule + 1]]
              \/ job' = [job EXCEPT ![e] =
                           [job[e] EXCEPT !.found = FALSE, !.rule = job[e].rule + 1]]
    <3>1. CASE Recompute(e)
      BY <3>1, RecomputeJob
    <3>2. CASE Evaluate(e)
      BY <3>2, EvaluateJob
    <3>3. CASE Fail(e)
      BY <3>3, FailJob
    <3> QED
      BY <1>4, <3>1, <3>2, <3>3
  <2>3. PICK q : job' = [job EXCEPT ![e] = q] /\ Onward(job[e], q)
    BY <2>1, <2>2, HandlersGoOn
  <2> QED
    BY <1>2, <2>1, <2>3 DEF Onward
<1>5. ASSUME NEW e \in Event, Create(e)
      PROVE  insights'[k] <= Cardinality(Spent(job', k))
  <2> DEFINE i == job[e].rule
             kind == KindOf(i, job[e].day)
             q == [job[e] EXCEPT !.found = FALSE, !.rule = i + 1]
  <2>1. /\ job[e] \in Job /\ i \in 1..4 /\ job' = [job EXCEPT ![e] = q]
        /\ insights' = [insights EXCEPT ![kind] = insights[kind] + 1]
    BY <1>5, CreateJob
  <2>2. /\ q \in Job /\ q.day = job[e].day /\ q.rule = i + 1
    BY <2>1, NextRule DEF Job
  <2>3. /\ Spent(job, k) \subseteq Spent(job', k)
        /\ Cardinality(Spent(job, k)) <= Cardinality(Spent(job', k))
    <3>1. job[e] # Null => q.day = job[e].day /\ job[e].rule <= q.rule
      BY <2>1, <2>2
    <3> HIDE DEF q, i
    <3> QED
      BY <2>1, <2>2, <3>1, SpentGrows
  <2>4. CASE k = kind
    <3>1. e \notin Spent(job, k)
      BY <2>1, <2>4, RulesDiffer DEF Spent
    <3>2. e \in Spent(job', k)
      <4>1. job'[e] = q /\ q # Null
        BY <2>1, <2>2, JobFields DEF InsightsTypeOK
      <4>2. i \in 1..4 /\ KindOf(i, q.day) = k /\ i < q.rule
        BY <2>1, <2>2, <2>4
      <4> HIDE DEF q, i
      <4> QED
        BY <4>1, <4>2 DEF Spent
    <3>3. Cardinality(Spent(job, k) \cup {e}) = Cardinality(Spent(job, k)) + 1
      BY <3>1, SpentFinite, FS_AddElement
    <3>4. Cardinality(Spent(job, k) \cup {e}) <= Cardinality(Spent(job', k))
      <4>1. (Spent(job, k) \cup {e}) \subseteq Spent(job', k)
        BY <2>3, <3>2
      <4> QED
        BY <4>1, SpentFinite, FS_Subset
    <3>5. insights'[k] = insights[k] + 1
      BY <2>1, <2>4 DEF InsightsTypeOK
    <3> QED
      BY <1>0, <3>3, <3>4, <3>5
  <2>5. CASE k # kind
    <3>1. insights'[k] = insights[k]
      BY <2>1, <2>5 DEF InsightsTypeOK
    <3> QED
      BY <1>0, <2>3, <3>1
  <2> QED
    BY <2>4, <2>5
<1> QED
  BY <1>1, <1>3, <1>4, <1>5 DEF Next

(* Theorem: even overlapping, and with failing statements, a period gets at *)
(* most one row of a type for each event that reached it.                  *)
THEOREM InsightsAreBounded == Spec => []InsightsNeedEvents
<1>1. InsightsTypeOK /\ SpentInv => InsightsNeedEvents
  <2> SUFFICES ASSUME InsightsTypeOK, SpentInv, NEW k \in Kind
               PROVE  insights[k] <= Cardinality({e \in Event : Reached(e, k)})
    BY DEF InsightsNeedEvents
  <2>1. Spent(job, k) \subseteq {e \in Event : Reached(e, k)}
    BY DEF Spent, Reached
  <2>2. IsFiniteSet({e \in Event : Reached(e, k)})
    BY InsightsAssumption, FS_Subset
  <2>3. /\ Cardinality(Spent(job, k)) <= Cardinality({e \in Event : Reached(e, k)})
        /\ Cardinality({e \in Event : Reached(e, k)}) \in Nat
    BY <2>1, <2>2, FS_Subset, FS_CardinalityType
  <2>4. insights[k] \in Nat /\ insights[k] <= Cardinality(Spent(job, k))
    BY DEF SpentInv, InsightsTypeOK
  <2> QED
    BY <2>3, <2>4, SpentFinite
<1> QED
  BY <1>1, TypesAreKept, InitSpent, StepSpent, PTL DEF Spec

-----------------------------------------------------------------------------
(* The summary of a week *)

(* A day is of the week that begins on its Monday, and of no other. *)
LEMMA WeekOfDay ==
    ASSUME NEW w \in Week, NEW d \in Day
    PROVE  d \in w..(w + 6) <=> Monday(d) = w
<1>1. PICK c \in Day : w = Monday(c)
  BY DEF Week
<1>2. c \in Nat /\ d \in Nat
  BY InsightsAssumption
<1> QED
  BY <1>1, <1>2 DEF Monday, Weekday

\* The rows of the summaries are exact, but for what is about to be recomputed.
WeeksInv ==
    \A w \in Week :
        LoggedOn(w..(w + 6)) # {} =>
            \/ weekly[w] = Summary(w)
            \/ \E e \in Event : Recomputing(e) /\ Monday(job[e].day) = w

\* No evaluation reads summaries beside a recompute.
FreshInv ==
    \A e, f \in Event : job[e] # Null /\ job[e].rule \in 2..4 => ~Recomputing(f)

\* A week that lacks its insight is being evaluated.
\* (A rule that has found the insight due goes on to insert it.)
EvaluatedInv ==
    \A w \in Week :
        Cardinality(LoggedOn(w..(w + 6))) >= 3 =>
            \/ insights[<<"mode_summary", w>>] > 0
            \/ \E e \in Event : Evaluating(e) /\ Monday(job[e].day) = w

WeekInv ==
    "stale" \notin clash /\ faults = 0 => WeeksInv /\ FreshInv /\ EvaluatedInv

(* The tables are functions of the activities, the weeks and the types. *)
TablesOK ==
    /\ acts \in [Activity -> Logged \cup {Null}]
    /\ DOMAIN weekly = Week

(* Every step keeps the tables functions. *)
LEMMA TablesStep ==
    ASSUME TablesOK, [Next]_vars
    PROVE  TablesOK'
<1>1. ASSUME NEW e \in Event, NEW a \in Activity, NEW d \in Day, Change(e, a, d)
      PROVE  TablesOK'
  <2>1. \A m \in Mode : [day |-> d, mode |-> m] \in Logged
    BY DEF Logged
  <2>2. acts' \in [Activity -> Logged \cup {Null}]
    BY <1>1, <2>1 DEF Change, TablesOK
  <2> QED
    BY <1>1, <2>2 DEF Change, TablesOK
<1>2. ASSUME NEW e \in Event, Recompute(e) PROVE TablesOK'
  BY <1>2 DEF Recompute, TablesOK
<1>3. ASSUME NEW e \in Event, Evaluate(e) \/ Create(e) \/ Fail(e) PROVE TablesOK'
  BY <1>3 DEF Evaluate, Create, Fail, TablesOK
<1>4. CASE UNCHANGED vars
  BY <1>4 DEF vars, TablesOK
<1> QED
  BY <1>1, <1>2, <1>3, <1>4 DEF Next

(* An activity counts for the week of its day only. *)
LEMMA OtherWeeksStay ==
    ASSUME TablesOK, NEW e \in Event, NEW a \in Activity, NEW d \in Day, Change(e, a, d),
           NEW w \in Week, Monday(d) # w
    PROVE  LoggedOn(w..(w + 6))' = LoggedOn(w..(w + 6)) /\ Summary(w)' = Summary(w)
<1>0. /\ \A b \in Activity : b # a => acts'[b] = acts[b]
      /\ acts[a] # Null => acts[a].day = d
      /\ acts'[a] # Null => acts'[a].day = d
  BY DEF Change, TablesOK, Logged
<1>1. d \notin w..(w + 6)
  BY WeekOfDay
<1>2. \A b \in Activity :
         acts'[b] # Null /\ acts'[b].day \in w..(w + 6)
            <=> acts[b] # Null /\ acts[b].day \in w..(w + 6)
  BY <1>0, <1>1
<1>3. LoggedIn(acts', w..(w + 6)) = LoggedIn(acts, w..(w + 6))
  BY <1>2 DEF LoggedIn
<1> DEFINE S == LoggedIn(acts, w..(w + 6))
           high(f) == {b \in S : f[b].mode \in HighEmission}
<1>4. \A b \in S : acts'[b] = acts[b]
  BY <1>0, <1>1, <1>3 DEF LoggedIn
<1>5. KgOf(acts', S) = KgOf(acts, S)
  <2>1. [b \in S |-> Kg[acts'[b].mode]] = [b \in S |-> Kg[acts[b].mode]]
    BY <1>4
  <2> QED
    BY <2>1 DEF KgOf
<1>6. KgOf(acts', high(acts')) = KgOf(acts, high(acts))
  <2>1. high(acts') = high(acts)
    BY <1>4
  <2>2. [b \in high(acts) |-> Kg[acts'[b].mode]] = [b \in high(acts) |-> Kg[acts[b].mode]]
    BY <1>4
  <2> QED
    BY <2>1, <2>2 DEF KgOf
<1>7. SummaryOf(acts', w) = SummaryOf(acts, w)
  BY <1>3, <1>5, <1>6 DEF SummaryOf
<1> QED
  BY <1>3, <1>7 DEF LoggedOn, Summary

(* While no evaluation overlaps a recompute, none reads a stale row. *)
LEMMA FreshStep ==
    ASSUME clash' = clash \cup Overlaps(job'), "stale" \notin clash'
    PROVE  "stale" \notin clash /\ FreshInv'
<1>1. "stale" \notin Overlaps(job')
  OBVIOUS
<1>2. ASSUME NEW e \in Event, NEW f \in Event, job'[e] # Null, job'[e].rule \in 2..4,
             job'[f] # Null, job'[f].stale
      PROVE  FALSE
  BY <1>1, <1>2 DEF Overlaps
<1> QED
  BY <1>1, <1>2 DEF FreshInv, Recomputing

(* The rule for the summary is due where the row is exact and counts three. *)
LEMMA ExactRowsFire ==
    ASSUME TablesOK, NEW w \in Week, weekly[w] = Summary(w),
           Cardinality(LoggedOn(w..(w + 6))) >= 3
    PROVE  SummaryIsDue(w)
<1>1. Summary(w) # Null
  BY NullAssumption DEF TablesOK, Summary
<1>2. w \in Int
  BY InsightsAssumption DEF Week, Monday, Weekday
<1>3. w \in Listed(w, w)
  BY <1>1, <1>2 DEF Listed
<1>4. weekly[w].count = Cardinality(LoggedOn(w..(w + 6)))
  BY DEF Summary, SummaryOf, LoggedOn
<1> QED
  BY <1>3, <1>4 DEF SummaryIsDue

(* An evaluation of a week goes on until its insight is there. *)
LEMMA EvaluationsGoOn ==
    ASSUME InsightsTypeOK, TablesOK, WeeksInv, FreshInv, NEW w \in Week,
           Cardinality(LoggedOn(w..(w + 6))) >= 3, LoggedOn(w..(w + 6)) # {},
           NEW e \in Event, Evaluating(e), Monday(job[e].day) = w,
           Evaluate(e) \/ Create(e)
    PROVE  \/ insights'[<<"mode_summary", w>>] > 0
           \/ job'[e] # Null /\ job'[e].rule \in 1..4 /\ Monday(job'[e].day) = w
<1>0. job[e] \in Job /\ job[e].rule \in 1..4 /\ job[e].day \in Day
  BY JobFields DEF Evaluating, InsightsTypeOK
<1> DEFINE k == <<"mode_summary", w>>
<1>1. KindOf(4, job[e].day) = k /\ k \in Kind /\ insights[k] \in Nat
  <2>1. KindOf(4, job[e].day) = k
    BY DEF KindOf, Rules
  <2>2. KindOf(4, job[e].day) \in Kind
    BY <1>0, KindOfRule
  <2> QED
    BY <2>1, <2>2 DEF InsightsTypeOK
<1>2. ASSUME NEW j \in Job, job' = [job EXCEPT ![e] = j], j.day = job[e].day, j.rule \in 1..4
      PROVE  job'[e] # Null /\ job'[e].rule \in 1..4 /\ Monday(job'[e].day) = w
  BY <1>2, JobFields DEF InsightsTypeOK
<1>3. CASE Evaluate(e)
  <2>1. CASE job' = [job EXCEPT ![e] = [job[e] EXCEPT !.found = TRUE]]
    <3>1. /\ [job[e] EXCEPT !.found = TRUE] \in Job
          /\ [job[e] EXCEPT !.found = TRUE].day = job[e].day
          /\ [job[e] EXCEPT !.found = TRUE].rule = job[e].rule
      BY <1>0 DEF Job
    <3> QED
      BY <1>0, <1>2, <2>1, <3>1
  <2>2. CASE job[e].rule # 4 /\ job' = [job EXCEPT ![e] = [job[e] EXCEPT !.rule = job[e].rule + 1]]
    <3> DEFINE j == [job[e] EXCEPT !.rule = job[e].rule + 1]
    <3>1. j \in Job
      BY <1>0, NextRule
    <3>2. j.day = job[e].day /\ j.rule = job[e].rule + 1
      BY <1>0 DEF Job
    <3>3. j.rule \in 1..4
      BY <1>0, <2>2, <3>2
    <3> HIDE DEF j
    <3> QED
      BY <1>2, <2>2, <3>1, <3>2, <3>3 DEF j
  <2>3. CASE job[e].rule = 4 /\ ~IsDue(4, job[e].day)
    <3>1. \A f \in Event : ~Recomputing(f)
      BY <1>0, <2>3 DEF FreshInv, Evaluating
    <3>2. weekly[w] = Summary(w)
      BY <3>1 DEF WeeksInv
    <3>3. Fires(4, job[e].day)
      BY <3>2, ExactRowsFire DEF Fires
    <3>4. insights[k] # 0 /\ insights' = insights
      BY <1>1, <1>3, <2>3, <3>3 DEF IsDue, Evaluate
    <3> QED
      BY <1>1, <3>4
  <2>4. \/ job' = [job EXCEPT ![e] = [job[e] EXCEPT !.found = TRUE]]
        \/ /\ ~IsDue(job[e].rule, job[e].day)
           /\ job' = [job EXCEPT ![e] = [job[e] EXCEPT !.rule = job[e].rule + 1]]
    BY <1>3 DEF Evaluate, Track
  <2> QED
    BY <2>1, <2>2, <2>3, <2>4
<1>4. CASE Create(e)
  <2>1. /\ job' = [job EXCEPT ![e] = [job[e] EXCEPT !.found = FALSE, !.rule = job[e].rule + 1]]
        /\ insights' = [insights EXCEPT ![KindOf(job[e].rule, job[e].day)] =
                             insights[KindOf(job[e].rule, job[e].day)] + 1]
    BY <1>4, CreateJob
  <2>2. CASE job[e].rule = 4
    <3>1. insights'[k] = insights[k] + 1
      BY <1>1, <2>1, <2>2 DEF InsightsTypeOK
    <3> QED
      BY <1>1, <3>1
  <2>3. CASE job[e].rule # 4
    <3> DEFINE j == [job[e] EXCEPT !.found = FALSE, !.rule = job[e].rule + 1]
    <3>1. j \in Job
      BY <1>0, NextRule
    <3>2. j.day = job[e].day /\ j.rule = job[e].rule + 1
      BY <1>0 DEF Job
    <3>3. j.rule \in 1..4
      BY <1>0, <2>3, <3>2
    <3> HIDE DEF j
    <3> QED
      BY <1>2, <2>1, <3>1, <3>2, <3>3 DEF j
  <2> QED
    BY <2>2, <2>3
<1> QED
  BY <1>3, <1>4

(* Insights are only added. *)
LEMMA InsightsStay ==
    ASSUME InsightsTypeOK, [Next]_vars, NEW k \in Kind, insights[k] > 0
    PROVE  insights'[k] > 0
<1>1. ASSUME NEW e \in Event, Create(e) PROVE insights'[k] > 0
  <2>1. insights' = [insights EXCEPT ![KindOf(job[e].rule, job[e].day)] =
                        insights[KindOf(job[e].rule, job[e].day)] + 1]
    BY <1>1, CreateJob
  <2>2. insights[k] \in Nat
    BY DEF InsightsTypeOK
  <2> QED
    BY <2>1, <2>2 DEF InsightsTypeOK
<1>2. CASE insights' = insights
  BY <1>2
<1> QED
  BY <1>1, <1>2 DEF Next, vars, Change, Recompute, Evaluate, Fail

(* Every step leaves the rows exact, or about to be recomputed, and a week    *)
(* that is to get its summary evaluated.                                     *)
LEMMA WeekStep ==
    ASSUME InsightsTypeOK, TablesOK, WeekInv, [Next]_vars
    PROVE  WeekInv'
<1> DEFINE Exact(w) == LoggedOn(w..(w + 6))' # {} =>
                          \/ weekly'[w] = Summary(w)'
                          \/ \E e \in Event : /\ job'[e] # Null /\ job'[e].stale
                                              /\ Monday(job'[e].day) = w
           Seen(w) == Cardinality(LoggedOn(w..(w + 6))') >= 3 =>
                          \/ insights'[<<"mode_summary", w>>] > 0
                          \/ \E e \in Event : /\ job'[e] # Null /\ job'[e].rule \in 1..4
                                              /\ Monday(job'[e].day) = w
           Goal == FreshInv' /\ \A w \in Week : Exact(w) /\ Seen(w)
<1> SUFFICES ASSUME "stale" \notin clash', faults' = 0 PROVE Goal
  BY DEF WeekInv, WeeksInv, EvaluatedInv, Recomputing, Evaluating
<1>0. CASE UNCHANGED vars
  <2>1. WeeksInv /\ FreshInv /\ EvaluatedInv
    BY <1>0 DEF vars, WeekInv
  <2> QED
    BY <1>0, <2>1 DEF vars, WeeksInv, FreshInv, EvaluatedInv, Recomputing, Evaluating,
                      LoggedOn, Summary
<1>1. ASSUME NEW e \in Event, faults' = faults, clash' = clash \cup Overlaps(job')
      PROVE  WeeksInv /\ FreshInv /\ EvaluatedInv /\ FreshInv'
  BY <1>1, FreshStep DEF WeekInv
<1>2. ASSUME NEW e \in Event, NEW j, job' = [job EXCEPT ![e] = j]
      PROVE  job'[e] = j /\ \A f \in Event : f # e => job'[f] = job[f]
  BY <1>2 DEF InsightsTypeOK
<1>3. ASSUME NEW w \in Week, insights[<<"mode_summary", w>>] > 0
      PROVE  insights'[<<"mode_summary", w>>] > 0
  <2>1. <<"mode_summary", w>> \in Kind
    BY DEF Kind, Rules
  <2> QED
    BY <1>3, <2>1, InsightsStay
<1>4. ASSUME NEW e \in Event, NEW a \in Activity, NEW d \in Day, Change(e, a, d)
      PROVE  Goal
  <2>1. /\ job[e] = Null /\ job' = [job EXCEPT ![e] = Started(d)] /\ Started(d) # Null
        /\ UNCHANGED <<insights, faults, weekly>>
        /\ clash' = clash \cup Overlaps(job')
    BY <1>4, ChangeJob, JobFields DEF Change
  <2>2. WeeksInv /\ FreshInv /\ EvaluatedInv /\ FreshInv'
    BY <1>1, <2>1
  <2>3. /\ job'[e] = Started(d) /\ \A f \in Event : f # e => job'[f] = job[f]
        /\ Started(d).stale /\ Started(d).rule \in 1..4 /\ Started(d).day = d
    <3>1. Started(d).stale /\ Started(d).rule \in 1..4 /\ Started(d).day = d
      BY DEF Started
    <3>2. job'[e] = Started(d) /\ \A f \in Event : f # e => job'[f] = job[f]
      BY <2>1 DEF InsightsTypeOK
    <3> QED
      BY <3>1, <3>2
  <2>4. ASSUME NEW w \in Week, Monday(d) = w PROVE Exact(w) /\ Seen(w)
    BY <2>1, <2>3, <2>4
  <2>5. ASSUME NEW w \in Week, Monday(d) # w PROVE Exact(w) /\ Seen(w)
    <3>1. LoggedOn(w..(w + 6))' = LoggedOn(w..(w + 6)) /\ Summary(w)' = Summary(w)
      BY <1>4, <2>5, OtherWeeksStay
    <3>2. Exact(w)
      BY <2>1, <2>2, <2>3, <3>1 DEF WeeksInv, Recomputing
    <3>3. Seen(w)
      BY <1>3, <2>1, <2>2, <2>3, <3>1 DEF EvaluatedInv, Evaluating
    <3> QED
      BY <3>2, <3>3
  <2> QED
    BY <2>2, <2>4, <2>5
<1>5. ASSUME acts' = acts, NEW w
      PROVE  LoggedOn(w..(w + 6))' = LoggedOn(w..(w + 6)) /\ Summary(w)' = Summary(w)
  BY <1>5 DEF LoggedOn, Summary
<1>6. ASSUME NEW e \in Event, Recompute(e) PROVE Goal
  <2>1. /\ job[e] \in Job /\ job' = [job EXCEPT ![e] = [job[e] EXCEPT !.stale = FALSE]]
        /\ UNCHANGED <<insights, faults, acts>> /\ clash' = clash \cup Overlaps(job')
        /\ weekly' = [weekly EXCEPT ![Monday(job[e].day)] = Summary(Monday(job[e].day))]
    BY <1>6, RecomputeJob DEF Recompute
  <2>2. WeeksInv /\ FreshInv /\ EvaluatedInv /\ FreshInv'
    BY <1>1, <2>1
  <2>3. /\ [job[e] EXCEPT !.stale = FALSE] \in Job
        /\ [job[e] EXCEPT !.stale = FALSE].day = job[e].day
        /\ [job[e] EXCEPT !.stale = FALSE].rule = job[e].rule
    BY <2>1 DEF Job
  <2>4. /\ job'[e] # Null /\ job'[e].day = job[e].day /\ job'[e].rule = job[e].rule
        /\ \A f \in Event : f # e => job'[f] = job[f]
    BY <1>2, <2>1, <2>3, JobFields
  <2>5. ASSUME NEW w \in Week PROVE Exact(w)
    <3>1. CASE Monday(job[e].day) = w
      BY <1>5, <2>1, <3>1 DEF TablesOK
    <3>2. CASE Monday(job[e].day) # w
      BY <1>5, <2>1, <2>2, <2>4, <3>2 DEF WeeksInv, Recomputing, TablesOK
    <3> QED
      BY <3>1, <3>2
  <2>6. ASSUME NEW w \in Week PROVE Seen(w)
    BY <1>5, <2>1, <2>2, <2>4 DEF EvaluatedInv, Evaluating
  <2> QED
    BY <2>2, <2>5, <2>6
<1>7. ASSUME NEW e \in Event, Evaluate(e) \/ Create(e) PROVE Goal
  <2>1. /\ job[e] \in Job /\ faults' = faults /\ clash' = clash \cup Overlaps(job')
        /\ UNCHANGED <<acts, weekly>>
        /\ \/ job' = [job EXCEPT ![e] = [job[e] EXCEPT !.found = TRUE]]
           \/ job' = [job EXCEPT ![e] = [job[e] EXCEPT !.rule = job[e].rule + 1]]
           \/ job' = [job EXCEPT ![e] =
                        [job[e] EXCEPT !.found = FALSE, !.rule = job[e].rule + 1]]
    BY <1>7, EvaluateJob, CreateJob DEF Evaluate, Create
  <2>2. WeeksInv /\ FreshInv /\ EvaluatedInv /\ FreshInv'
    BY <1>1, <2>1
  <2>3. job[e].rule \in 1..4
    BY <1>7, EvaluateJob, CreateJob
  <2>4. PICK j \in Job : job' = [job EXCEPT ![e] = j] /\ j.day = job[e].day /\ j.stale = job[e].stale
    <3>1. CASE job' = [job EXCEPT ![e] = [job[e] EXCEPT !.found = TRUE]]
      <4>1. /\ [job[e] EXCEPT !.found = TRUE] \in Job
            /\ [job[e] EXCEPT !.found = TRUE].day = job[e].day
            /\ [job[e] EXCEPT !.found = TRUE].stale = job[e].stale
        BY <2>1 DEF Job
      <4> QED
        BY <3>1, <4>1
    <3>2. CASE job' = [job EXCEPT ![e] = [job[e] EXCEPT !.rule = job[e].rule + 1]]
      <4>1. [job[e] EXCEPT !.rule = job[e].rule + 1] \in Job
        BY <2>1, <2>3, NextRule
      <4>2. /\ [job[e] EXCEPT !.rule = job[e].rule + 1].day = job[e].day
            /\ [job[e] EXCEPT !.rule = job[e].rule + 1].stale = job[e].stale
        BY <2>1 DEF Job
      <4> QED
        BY <3>2, <4>1, <4>2
    <3>3. CASE job' = [job EXCEPT ![e] =
                         [job[e] EXCEPT !.found = FALSE, !.rule = job[e].rule + 1]]
      <4>1. [job[e] EXCEPT !.found = FALSE, !.rule = job[e].rule + 1] \in Job
        BY <2>1, <2>3, NextRule
      <4>2. /\ [job[e] EXCEPT !.found = FALSE, !.rule = job[e].rule + 1].day = job[e].day
            /\ [job[e] EXCEPT !.found = FALSE, !.rule = job[e].rule + 1].stale = job[e].stale
        BY <2>1 DEF Job
      <4> QED
        BY <3>3, <4>1, <4>2
    <3> QED
      BY <2>1, <3>1, <3>2, <3>3
  <2>5. /\ job'[e] # Null /\ job'[e].day = job[e].day /\ job'[e].stale = job[e].stale
        /\ job[e] # Null
        /\ \A f \in Event : f # e => job'[f] = job[f]
    <3>1. j # Null /\ job[e] # Null
      BY <2>1, JobFields
    <3>2. job'[e] = j /\ \A f \in Event : f # e => job'[f] = job[f]
      BY <2>4 DEF InsightsTypeOK
    <3> QED
      BY <2>4, <3>1, <3>2
  <2>6. ASSUME NEW w \in Week PROVE Exact(w)
    BY <1>5, <2>1, <2>2, <2>5 DEF WeeksInv, Recomputing
  <2>7. ASSUME NEW w \in Week, Cardinality(LoggedOn(w..(w + 6))) >= 3,
               LoggedOn(w..(w + 6)) # {}, Evaluating(e), Monday(job[e].day) = w
        PROVE  \/ insights'[<<"mode_summary", w>>] > 0
               \/ job'[e] # Null /\ job'[e].rule \in 1..4 /\ Monday(job'[e].day) = w
    BY <1>7, <2>2, <2>7, EvaluationsGoOn
  <2>8. ASSUME NEW w \in Week PROVE Seen(w)
    <3> SUFFICES ASSUME Cardinality(LoggedOn(w..(w + 6))) >= 3
                 PROVE  \/ insights'[<<"mode_summary", w>>] > 0
                        \/ \E f \in Event : /\ job'[f] # Null /\ job'[f].rule \in 1..4
                                            /\ Monday(job'[f].day) = w
      BY <1>5, <2>1
    <3>1. LoggedOn(w..(w + 6)) # {}
      BY FS_EmptySet
    <3>2. \/ insights[<<"mode_summary", w>>] > 0
          \/ \E f \in Event : Evaluating(f) /\ Monday(job[f].day) = w
      BY <2>2 DEF EvaluatedInv
    <3> QED
      BY <1>3, <2>5, <2>7, <3>1, <3>2 DEF Evaluating
  <2> QED
    BY <2>2, <2>6, <2>8
<1>8. ASSUME NEW e \in Event PROVE ~Fail(e)
  BY DEF Fail, InsightsTypeOK
<1> QED
  BY <1>0, <1>4, <1>6, <1>7, <1>8 DEF Next

(* Theorem: when the handlers of any number of events have ended, a week of  *)
(* three activities has its summary insight, unless an evaluation read       *)
(* summaries beside a recompute or a statement failed                        *)
(* (insight_service.go:35).                                                  *)
THEOREM SummarisedWeeks == Spec => []WeekIsSummarised
<1>1. ASSUME Init PROVE TablesOK /\ WeekInv
  <2>1. PICK a \in Activity, m \in Mode, d \in Day :
           acts = [x \in Activity |-> IF x = a THEN [day |-> d, mode |-> m] ELSE Null]
    BY <1>1 DEF Init
  <2>2. TablesOK
    BY <1>1, <2>1 DEF Init, TablesOK, Logged
  <2>3. WeeksInv /\ FreshInv
    BY <1>1 DEF Init, WeeksInv, FreshInv
  <2>4. ASSUME NEW w \in Week PROVE ~(Cardinality(LoggedOn(w..(w + 6))) >= 3)
    <3>1. LoggedOn(w..(w + 6)) \subseteq {a}
      BY <2>1 DEF LoggedOn, LoggedIn
    <3>2. Cardinality({a}) = 1 /\ IsFiniteSet({a})
      BY FS_Singleton
    <3>3. /\ Cardinality(LoggedOn(w..(w + 6))) \in Nat
          /\ Cardinality(LoggedOn(w..(w + 6))) <= 1
      BY <3>1, <3>2, FS_Subset, FS_CardinalityType
    <3> QED
      BY <3>3
  <2>5. EvaluatedInv
    BY <2>4 DEF EvaluatedInv
  <2> QED
    BY <2>2, <2>3, <2>5 DEF WeekInv
<1>2. WeekInv => WeekIsSummarised
  BY DEF WeekInv, EvaluatedInv, WeekIsSummarised, Done
<1> QED
  BY <1>1, <1>2, TypesAreKept, TablesStep, WeekStep, PTL DEF Spec
=============================================================================
