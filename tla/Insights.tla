------------------------------ MODULE Insights ------------------------------
(***************************************************************************)
(* The insight engine (internal/insight).  Every change of a processed     *)
(* activity publishes emission.calculated, on which two handlers run in    *)
(* goroutines of their own: the timeline's, which recomputes the summaries *)
(* of the day, and the insight engine's, which reads them.  Nothing orders *)
(* the two.  The engine runs its four rules one after the other; a rule    *)
(* that is due inserts a row and publishes insight.created.                *)
(*                                                                         *)
(* One user.  A day is a natural number, day 1 is a Monday.  The recompute *)
(* is one step here; Timeline has its statements.                          *)
(***************************************************************************)
EXTENDS Integers, FiniteSets, FiniteSetsExt

CONSTANTS
    Activity,
    Day,            \* the dates activities are logged on
    Kg,             \* emission of an activity, by transport mode
    Event,          \* emission.calculated events, a bound on the changes
    MaxFaults,      \* bound on the statements that fail
    Null

ASSUME InsightsAssumption ==
    /\ Day \subseteq Nat \ {0}
    /\ \A m \in DOMAIN Kg : Kg[m] \in Nat
    /\ MaxFaults \in Nat
    /\ IsFiniteSet(Event)

VARIABLES
    acts,       \* processed activities, Null when absent
    weekly,     \* weekly_summaries by Monday, Null before the first recompute
    insights,   \* how many rows of insights have a type and start of period
    job,        \* the two handlers of each event, Null before it is published
    faults,
    clash       \* history: handlers that have overlapped

vars == <<acts, weekly, insights, job, faults, clash>>

Mode == DOMAIN Kg
HighEmission == {"cab", "car", "rideshare"}
Milestones == {3, 7, 14, 30}
Rules == <<"streak", "weekly_comparison", "mode_spike", "mode_summary">>

(* isoWeekStart: the Monday of the week; day 7 is the first Sunday. *)
Weekday(d) == IF d % 7 = 0 THEN 7 ELSE d % 7
Monday(d) == d - (Weekday(d) - 1)
Week == {Monday(d) : d \in Day}
Kind == ({"streak"} \X Day) \cup ({Rules[i] : i \in 2..4} \X Week)

(* What a table of activities f holds of some days, and its weekly row as   *)
(* the aggregator computes it; `high' is what the breakdown holds for the   *)
(* modes of highEmissionModes.                                             *)
LoggedIn(f, S) == {a \in Activity : f[a] # Null /\ f[a].day \in S}
Total(kg) == MapThenSumSet(LAMBDA a : kg[a], DOMAIN kg)
KgOf(f, S) == Total([a \in S |-> Kg[f[a].mode]])
SummaryOf(f, w) ==
    LET S == LoggedIn(f, w..(w + 6)) IN
    [count |-> Cardinality(S), kg |-> KgOf(f, S),
     high |-> KgOf(f, {a \in S : f[a].mode \in HighEmission})]

LoggedOn(S) == LoggedIn(acts, S)
Summary(w) == SummaryOf(acts, w)

(* CountConsecutiveDaysWithActivity: the days in a row that end on d. *)
Streak(d) == Max({n \in 0..d : \A k \in 0..(n - 1) : LoggedOn({d - k}) # {}})

(* The rows of weekly_summaries from one Monday to another. *)
Listed(from, to) == {w \in Week : w \in from..to /\ weekly[w] # Null}

(* What each rule asks of the date; thresholds as ratios of integers. *)
StreakIsDue(d) == Streak(d) \in Milestones

ComparisonIsDue(w) ==
    /\ Listed(w - 7, w - 7) # {} /\ Listed(w, w) # {}
    /\ LET curr == weekly[w]
           prev == weekly[w - 7]
       IN /\ prev.kg # 0 /\ curr.count # 0
          /\ \/ 10 * (curr.kg - prev.kg) >= prev.kg
             \/ 10 * (prev.kg - curr.kg) >= prev.kg

SpikeIsDue(w) ==
    LET weeks == Listed(w - 28, w - 7)
        total == MapThenSumSet(LAMBDA x : weekly[x].high, weeks)
    IN /\ Listed(w, w) # {} /\ weekly[w].high # 0 /\ total # 0
       /\ 2 * Cardinality(weeks) * weekly[w].high >= 3 * total

(* Mutant: the summary waits for a fourth activity. *)
SummaryIsDueAtFour(w) == Listed(w, w) # {} /\ weekly[w].count > 3
SummaryIsDue(w) == Listed(w, w) # {} /\ weekly[w].count >= 3

KindOf(i, d) == <<Rules[i], IF i = 1 THEN d ELSE Monday(d)>>
Fires(i, d) ==
    \/ i = 1 /\ StreakIsDue(d)
    \/ i = 2 /\ ComparisonIsDue(Monday(d))
    \/ i = 3 /\ SpikeIsDue(Monday(d))
    \/ i = 4 /\ SummaryIsDue(Monday(d))

(* Mutant: whether the row exists is not asked. *)
IsDueAgain(i, d) == Fires(i, d)
(* ExistsForPeriod comes last. *)
IsDue(i, d) == Fires(i, d) /\ insights[KindOf(i, d)] = 0

(* `rule' is the rule the engine runs next, 5 when it is done; `found' that *)
(* the rule was due when it looked.                                        *)
Job == [day : Day, stale : BOOLEAN, rule : 1..5, found : BOOLEAN]
Logged == [day : Day, mode : Mode]
ASSUME NullAssumption ==
    /\ Null \notin Job \cup Logged
    /\ \A f \in [Activity -> Logged \cup {Null}], w \in Week : SummaryOf(f, w) # Null
Started(d) == [day |-> d, stale |-> TRUE, rule |-> 1, found |-> FALSE]
Evaluating(e) == job[e] # Null /\ job[e].rule \in 1..4
Recomputing(e) == job[e] # Null /\ job[e].stale

(* An activity of the first day is logged and its event is handled: the     *)
(* empty tables and one event lead here.                                   *)
Init ==
    /\ \E a \in Activity, m \in Mode, d \in {x \in Day : \A y \in Day : x <= y} :
          acts = [x \in Activity |-> IF x = a THEN [day |-> d, mode |-> m] ELSE Null]
    /\ weekly = [w \in Week |->
                   IF LoggedOn(w..(w + 6)) = {} THEN Null ELSE Summary(w)]
    /\ insights = [k \in Kind |-> 0]
    /\ job = [e \in Event |-> Null]
    /\ faults = 0 /\ clash = {}

(* Two evaluations at one time, or an evaluation beside a recompute. *)
Overlaps(j) ==
    {k \in {"rules", "stale"} :
        \/ k = "rules" /\ \E e, f \in Event :
             /\ e # f /\ j[e] # Null /\ j[f] # Null
             /\ j[e].rule \in 1..4 /\ j[f].rule \in 1..4
        \/ k = "stale" /\ \E e, f \in Event :
             /\ j[e] # Null /\ j[e].rule \in 2..4
             /\ j[f] # Null /\ j[f].stale}
Track(j) == job' = j /\ clash' = clash \cup Overlaps(j)

(* An activity of date d is processed, or deleted; the event goes out. *)
Change(e, a, d) ==
    /\ job[e] = Null
    /\ \/ /\ acts[a] = Null
          /\ \E m \in Mode : acts' = [acts EXCEPT ![a] = [day |-> d, mode |-> m]]
       \/ /\ acts[a] # Null /\ acts[a].day = d
          /\ acts' = [acts EXCEPT ![a] = Null]
    /\ Track([job EXCEPT ![e] = Started(d)])
    /\ UNCHANGED <<weekly, insights, faults>>

(* The timeline's handler. *)
Recompute(e) ==
    /\ Recomputing(e)
    /\ weekly' = [weekly EXCEPT ![Monday(job[e].day)] = Summary(Monday(job[e].day))]
    /\ Track([job EXCEPT ![e].stale = FALSE])
    /\ UNCHANGED <<acts, insights, faults>>

(* A rule reads the summaries and whether its row exists. *)
Evaluate(e) ==
    /\ Evaluating(e) /\ ~job[e].found
    /\ IF IsDue(job[e].rule, job[e].day)
       THEN Track([job EXCEPT ![e].found = TRUE])
       ELSE Track([job EXCEPT ![e].rule = @ + 1])
    /\ UNCHANGED <<acts, weekly, insights, faults>>

(* repo.Create, and insight.created for the notification service. *)
Create(e) ==
    /\ Evaluating(e) /\ job[e].found
    /\ insights' = [insights EXCEPT ![KindOf(job[e].rule, job[e].day)] = @ + 1]
    /\ Track([job EXCEPT ![e].found = FALSE, ![e].rule = @ + 1])
    /\ UNCHANGED <<acts, weekly, faults>>

(* An error of a rule is logged and the next rule runs, but the streak rule *)
(* drops the error of ExistsForPeriod and inserts (streak.go:35).  An error *)
(* of the recompute ends the timeline's handler.                           *)
Fail(e) ==
    /\ faults < MaxFaults /\ faults' = faults + 1
    /\ \/ Evaluating(e) /\ Track([job EXCEPT ![e].found = FALSE, ![e].rule = @ + 1])
       \/ /\ Evaluating(e) /\ ~job[e].found /\ job[e].rule = 1 /\ Fires(1, job[e].day)
          /\ Track([job EXCEPT ![e].found = TRUE])
       \/ Recomputing(e) /\ Track([job EXCEPT ![e].stale = FALSE])
    /\ UNCHANGED <<acts, weekly, insights>>

Next ==
    \E e \in Event :
        \/ \E a \in Activity, d \in Day : Change(e, a, d)
        \/ Recompute(e) \/ Evaluate(e) \/ Create(e) \/ Fail(e)

Spec == Init /\ [][Next]_vars
-----------------------------------------------------------------------------
Done(e) == ~Evaluating(e) /\ ~Recomputing(e)

(* Activities, insights and handlers are of their types. *)
InsightsTypeOK ==
    /\ acts \in [Activity -> Logged \cup {Null}]
    /\ insights \in [Kind -> Nat]
    /\ job \in [Event -> Job \cup {Null}]
    /\ faults \in 0..MaxFaults

(* One insight of a type for a period: the rules check before they insert, *)
(* and no constraint of the table would (mode_summary.go:42).  It holds    *)
(* unless two evaluations overlapped, or the check of the streak failed.   *)
InsightOnce ==
    "rules" \notin clash =>
        \A k \in Kind : insights[k] <= 1 \/ (k[1] = "streak" /\ faults > 0)

(* When every handler has ended, a week with three activities has its      *)
(* summary insight, whatever was deleted in between, unless an engine read *)
(* summaries while a recompute was under way (insight_service.go:35).      *)
WeekIsSummarised ==
    ("stale" \notin clash /\ faults = 0 /\ \A e \in Event : Done(e)) =>
        \A w \in Week : Cardinality(LoggedOn(w..(w + 6))) >= 3 =>
            insights[<<"mode_summary", w>>] > 0

(* Whatever overlaps or fails, the engine inserts at most one row of a type *)
(* for each event that reached the period.                                 *)
Reached(e, k) == job[e] # Null /\ \E i \in 1..4 : KindOf(i, job[e].day) = k
InsightsNeedEvents ==
    \A k \in Kind : insights[k] <= Cardinality({e \in Event : Reached(e, k)})
=============================================================================
