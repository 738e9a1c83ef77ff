------------------------------ MODULE Timeline ------------------------------
(***************************************************************************)
(* The timeline composed with the emission pipeline: every published       *)
(* EmissionCalculated starts a goroutine that runs RecomputeDay, six       *)
(* database statements without a transaction: aggregate the day from the   *)
(* activities and emissions, upsert the day, read the days of the week,    *)
(* upsert the week, read the days of the month, upsert the month.          *)
(*                                                                         *)
(* A summary is represented by the terms of its sums.  Kilograms,          *)
(* kilometres, count and per-mode breakdown are all sums over the terms;   *)
(* a day that has no row yet and an empty day both add nothing.            *)
(***************************************************************************)
EXTENDS EmissionPipeline

CONSTANTS Week, Month,
    WeekOf,        \* isoWeekStart of a day
    MonthOf        \* year and month of a day

ASSUME CalendarAssumption ==
    /\ WeekOf \in [Day -> Week]
    /\ MonthOf \in [Day -> Month]

VARIABLES
    daily, weekly, monthly,    \* the three summary tables
    work                       \* the RecomputeDay calls in progress

summaries == <<daily, weekly, monthly>>

tvars == <<vars, summaries, work>>

-----------------------------------------------------------------------------
(* Types *)

\* A row of the join of activities and emissions.
Term == [act : Activity, trip : Trip, priced : Trip]

\* What a day and what a longer period is summed over.
DaySummary == SUBSET Term
RollupSummary == SUBSET (Day \X Term)

ASSUME NoSummaryAssumption == \A s \in DaySummary \cup RollupSummary : s # Null

\* The goroutines that can run RecomputeDay.
Rebuilder == Request \X {"chain", "oldDay"}

-----------------------------------------------------------------------------
(* RecomputeDay *)

Start == [pc |-> "aggregate"]

Rebuilding(g) ==
    IF g[2] = "chain" THEN chain[g[1]].pc = "rebuild" ELSE oldDay[g[1]] # Null

DayOf(g) == IF g[2] = "chain" THEN chain[g[1]].day ELSE oldDay[g[1]]

\* AggregateDailyFromDB: activities JOIN emissions, of the day, processed.
DayTerms(d) ==
    {[act |-> a, trip |-> rows[a].trip, priced |-> emissions[a]] :
        a \in {b \in Activity :
                 /\ Exists(b)
                 /\ rows[b].day = d
                 /\ rows[b].status = "processed"
                 /\ emissions[b] # Null}}

\* emptyDaily, emptyWeekly, emptyMonthly: what a missing row is shown as.
OrEmpty(s) == IF s = Null THEN {} ELSE s

\* What the API shows of a period, beside a trend in the kilograms since the
\* period before, which it reads in the same way.
GetDailySummary(d) == OrEmpty(daily[d])
GetWeeklySummary(w) == OrEmpty(weekly[w])
GetMonthlySummary(m) == OrEmpty(monthly[m])

\* ListDailyRange and the sums over it.
RollupTerms(days) == UNION {{<<d, x>> : x \in OrEmpty(daily[d])} : d \in days}

WeekDays(w) == {d \in Day : WeekOf[d] = w}

MonthDays(m) == {d \in Day : MonthOf[d] = m}

TInit ==
    /\ Init
    /\ daily = [d \in Day |-> Null]
    /\ weekly = [w \in Week |-> Null]
    /\ monthly = [m \in Month |-> Null]
    /\ work = [g \in Rebuilder |-> Start]

Advance(g, s) == work' = [work EXCEPT ![g] = s]

At(g, pc) == Rebuilding(g) /\ work[g].pc = pc

AggregateDay(g) ==
    /\ At(g, "aggregate")
    /\ Advance(g, [pc |-> "upsertDay", terms |-> DayTerms(DayOf(g))])
    /\ UNCHANGED <<vars, summaries>>

\* Mutant: incremental totals, the new terms are added to the summary.
AddToDaily(g) ==
    /\ At(g, "upsertDay")
    /\ daily' = [daily EXCEPT ![DayOf(g)] = OrEmpty(@) \cup work[g].terms]
    /\ Advance(g, [pc |-> "readWeek"])
    /\ UNCHANGED <<vars, weekly, monthly>>

\* Mutant: ON CONFLICT DO NOTHING.
InsertDaily(g) ==
    /\ At(g, "upsertDay")
    /\ daily' = [daily EXCEPT ![DayOf(g)] = IF @ = Null THEN work[g].terms ELSE @]
    /\ Advance(g, [pc |-> "readWeek"])
    /\ UNCHANGED <<vars, weekly, monthly>>

\* Mutant: the week is not rolled up.
UpsertDailySkippingWeek(g) ==
    /\ At(g, "upsertDay")
    /\ daily' = [daily EXCEPT ![DayOf(g)] = work[g].terms]
    /\ Advance(g, [pc |-> "readMonth"])
    /\ UNCHANGED <<vars, weekly, monthly>>

UpsertDaily(g) ==
    /\ At(g, "upsertDay")
    /\ daily' = [daily EXCEPT ![DayOf(g)] = work[g].terms]
    /\ Advance(g, [pc |-> "readWeek"])
    /\ UNCHANGED <<vars, weekly, monthly>>

ReadWeek(g) ==
    /\ At(g, "readWeek")
    /\ Advance(g, [pc |-> "upsertWeek",
                   terms |-> RollupTerms(WeekDays(WeekOf[DayOf(g)]))])
    /\ UNCHANGED <<vars, summaries>>

UpsertWeekly(g) ==
    /\ At(g, "upsertWeek")
    /\ weekly' = [weekly EXCEPT ![WeekOf[DayOf(g)]] = work[g].terms]
    /\ Advance(g, [pc |-> "readMonth"])
    /\ UNCHANGED <<vars, daily, monthly>>

ReadMonth(g) ==
    /\ At(g, "readMonth")
    /\ Advance(g, [pc |-> "upsertMonth",
                   terms |-> RollupTerms(MonthDays(MonthOf[DayOf(g)]))])
    /\ UNCHANGED <<vars, summaries>>

\* The goroutine ends, and with it what the request started.
EndOf(g) == IF g[2] = "chain" THEN FinishRebuild(g[1]) ELSE FinishOldDay(g[1])

UpsertMonthly(g) ==
    /\ At(g, "upsertMonth")
    /\ monthly' = [monthly EXCEPT ![MonthOf[DayOf(g)]] = work[g].terms]
    /\ Advance(g, Start)
    /\ EndOf(g)
    /\ UNCHANGED <<daily, weekly>>

RecomputeDay(g) ==
    \/ AggregateDay(g)
    \/ UpsertDaily(g)
    \/ ReadWeek(g)
    \/ UpsertWeekly(g)
    \/ ReadMonth(g)
    \/ UpsertMonthly(g)

\* An error of any of the six statements ends RecomputeDay there; the handler
\* logs it.
RecomputeFails(g) ==
    /\ Rebuilding(g)
    /\ faults < MaxFaults
    /\ faults' = faults + 1
    /\ Advance(g, Start)
    /\ IF g[2] = "chain"
       THEN Continue(g[1], Idle) /\ UNCHANGED oldDay
       ELSE oldDay' = [oldDay EXCEPT ![g[1]] = Null] /\ UNCHANGED chain
    /\ UNCHANGED <<rows, emissions, used, reborn, summaries>>

CrashProcess(p) ==
    /\ Crash(p)
    /\ work' = [g \in Rebuilder |-> IF ProcessOf[g[1]] = p THEN Start ELSE work[g]]
    /\ UNCHANGED summaries

TNext ==
    \/ \E r \in Request : PipelineStep(r) /\ UNCHANGED <<summaries, work>>
    \/ \E g \in Rebuilder : RecomputeDay(g) \/ RecomputeFails(g)
    \/ \E p \in Process : CrashProcess(p)

TSpec == TInit /\ [][TNext]_tvars

TFairness ==
    /\ \A r \in Request :
          /\ WF_tvars(Serve(r) /\ UNCHANGED <<summaries, work>>)
          /\ WF_tvars(HandleActivityIngested(r) /\ UNCHANGED <<summaries, work>>)
    /\ \A g \in Rebuilder : WF_tvars(RecomputeDay(g))

TFairSpec == TSpec /\ TFairness

-----------------------------------------------------------------------------
(* Properties *)

Quiet == \A r \in Request : Free(r)

(* When nothing is in progress and nothing has failed, the summary that is   *)
(* shown of every day is the aggregate of its activities                     *)
(* (summary_repository.go 111-112, activity_handler.go 254), and those of    *)
(* every week and month are the sums of their days.                          *)
SummariesExact ==
    NoFaults /\ Quiet =>
        /\ \A d \in Day : GetDailySummary(d) = DayTerms(d)
        /\ \A w \in Week : GetWeeklySummary(w) = RollupTerms(WeekDays(w))
        /\ \A m \in Month : GetMonthlySummary(m) = RollupTerms(MonthDays(m))

(* RecomputeDay repairs: whatever a crash, an error or a missed event left   *)
(* in a summary, once the day is written it is exact, and once the week is   *)
(* written it is the sum of its days.                                        *)
RebuildHeals ==
    \A g \in Rebuilder :
        Rebuilding(g) =>
            /\ work[g].pc \in {"readWeek", "upsertWeek", "readMonth", "upsertMonth"}
                   => daily[DayOf(g)] = DayTerms(DayOf(g))
            /\ work[g].pc \in {"readMonth", "upsertMonth"}
                   => LET w == WeekOf[DayOf(g)] IN weekly[w] = RollupTerms(WeekDays(w))

(* The daily summaries implement the abstract ledger: no step shows anything *)
(* but the truth of that moment, and without faults every summary catches    *)
(* up with it.                                                               *)
Ledger == INSTANCE DayLedger
    WITH truth <- [d \in Day |-> DayTerms(d)],
         shown <- [d \in Day |-> GetDailySummary(d)],
         Content <- Term

ImplementsLedger == Ledger!Spec

SummariesCatchUp == []NoFaults => Ledger!CatchesUp
=============================================================================
