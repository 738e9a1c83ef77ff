# atmos-core: models, checks and proofs

atmos-core records a user's trips and energy use, prices them in kg CO2e, sums
them up per day, week and month, and derives insights from the sums. Two
processes, `cmd/api` and `cmd/worker`, share one PostgreSQL database; each has an
in-memory event bus of its own. Almost everything that is hard about the program
follows from three facts:

* every event handler runs in a goroutine of its own
  (`platform/eventbus/inmemory.go` 28-49), so handlers of one activity, and of
  one event, run in any order, and a crash loses them;
* no operation uses a transaction or a lock across its statements (only
  `cmd/migrate` does), so any two operations interleave between statements;
* several repositories write with GORM's `Save`, which writes every column of a
  row that was read earlier and inserts the row when it is gone.

So the models make every database statement, and every call of an external
service, one step. Code paths below are relative to `src/`.

## Inventory

| Component | State | Operations | What is hard | What makes it correct |
|---|---|---|---|---|
| Activity (`internal/activity`) | `activities` | Ingest, IngestWithDedup, UpdateActivity, DeleteActivity, display-address sweep | update and delete overlap with handlers and with each other; a ride arrives as GPS trip and as receipt, in any order and repeatedly | one row per journey; redelivery is recognised; every row is decided in the end |
| Emission (`internal/emission`) | `emissions`, `emission_factors` | HandleActivityIngested, ResolveFactor, ComputeImpactContext | works on a payload, in four statements; fallbacks among factors | a processed activity has an emission, no emission without activity; a price that holds |
| Timeline (`internal/timeline`) | `daily_`, `weekly_`, `monthly_summaries` | HandleEmissionCalculated, RecomputeDay | six statements, several at once, roll-ups of rows that may be behind | each summary equals what it sums up; it catches up after faults |
| EventBus (`platform/eventbus`) | goroutines only | Publish | no order, no persistence | |
| TripMatcher (`internal/tripmatcher`) | none | Score | thresholds, trips without end, boundaries | symmetric; the database query misses no match |
| Gmail (`internal/gmail`) | `gmail_connections`, `email_ingestion_logs` | HandleCallback, Disconnect, Sync, SyncAll, ResetSync, EnrichUnrecognised | overlapping syncs, workers, cursor, pages, crash between ride and log, revoked grants, shutdown | no ride behind the cursor is lost or hidden; rides arrive; the prompt to reconnect is true |
| Gmail parsers (`internal/gmail/parser`), geocoder | one semaphore | handleMessage: Groq with retries, parsers, coordinates | Groq fails, refuses or is slow; receipts without dates | readable rides are read; Groq is spared; a ride is recognised as the tracked trip |
| Insight (`internal/insight`) | `insights` | HandleEmissionCalculated, four rules | two handlers of one week; runs beside the timeline's handler of the same event | one insight per type and period; none missed |
| Notification (`internal/notification`) | none | HandleInsightCreated, HandleActivityPossibleDuplicate | preferences and devices change under way | no push against the preference or to a device handed on |
| Auth (`internal/auth`) | refresh, reset and verification tokens | Register, Login, Refresh, Logout, Google sign-in, ForgotPassword, ResetPassword, VerifyEmail | check and use of a token are separate statements | a token is used once; who was logged out stays out |
| Identity (`internal/identity`) | `users`, `user_preferences` | UpdateProfile, DeleteAccount, Purge, preferences | soft delete, 7 days of grace, restore, whole-row saves | a save reverts nothing; a restored account is not purged |
| APIKey, Device | one table each | create, revoke; register, hand over, push token, deregister | count then insert; whole-row saves | the limit; a device is as its last request asked |
| ShortAddress (`internal/shortaddress`) | `geocode_cache` | Resolve, in overlapping sweeps | oldest first; receipts and edits beside it | every address resolved, receipts kept, one payment per place |
| Seeds, `cmd/migrate`, `cmd/seed` | `schema_migrations`, `emission_factors` | apply pending files; insert the factors | every pod migrates at start; crashes; reruns | each file applied once, in order |
| HTTP handlers, platform wrappers, generated docs | none | | | |

Interaction: requests and syncs write activities and publish `ActivityIngested`;
Emission prices the row and publishes `EmissionCalculated`; Timeline and Insight
both handle that one, concurrently; Insight publishes `InsightCreated` for
Notification. A delete, and an update that moves an activity to another day,
publish `EmissionCalculated` directly. Gmail reads a ride with the parsers and
calls `IngestWithDedup`.

## Modules

| Module | Models | Theorems in |
|---|---|---|
| `EmissionPipeline` | activity rows, their requests, the ActivityIngested handler, crashes and failing statements | `TimelineProofs` |
| `Timeline` | extends `EmissionPipeline` with RecomputeDay on the three summary tables | `TimelineProofs` |
| `DayLedger` | abstract: a day's summary only ever changes to the truth of that moment | `TimelineProofs` |
| `TripMatcher` | the score of two trips and the candidate query, as functions | `TripIngestProofs` |
| `TripIngest` | extends `TripMatcher` with ingestion, deduplication and merging | `TripIngestProofs` |
| `TripPartition` | abstract: the rows divide the inputs into journeys | `TripIngestProofs` |
| `GmailSync` | connection, cursor, log and overlapping syncs | `GmailSyncProofs` |
| `Receipts` | extends `TripMatcher` with how a ride is read from a message, and the enrichment | `ReceiptsProofs` |
| `Insights` | the insight engine beside the timeline's handlers | `InsightsProofs` |
| `Clients` | devices, preferences, API keys and the notification handlers | `ClientsProofs` |
| `Accounts` | users, sessions, reset links and verification codes | `AccountsProofs` |
| `AddressSweep` | short addresses: sweeps, cache, receipts, edits | `TripIngestProofs` |
| `Factors` | migrations, seeder, resolution of factors, cost and comparison | `FactorsProofs` |
| `MC...` | instances for TLC | |

### How they correspond to the code

*EmissionPipeline.* `rows` and `emissions` are the two tables, reduced to what
decides about pricing: `trip` stands for mode, distance and energy, and an
emission is represented by the trip it was computed from, so equal emissions
mean equal inputs. `chain[r]` is the control flow that request `r` started: its
own statements (`save`, `remove`, `merge`, `refetch`), then the handler's
(`price`, `mark`, `giveup`), then the timeline's (`rebuild`). `oldDay[r]` is the
goroutine of the second event of an update that moves an activity. A publish is
part of the statement before it: the goroutine it starts may be delayed at will.
`NoFactor` and `BadInput` are the trips no factor matches and the calculator
rejects; which those are is the subject of `Factors`.

*Timeline.* A summary is the set of terms of its sums: totals, counts and the
breakdown by mode are all sums over it. `work` holds where each RecomputeDay is
between its six statements and what it has read. A missing row is shown as
empty by the getters.

*TripMatcher.* The score in exact arithmetic: times are minutes, places lie on a
line in units of 10 m, so that only the distance (haversine in the code) is
replaced; weights, gates, fallback ends, rounding and thresholds are the code's.

*TripIngest.* One job per request with a program counter per statement: receipt
lookup, key lookup, search and match, enrich, re-fetch, create. `from` in a row
and `born` are history: which inputs a row holds and was created for. Columns
that no decision reads (fare, distance, labels) are left out.

*GmailSync.* Messages are numbered by arrival, so a history id is a number of
messages. A sync goes through its Google calls, then has one stage per listed
message (`queued`, `ingest`, `insert`, an outcome to be logged, `done`), which
models the workers and the collector, then stores cursor and outcome.
`UpdateFields` writes by connection id, `SaveReset` the whole row. What Google
does (`Arrive`, `Revoke`, a history call that fails, how many messages the
window of seven days leaves out) is nondeterministic. With fewer messages in a
page than the five workers of the code every job is taken at once, so the size
of the pool is modelled in `Receipts` only. `passed` is history: the messages
that a sync moved past without handling them.

*Receipts.* The stages of one message between the list and the log: the guards
(log, sender, subject, cancellation), the slot for Groq, calls and pauses, the
parsers, the ends of the ride, ingestion, log. A message is a record of what
the code can tell apart in it, with the true ride beside it. A cancelled context
(`stopping`) reaches every statement that takes the context of the request; the
log of the enrichment does not take it. `left` marks messages that the log
holds as unrecognised: no code writes that status any more
(`unrecognisedOutcome`, `gmail_service.go` 1137, has no caller), so the queue
holds what earlier versions left. Another sync of the mailbox is one action.

*Insights.* Days are numbers, weeks are named by their Monday. The four rules
are their conditions on the weekly rows and activities; each rule is a step that
reads and, when it is due, a step that inserts. The timeline's handler is one
step here: what matters is on which side of a rule's read it falls.

*Clients.* One device, whose push token and owner can change. A request that
reads and then saves keeps its copy in `req`; `wish` is history: the row as if
each request had written only what it was asked for. A notification handler
reads the preference, lists the devices, and sends.

*Accounts.* One e-mail address with its row of `users` (`deleted` is "no",
"grace" or "expired") and the three token tables. Each request is a program
counter over its statements with the copy it read; the mailing of the code at
registration is a goroutine of its own. `asked` is history, as `wish` is.

*AddressSweep.* A coordinate is its own address. A sweep holds the rest of its
batch as it was read and, for the row at hand, the two lookups and the two
conditional updates (`Stages`, of which those with nothing to do are skipped).

*Factors.* The rows of the migrations and of the seeder with their rates. Rows of
one statement are kept together; the id of a row is its rank, since the query
orders rows of equal date by id, and ids of the seeder grow with time (version
7) while those of the migrations are random: `LastId` stands above all that any
number of seedings can use. The INSERT of a file's name waits
for another one of that name, as PostgreSQL's primary key makes it do.

*History of overlaps.* Several modules keep `clash`: the kinds of requests that
have overlapped. Where the code reads and writes in separate statements an
overlap really does break the promise, and the model shows it; the property
then says that nothing else does, neither another kind of request nor a crash.

## Runs

Every property of a passing run has a mutant: a plausible bug of the code that
makes TLC find the property violated. Deadlock is not checked: every one of
these systems may rightly stop, when no id, request, fault or message is left.

| Run | Instance | States | Shows |
|---|---|---|---|
| `pipeline_races` | 1 activity, 2 requests in 2 processes, 3 trips (priced, no factor, bad input), 2 days, 1 fault | 292,210 | with every overlap of create, update, merge, delete and handlers: no emission outlives its activity, a processed activity has an emission, no pending activity is without a handler, and it is decided in the end |
| `timeline` | 2 activities, 1 request at a time, a week of 2 days and another week, 1 fault | 239,264 | quiet summaries are exact and catch up; after a fault the next recomputation repairs its day and week; `ImplementsLedger` holds throughout |
| `ingest_serial` | a ride tracked in two parts, its receipt, a bus trip; 4 ids | 263,985 | rides are kept, one row per journey, retries add no row, the rows implement `TripPartition` |
| `ingest_races` | a GPS trip and two messages about it, 2 requests, 3 ids, symmetry of ids and requests | 149,802 | redelivery is recognised and no receipt is in two rows under every overlap with updates, deletes and failures |
| `gmail` | a foreign message, then a ride; pages of 1; a cron's and a user's sync; 3 acts of the user, 1 fault | 388,385 | no ride behind the cursor is lost, the log hides none, rides arrive, a prompt to reconnect is cleared |
| `gmail_cooldown` | 2 crons | violation | both sync the user within one cooldown |
| `accounts` | 1 address, 2 accounts, 3 sessions, 2 links, 2 codes, 2 requests at a time of 4, 1 fault, symmetry | 193,402 | what sessions, links and rows keep, and which overlaps break it |
| `insights` | 3 activities, 3 events on a Sunday and the two days after, 1 fault, symmetry | 720,536 | one insight per type and period; a week with three activities has its summary |
| `clients` | 2 users, 1 device, 2 requests at a time of 3, 1 handler, 1 fault, symmetry | 107,412 | rows are as asked, the key limit, whom a push may reach |
| `addresses` | 3 activities, one of them at sea; batches of 2; 2 sweeps, 2 writes, 1 fault | 483,785 | receipts prevail, a place is paid once, every known place is resolved |
| `receipts` | 5 pairs of messages, 2 workers, 1 slot, 2 attempts, 2 replies, 1 fault, shutdown | 245,540 | readable rides are read, the queue is retried, Groq is spared, rides match tracked trips, reading ends |
| `factors` | 2 runs of migrate, 2 seedings, 6 trips, 2 regions, 1 crash | 34,310 | migrations apply once and in order and finish; every trip is priced; prices and comparisons hold |

*Why the bounds are enough.* The interactions are between two control flows
that touch one row: two requests at a time, with up to four goroutines, give
each of them a partner to race with. One fault breaks any single statement; the
handlers are never restarted, so a second fault adds no new kind of loss. In
`ingest_serial` the ride in two parts makes candidates compete and the four ids
let every input get a row. In `gmail` the page of one and two messages let a
page overflow by one, and the first message may be behind the cursor while the
second is not. In `accounts` four requests are enough for an account that is
deleted, restored, renewed and reset while another request is held up, and the
second id for an account that is made again after the purge. In `insights` the
Sunday closes a week and three activities reach the threshold of the summary
and, over three days, the first streak. In `addresses` the oldest row keeps
its place in every batch of two, so the sweep always has one hopeless row
before the others. In `factors` two runs suffice for every overlap of two
statements of one file; a third meets what two leave. Two attempts in
`receipts` have a first, a pause and a last one; the code makes three.

*Restrictions of an instance.* `timeline` and `ingest_serial` have one request at
a time. `FarMove`: updates move activities to other weeks only: an update
within a week starts two recomputations that race on the weekly row. `RebuildHeals`
needs a single request at a time, because a second one may change a day
between the read and the write of a recomputation. `NewStart` is empty in the
ingestion runs: updates there save whole rows without changing the start.
`timeline` has priced trips only, and `SweepsReachAll` asks for fewer hopeless
rows than a batch holds. Which of these restrictions the theorems share is said
under *Proofs*. `MCTripIngest` asserts that the instance of `ingest_serial` meets the
conditions that its theorems name, and `MCReceipts` that its messages are
`Trackable`; TLC evaluates both.

*Symmetry* is used in runs with no liveness property only. `LoginRestores` and
its mutant are about single steps, which permuting ids does not change; ids,
sessions, links and requests occur without any order.

*Fairness.* `FairSpec`: a goroutine that was started is scheduled until it ends;
nothing obliges clients to call, or statements to fail. The Go scheduler gives
that. In `GmailSync` also the crons run for ever (`cmd/worker/main.go` starts one
every six hours), and the cooldown passes. In `AddressSweep` cron ticks for ever, some
sweep goes on (not each of them), and an edit reaches its save. In `Receipts` a worker goes on, since calls of Groq have
a time limit and pauses end; whether there is a free slot is part of the guard,
and weak fairness of each message suffices as the others give theirs back. In
`Factors` a run goes on and Kubernetes starts the init container again until it
succeeds. Users owe nothing.

### Where code and text disagree

`gmail_cooldown` is checked and listed as a finding: `SyncAll`'s "a user is never
synced more than once per 23 h" does not hold for crons that overlap. The other
disagreements met while modelling are behaviour of the models that the passing
properties are stated around, or lie outside of them:

* An update that overlaps a delete inserts the row again
  (`activity_repository.go` 93), although a delete "cannot be undone"
  (`activity_handler.go` 308).
* An update within a week, or one to content without a factor, leaves a summary
  behind (`activity_service.go` 632, `emission_service.go` 69), although
  `activity_handler.go` 254 says it is recalculated.
* The handlers of two overlapping updates may leave the older price; a GPS trip and
  its receipt that arrive at the same moment both get a row (`OneRowPerJourney`
  needs one request at a time; trips posted with another source than Gmail are
  not compared with GPS rows by `Ingest`).
* `activity_service.go` 509 says that a merged row stays visible so that a "GPS
  session split … re-merges into the same row rather than creating a duplicate".
  The enrichment takes the coordinates of the GPS trip (528), so the row gets
  the ends of the last part; when the first part is delivered again its score
  with the row may be below 0.65, and it gets a row of its own. `RetriesMergeAgain`
  therefore asks for journeys whose parts match every row that the others can
  have made (`Recognisable`); three assertions of `MCTripIngest` show a short ride in
  two halves that does not.
* `activity_service.go` 130 says that a GPS trip with a score of at least 0.65 is
  merged. Only the best candidate is compared with its own threshold (206), and
  that is 0.75 for a trip without a destination: one that scores 0.7 hides another
  one that would be merged. So `JourneysShareRow` asks for destinations (`Located`),
  and `MCTripIngest` has such a pair.
* Messages beyond the first page, older than the fallback window, or whose log
  cannot be read are passed (`passed` in `GmailSync`); a fetch that fails once is
  never retried.
* The regular expressions find a day and no time, so such a ride starts at
  midnight or when the mail arrived and gets a row beside the tracked one; a
  ride that Groq finds no distance for is stored with none. Without a key for
  Groq the whole queue of the enrichment is skipped for good. An ingestion that
  fails in a shutdown marks a queued message as failed for good.
* A Google sign-in never restores a deleted account (`auth_service.go` 266): the
  lookup sees active rows only. A second use of a verification code is an error,
  although the handler calls it safe to repeat.
* `activity_repository.go` 160 says that repeated sweeps converge; a batch that is
  full of rows Google has no address for starves the rest.
* `insight_repository.go` 69 counts streaks "ending on or before" a day; they must
  end on it. The "most-used mode" of the weekly summary is the one with the
  highest emission, and is empty in a week without emissions.
* The seeders are called idempotent (`seeder.go` 18, `cmd/seed/main.go` 2); a second
  run doubles the rows. Prices stay (`PricesHold`), because the query takes the
  oldest id. Trains and cabs without a fuel have no factor before the seeder
  runs; a flight's alternative is always omitted, for its factor is global.
* An API key keeps working for an account that awaits its purge
  (`platform/middleware/auth.go` looks at the key only), and an access token until it expires.

## Proofs

TLAPS checks, for every value of the constants that meets the assumptions of the
modules. Every safety property of a passing run, and both refinements, are
stated by a theorem. The assumptions are about the shape of constants, and TLC
evaluates them in every run of the module. Where a theorem needs more, the
hypothesis stands in its statement; these are discussed below. A hypothesis
`[]P` restricts the behaviours, an `ASSUME` the instance.

### `TimelineProofs`: activities, emissions and summaries

* `TypeCorrect`, `EmissionsHaveActivities`, `NoLostWork`,
  `ProcessedActivitiesHaveEmissions`: the types and the invariants of `pipeline_races`, for
  any number of activities, requests, processes and faults. `EmissionHasActivity`
  is inductive with the types. `ProcessedHasEmission` is not: the status is set
  by a handler that stored the emission earlier, so `ProcessedInv` adds
  that whoever is about to mark an activity, or holds a copy of a processed
  row, names a known id whose emission is stored unless it was deleted since.
  `NoLostWork` needs that a handler survives until the row is decided.
* `OwnRequestsDecide`: if no two requests share an activity (`DisjointTargets`) and
  nothing fails, a settled activity has the status and emission of its content.
  `OwnInv` says of the one job that works on an activity, at each program counter,
  how row and emission relate to what the job carries.
* `DailySummariesImplementLedger`: under `[]Alone` (the requests of the user do
  not overlap; their handlers and rebuilds may be delayed or lost at will), every
  step of the code is a step of `DayLedger` or a stutter. The upsert of a day
  writes terms that were read one statement before, so the proof needs `DayInv`:
  what a job carries of its activity is still so (`JobsInv`), and a rebuild that
  is about to write its day holds the terms of this moment (`DayWorkInv`). Two
  rebuilds run at one time after a move; they are of different days.
* `RebuildRepairs`, also under `[]RebuildsApart` (the two rebuilds of a move
  are of different weeks and months): once a rebuild has written its day,
  its week and its month, these are exact, whatever was lost before. `WeekWorkInv`
  says the same of the roll-ups as `DayWorkInv` of the days. Without
  `RebuildsApart` it is false: both read the week, and the one that read first may
  write last. For days alone it is not needed.
* `DaysAreExact`, `SummariesAreExact`: without faults, nothing is out of date once
  nothing is in progress. `DaysExactInv`: a day that is not exact is owed by a
  rebuild that has not written it, or by a request that will start one.
  `PeriodsInv` is the same for weeks and months. `PricedStaysPriced`: no activity that
  has an emission gets a content no factor matches; the handler then returns
  without an event (`emission_service.go` 69, a hazard of the list) and the day
  really keeps the old sum. Moves within a week are allowed for `DaysAreExact`,
  which the run does not have.

### `TripIngestProofs`: trips, journeys and short addresses

* `ScoreSymmetric`, `OverlapWithinShorter`, `WindowComplete`,
  `TimeAloneNeverMerges`: the score is symmetric, the overlap is within the shorter
  trip, the candidate query returns every stored trip of known end that can
  match, and times alone never merge two trips.
* `IngestTypeCorrect`, `RedeliveryRecognised`, `ReceiptStoredOnce`: the
  invariants of `ingest_races`, for any inputs, any overlap, and updates that move
  the start. The inductive invariant `StoredInv` adds what each saved copy and
  each row's key say about the row's origin (`KeysOfBirth`: an id keeps the key it
  was born with, so a stale Save that brings a row back cannot duplicate a key)
  and that a merged receipt meets only GPS inputs (`ReceiptsMeetGPS`: a merge never
  puts two receipts in a row, since candidates of a receipt are GPS rows and the
  patched row replaces its receipt).
* `RidesKept`, with one request at a time (`Serial`), for any updates and faults: what
  was answered as stored stays. `KeptInv` says what the request in progress holds of
  the row it will write, and that no two rows share a key. Overlapping requests
  do lose rides: a whole-row save takes a merge back.
* `JourneysShareRow`, also with `NewStart = {}` (no update moves a start) and `Located`
  (trips that are matched have an end and a destination). `JourneyInv` carries
  over from the search to the INSERT that no row of the other kind matches: the
  best candidate was below its threshold, all of them have the same threshold,
  and the candidate query misses none (`WindowComplete`).
* `RetriesMergeAgain`, `RowsImplementPartition`, for any division of the inputs into
  journeys that the scores can tell apart (`Recognisable`). `PartInv` says that a
  row holds inputs of one journey, that no input is in two rows, and that its ends and
  duration are those of its inputs (`Blend`); so the
  score of a redelivered input with its row is one that `Recognisable` bounds, and
  the best candidate is that row. The step proof maps create to `Open`, a merge of
  a new input to `Join`, delete to `Drop` and all else to a stutter.
* Each hypothesis is needed. Without `Serial` two parts arrive together and both
  are created; a moved start puts a row outside the window; the other two are
  described under *Where code and text disagree*.
* `ReceiptsStay`, `PlacesPaidOnce`: two invariants of `addresses`, for any activities,
  places, sweeps and faults. `PrevailInv`: what an edit has read is what the row
  holds, unless they clashed. `PaidInv`: a place that was paid for is in the cache,
  and one that is about to be asked for is not. That a sweep never asks without
  a look into the cache is a lemma about the operators (`PastLooksFirst`).

### The other components

* `GmailSyncProofs`: `GmailTypeCorrect`, `LogIsTrue`, `CursorIsHonest`: the invariants of `gmail`,
  for every mailbox, page size and number of overlapping syncs. Both need what
  the syncs in progress hold: `OutcomesAreTrue` (a worker about to log a ride as
  stored or as a duplicate is right), `ReadCursorCovers` (nothing is open behind a
  cursor that was read) and `NextCursorCovers` (before the cursor that will be
  stored, only what the workers still have). They survive every overlap since
  what was stored, logged or passed stays so (`Kept`), which is why a sync that
  stores an older cursor, or a reset that brings back an old row, does no harm.
* `ReceiptsProofs`: `CallsAreLimited`, `ReadableRidesAreNotLost`,
  `QueueIsOnlyGivenUpWithReason`, for any workers, messages, slots and
  retries. The first needs `GroqInv`: the free slots and the
  messages that call or pause add up to the number of slots, and a message that
  still asks has attempts left. The other two need `MessagesInv`: an outcome
  in hand is already excused in the way the property allows, or interrupted by
  a shutdown and then never logged; and a queued message reaches ingestion only
  by Groq's word, never the parsers.
* `ReceiptsProofs.TrackedTripsAreRecognised`: for all rides, a message that Groq read
  well is stored with the times and the mode of the ride, wherever it went since
  (`TracksInv`), hence within the query of the tracked trip and with at least 0.45 of
  the score (`TrackedScore`). `Trackable`: a ride takes longer than the phone takes
  to notice it, and a trip without an end lasts at most a day. A ride that is over
  when the phone notices it overlaps nothing, and a session open longer than a
  day is outside the query.
* `AccountsProofs`: `AccountsTypeCorrect` and all of the run `accounts`, for any
  accounts, sessions, links, codes, requests and faults. `IInv` is one invariant of
  ten parts, since each leans on the others: no account is purged under a
  request that found it active (`BoundInv`), requests whose kind is not in `clash` do
  not overlap (`Apart`), and then, for each promise, what the statements still to
  come will write. `RefreshInv`: a token being renewed has no successor and is
  revoked before the issue. `SavesInv`: a copy about to be saved is the row.
  `LinksInv`, `CodesInv`: at most one is live, and whoever inserts one has ended those
  before. `SessionsInv`: a session of a deleted account, or from before a reset, is
  live only while the revocation is on its way. `SignedInInv`, `RestoreInv`: who is
  about to be signed in has an active account, so `RestoredBeforeSignedIn` is an
  action property that follows from the state before the step.
* `InsightsProofs`: `TypesAreKept`, `PeriodsHaveOneInsight` (with `Alone`, one
  evaluation at a time, and `FoundHolds`, what a rule found is still so when it
  inserts), `InsightsAreBounded`: whatever overlaps or fails, at most one
  insight of a type and period for each event that reached it; and
  `SummarisedWeeks`. Its `WeekInv` holds while no evaluation has read beside a
  recomputation and nothing failed: a row of the summaries is exact or about to
  be recomputed (`WeeksInv`), no rule reads beside a recomputation (`FreshInv`), and
  a week of three activities has its insight or an evaluation that will give it
  (`EvaluatedInv`); the third activity's own event brings that evaluation.
* `ClientsProofs`: `TypesAreKept`, `KeysAreLimited`, `RowsKeepWhatWasAsked`,
  `PushesReachTheirUser`: the invariants of `clients`, for any number of users,
  devices and requests. `KeysInv` counts the keys together with the creations in
  progress; `RowsInv` says that a request alone on its row holds a copy that is
  what was asked so far; `PushInv` relates what a handler has read to what it was
  allowed at some time since it began.
* `FactorsProofs`: `MigrationsApplyOnce`: for any number of overlapping and crashing
  runs. `RunsInv` says that what a run does not have to apply has been applied,
  that a run about to commit holds a file which is not applied, and that no
  other one is about to commit the same file.
* `FactorsProofs`: `TripsArePriced`, `PricesStay`: for any runs and seedings, and for
  `PricesStay` every query and region. `TableInv`: the rows are those of the
  recorded files, whatever the order of the random ids, and copies of the two
  batches of the seeder; a complete seeding is still there. Migrations
  after the first only add factors without a fuel, for keys that had none
  (`LaterFilesAddKeys`), and what a seeding repeats has a copy with a smaller id
  (`CopiesChangeNothing`), so that the first row of the query's order stays the
  same. `PricesHold` leaves out the first seeding while it is under way. The content of the rows is finite
  data of the files, and the lemmas about it are by computation.

### Only model-checked

Liveness under fairness is out of the prover's reach: `PendingIsDecided`,
`SummariesCatchUp`, `RidesArrive`, `PromptIsCleared`, `SweepsReachAll`, `ReadingEnds` and
`MigrationsFinish` are what TLC shows on the instances above, as is the violation
of `gmail_cooldown`. The theorems support some of them: `NoLostWork` is the safety
half of `PendingIsDecided`, `DaysInv` (a day is exact or owed) that of
`SummariesCatchUp`.

## Not modelled

* Backfill of route labels into rides of earlier syncs (`tryBackfillAddresses`): it
  fills empty text columns only, which no decision reads.
* Two mailboxes of one user: connecting another account keeps the first one's
  cursor (`connection_repository.go` 20), listed as a hazard without a property.
* The regular expressions, fares, currencies and the text of prompts, pushes and
  mails; which of Google's address components makes the short address.
* Reading an insight, lists, exports and pages: they change nothing or one flag.
* Handlers, middleware, rate limiter, mail and push wrappers, configuration,
  generated documentation: no state of the system, or that of a library.
* A restart in `Insights`: events that a crash loses are modelled in
  `EmissionPipeline` and `Timeline`; for the insights it is as if an event had
  never been.
* Deletion of an account's activities and tokens by the cascade of the purge,
  beyond the tokens of `Accounts`.

What could follow: a lemma for `Recognisable` that bounds how far apart the parts of
a journey may be; the weeks of `Timeline` under moves within a week, which
need the order of the two rebuilds; a second mailbox in `GmailSync`.
