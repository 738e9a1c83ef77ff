-------------------------- MODULE EmissionPipeline --------------------------
(***************************************************************************)
(* The life of activity rows: the API requests that create, update, merge  *)
(* and delete them, and the ActivityIngested handler that prices them.     *)
(*                                                                         *)
(* A request r writes the row and publishes.  The bus starts the handler   *)
(* in a goroutine of its own, which works on the PAYLOAD of the event (a   *)
(* snapshot of the row) and, when it has priced it, publishes in turn; the *)
(* control flow that request r started is chain[r].  An update that moves  *)
(* an activity to another day publishes a second event, for the day it     *)
(* left: that goroutine is oldDay[r].  Every database statement is one     *)
(* step; between two of them any other goroutine may run.                  *)
(*                                                                         *)
(* Publishing is the same step as the statement before it: the started     *)
(* goroutine may be delayed at will, and a crash loses it either way.      *)
(*                                                                         *)
(* A trip stands for what prices an activity (type, mode, distance,        *)
(* energy); an emission is represented by the trip it was computed from,   *)
(* so two emissions are equal only if they were computed from equal input. *)
(* The fuel type, which only payloads carry, is the same in all requests.  *)
(* All state is keyed by user: one user is modelled.                       *)
(***************************************************************************)
EXTENDS Naturals

CONSTANTS
    Activity,      \* ids a new activity may get (uuid v7: never reused)
    Trip,          \* what an activity is priced from
    NoFactor,      \* the trips no emission factor matches
    BadInput,      \* the trips the calculator rejects (no distance, no kWh)
    Day,           \* values of date_local
    Moves,         \* the days a client may move an activity to, from each day
    Request,       \* API requests and sync items that can be in progress
    Targets,       \* the activities each request may touch
    Process,       \* the processes: cmd/api and cmd/worker
    ProcessOf,     \* the process a request runs in
    MaxFaults,     \* bound: process crashes and statements that return an error
    Null           \* no row

ASSUME ConstantsAssumption ==
    /\ NoFactor \subseteq Trip
    /\ BadInput \subseteq Trip
    /\ NoFactor \cap BadInput = {}
    /\ Moves \in [Day -> SUBSET Day]
    /\ Targets \in [Request -> SUBSET Activity]
    /\ ProcessOf \in [Request -> Process]
    /\ MaxFaults \in Nat

VARIABLES
    rows,          \* the activities table
    emissions,     \* the emissions table, unique on activity_id
    used,          \* ids given out so far
    chain,         \* per request: its own steps, then those of its handlers
    oldDay,        \* per request: the day the second published event rebuilds
    reborn,        \* history: ids a Save inserted again after their deletion
    faults         \* crashes and failed statements so far

vars == <<rows, emissions, used, chain, oldDay, reborn, faults>>

-----------------------------------------------------------------------------
(* Types *)

Status == {"pending", "processed", "failed", "skipped"}

Row == [trip : Trip, day : Day, status : Status]

ASSUME NullAssumption == Null \notin Trip \cup Day \cup Row

\* A request between its read and its write, or between merge and re-fetch.
SaveJob    == [pc : {"save"}, act : Activity, row : Row, old : Day]
RemoveJob  == [pc : {"remove"}, act : Activity, day : Day]
MergeJob   == [pc : {"merge"}, act : Activity, trip : Trip]
RefetchJob == [pc : {"refetch"}, act : Activity]

\* The ActivityIngested handler, at each of its statements.
PriceJob   == [pc : {"price"}, act : Activity, trip : Trip, day : Day]
MarkJob    == [pc : {"mark"}, act : Activity, day : Day]
GiveUpJob  == [pc : {"giveup"}, act : Activity, status : {"failed", "skipped"}]

\* The timeline's EmissionCalculated handler.
RebuildJob == [pc : {"rebuild"}, day : Day]

IdleJob    == [pc : {"idle"}]

Job == UNION {SaveJob, RemoveJob, MergeJob, RefetchJob,
              PriceJob, MarkJob, GiveUpJob, RebuildJob, IdleJob}

(* Every variable holds a value of its type. *)
TypeOK ==
    /\ rows \in [Activity -> Row \cup {Null}]
    /\ emissions \in [Activity -> Trip \cup {Null}]
    /\ used \subseteq Activity
    /\ chain \in [Request -> Job]
    /\ oldDay \in [Request -> Day \cup {Null}]
    /\ reborn \subseteq Activity
    /\ faults \in Nat

-----------------------------------------------------------------------------
(* The operations *)

Idle == [pc |-> "idle"]

Ingested(a, t, d) == [pc |-> "price", act |-> a, trip |-> t, day |-> d]

GiveUp(a, s) == [pc |-> "giveup", act |-> a, status |-> s]

Rebuild(d) == [pc |-> "rebuild", day |-> d]

Exists(a) == rows[a] # Null

Free(r) == chain[r] = Idle /\ oldDay[r] = Null

Continue(r, j) == chain' = [chain EXCEPT ![r] = j]

\* UPDATE activities SET status WHERE id: no row, no effect and no error.
SetStatus(a, s) ==
    rows' = IF Exists(a) THEN [rows EXCEPT ![a].status = s] ELSE rows

Init ==
    /\ rows = [a \in Activity |-> Null]
    /\ emissions = [a \in Activity |-> Null]
    /\ used = {}
    /\ chain = [r \in Request |-> Idle]
    /\ oldDay = [r \in Request |-> Null]
    /\ reborn = {}
    /\ faults = 0

\* createActivity: the row is inserted as pending and ActivityIngested published.
CreateActivity(r, a, t, d) ==
    /\ Free(r)
    /\ a \notin used
    /\ used' = used \cup {a}
    /\ rows' = [rows EXCEPT ![a] = [trip |-> t, day |-> d, status |-> "pending"]]
    /\ Continue(r, Ingested(a, t, d))
    /\ UNCHANGED <<emissions, oldDay, reborn, faults>>

\* UpdateActivity reads the whole row and changes its copy.
FindForUpdate(r, a, t, d) ==
    /\ Free(r)
    /\ Exists(a)
    /\ d \in Moves[rows[a].day]
    /\ Continue(r, [pc |-> "save", act |-> a, old |-> rows[a].day,
                    row |-> [rows[a] EXCEPT !.trip = t, !.day = d]])
    /\ UNCHANGED <<rows, emissions, used, oldDay, reborn, faults>>

\* Mutant: an update publishes only if it moved the activity.
SaveActivityQuietly(r) ==
    LET j == chain[r] IN
    /\ j.pc = "save"
    /\ rows' = [rows EXCEPT ![j.act] = j.row]
    /\ reborn' = IF Exists(j.act) THEN reborn ELSE reborn \cup {j.act}
    /\ Continue(r, IF j.old = j.row.day THEN Idle
                   ELSE Ingested(j.act, j.row.trip, j.row.day))
    /\ oldDay' = [oldDay EXCEPT ![r] = IF j.old = j.row.day THEN Null ELSE j.old]
    /\ UNCHANGED <<emissions, used, faults>>

\* Mutant: the day an activity left is not recomputed.
SaveActivityForgettingOldDay(r) ==
    LET j == chain[r] IN
    /\ j.pc = "save"
    /\ rows' = [rows EXCEPT ![j.act] = j.row]
    /\ reborn' = IF Exists(j.act) THEN reborn ELSE reborn \cup {j.act}
    /\ Continue(r, Ingested(j.act, j.row.trip, j.row.day))
    /\ UNCHANGED <<emissions, used, oldDay, faults>>

\* GORM's Save writes every column of the copy, and inserts the row when there
\* is none to update.  ActivityIngested is published, and EmissionCalculated
\* for the old day if the day changed.
SaveActivity(r) ==
    LET j == chain[r] IN
    /\ j.pc = "save"
    /\ rows' = [rows EXCEPT ![j.act] = j.row]
    /\ reborn' = IF Exists(j.act) THEN reborn ELSE reborn \cup {j.act}
    /\ Continue(r, Ingested(j.act, j.row.trip, j.row.day))
    /\ oldDay' = [oldDay EXCEPT ![r] = IF j.old = j.row.day THEN Null ELSE j.old]
    /\ UNCHANGED <<emissions, used, faults>>

\* DeleteActivity reads the row for its day ...
FindForDelete(r, a) ==
    /\ Free(r)
    /\ Exists(a)
    /\ Continue(r, [pc |-> "remove", act |-> a, day |-> rows[a].day])
    /\ UNCHANGED <<rows, emissions, used, oldDay, reborn, faults>>

\* ... then deletes it, its emission with it (ON DELETE CASCADE), and publishes
\* EmissionCalculated; if another request deleted it first: ErrNotFound.
RemoveActivity(r) ==
    LET j == chain[r] IN
    /\ j.pc = "remove"
    /\ rows' = [rows EXCEPT ![j.act] = Null]
    /\ emissions' = [emissions EXCEPT ![j.act] = Null]
    /\ Continue(r, IF Exists(j.act) THEN Rebuild(j.day) ELSE Idle)
    /\ UNCHANGED <<used, oldDay, reborn, faults>>

\* IngestWithDedup (or Ingest of a GPS trip) picked an existing row to merge
\* into.  A receipt's distance replaces the row's, a GPS trip changes nothing
\* that is priced.
PickCandidate(r, a, t) ==
    /\ Free(r)
    /\ Exists(a)
    /\ Continue(r, [pc |-> "merge", act |-> a, trip |-> t])
    /\ UNCHANGED <<rows, emissions, used, oldDay, reborn, faults>>

\* EnrichFromReceipt: UPDATE ... WHERE id, of some columns only.
EnrichFromReceipt(r) ==
    LET j == chain[r] IN
    /\ j.pc = "merge"
    /\ rows' = IF Exists(j.act) THEN [rows EXCEPT ![j.act].trip = j.trip] ELSE rows
    /\ Continue(r, [pc |-> "refetch", act |-> j.act])
    /\ UNCHANGED <<emissions, used, oldDay, reborn, faults>>

\* The merged row is read back and its state published.
PublishMerged(r) ==
    LET j == chain[r] IN
    /\ j.pc = "refetch"
    /\ Continue(r, IF Exists(j.act)
                   THEN Ingested(j.act, rows[j.act].trip, rows[j.act].day)
                   ELSE Idle)
    /\ UNCHANGED <<rows, emissions, used, oldDay, reborn, faults>>

-----------------------------------------------------------------------------
(* EmissionService.HandleActivityIngested: the payload decides. *)

\* Mutant: without a factor the handler returns and leaves the status alone.
SkipSilently(r) ==
    /\ chain[r].pc = "price"
    /\ chain[r].trip \in NoFactor
    /\ Continue(r, Idle)
    /\ UNCHANGED <<rows, emissions, used, oldDay, reborn, faults>>

\* No factor: the activity is skipped; nothing is published.
SkipUnpriced(r) ==
    LET j == chain[r] IN
    /\ j.pc = "price"
    /\ j.trip \in NoFactor
    /\ SetStatus(j.act, "skipped")
    /\ Continue(r, Idle)
    /\ UNCHANGED <<emissions, used, oldDay, reborn, faults>>

\* The calculator returns an error: failed; nothing is published.
FailCalculation(r) ==
    LET j == chain[r] IN
    /\ j.pc = "price"
    /\ j.trip \in BadInput
    /\ SetStatus(j.act, "failed")
    /\ Continue(r, Idle)
    /\ UNCHANGED <<emissions, used, oldDay, reborn, faults>>

\* Mutant: no foreign key.
StoreOrphanEmission(r) ==
    LET j == chain[r] IN
    /\ j.pc = "price"
    /\ j.trip \notin NoFactor \cup BadInput
    /\ emissions' = [emissions EXCEPT ![j.act] = j.trip]
    /\ Continue(r, [pc |-> "mark", act |-> j.act, day |-> j.day])
    /\ UNCHANGED <<rows, used, oldDay, reborn, faults>>

\* Upsert of the emission; without the activity its foreign key fails.
StoreEmission(r) ==
    LET j == chain[r] IN
    /\ j.pc = "price"
    /\ j.trip \notin NoFactor \cup BadInput
    /\ IF Exists(j.act)
       THEN /\ emissions' = [emissions EXCEPT ![j.act] = j.trip]
            /\ Continue(r, [pc |-> "mark", act |-> j.act, day |-> j.day])
       ELSE /\ Continue(r, GiveUp(j.act, "failed"))
            /\ UNCHANGED emissions
    /\ UNCHANGED <<rows, used, oldDay, reborn, faults>>

\* The status is set in a statement of its own, and EmissionCalculated published.
MarkProcessed(r) ==
    LET j == chain[r] IN
    /\ j.pc = "mark"
    /\ SetStatus(j.act, "processed")
    /\ Continue(r, Rebuild(j.day))
    /\ UNCHANGED <<emissions, used, oldDay, reborn, faults>>

\* The factor could not be read, or the emission not be stored.
MarkGivenUp(r) ==
    LET j == chain[r] IN
    /\ j.pc = "giveup"
    /\ SetStatus(j.act, j.status)
    /\ Continue(r, Idle)
    /\ UNCHANGED <<emissions, used, oldDay, reborn, faults>>

-----------------------------------------------------------------------------
(* The timeline's handler, here only as the end of its goroutine. *)

FinishRebuild(r) ==
    /\ chain[r].pc = "rebuild"
    /\ Continue(r, Idle)
    /\ UNCHANGED <<rows, emissions, used, oldDay, reborn, faults>>

FinishOldDay(r) ==
    /\ oldDay[r] # Null
    /\ oldDay' = [oldDay EXCEPT ![r] = Null]
    /\ UNCHANGED <<rows, emissions, used, chain, reborn, faults>>

-----------------------------------------------------------------------------
(* Faults *)

\* Mutant: no return after a failed upsert, the activity is marked processed.
CarryOn(j) ==
    CASE j.pc = "price" -> {[pc |-> "mark", act |-> j.act, day |-> j.day]}
      [] j.pc = "mark" -> {Rebuild(j.day)}
      [] OTHER -> {Idle}

\* What a goroutine may do after an error: a request answers with it.  The
\* handler takes any error of ResolveFactor for a missing factor, gives the
\* activity up if it cannot store the emission, and ignores an error of a
\* status update.
AfterError(j) ==
    CASE j.pc = "price" ->
             {GiveUp(j.act, "skipped"),
              IF j.trip \in NoFactor \cup BadInput THEN Idle
                                                 ELSE GiveUp(j.act, "failed")}
      [] j.pc = "mark" -> {Rebuild(j.day)}
      [] OTHER -> {Idle}

StatementFails(r) ==
    /\ faults < MaxFaults
    /\ chain[r].pc \notin {"idle", "rebuild"}
    /\ faults' = faults + 1
    /\ \E j \in AfterError(chain[r]) : Continue(r, j)
    /\ UNCHANGED <<rows, emissions, used, oldDay, reborn>>

\* A crash loses the goroutines of the process: events are kept nowhere else.
Crash(p) ==
    /\ faults < MaxFaults
    /\ faults' = faults + 1
    /\ chain' = [r \in Request |-> IF ProcessOf[r] = p THEN Idle ELSE chain[r]]
    /\ oldDay' = [r \in Request |-> IF ProcessOf[r] = p THEN Null ELSE oldDay[r]]
    /\ UNCHANGED <<rows, emissions, used, reborn>>

-----------------------------------------------------------------------------
(* The specification *)

Receive(r) ==
    \E a \in Targets[r] :
        \/ \E t \in Trip, d \in Day :
              CreateActivity(r, a, t, d) \/ FindForUpdate(r, a, t, d)
        \/ \E t \in Trip : PickCandidate(r, a, t)
        \/ FindForDelete(r, a)

Serve(r) ==
    \/ SaveActivity(r)
    \/ RemoveActivity(r)
    \/ EnrichFromReceipt(r)
    \/ PublishMerged(r)

HandleActivityIngested(r) ==
    \/ SkipUnpriced(r)
    \/ FailCalculation(r)
    \/ StoreEmission(r)
    \/ MarkProcessed(r)
    \/ MarkGivenUp(r)

EndRebuild(r) == FinishRebuild(r) \/ FinishOldDay(r)

PipelineStep(r) ==
    \/ Receive(r)
    \/ Serve(r)
    \/ HandleActivityIngested(r)
    \/ StatementFails(r)

Next ==
    \/ \E r \in Request : PipelineStep(r) \/ EndRebuild(r)
    \/ \E p \in Process : Crash(p)

Spec == Init /\ [][Next]_vars

\* A started request or handler is scheduled until it ends; clients need not
\* send anything, and nothing has to fail.
Fairness ==
    \A r \in Request :
        /\ WF_vars(Serve(r))
        /\ WF_vars(HandleActivityIngested(r))
        /\ WF_vars(FinishRebuild(r))
        /\ WF_vars(FinishOldDay(r))

FairSpec == Spec /\ Fairness

-----------------------------------------------------------------------------
(* Properties *)

NoFaults == faults = 0

InHandler(r, a) == chain[r].pc \in {"price", "mark", "giveup"} /\ chain[r].act = a

(* An emission exists only for an activity that exists: the foreign key of   *)
(* emissions.activity_id and its cascade, under every order of upsert,       *)
(* delete and re-insertion.                                                  *)
EmissionHasActivity == \A a \in Activity : emissions[a] # Null => Exists(a)

(* An activity shown as processed has an emission, whatever requests and     *)
(* handlers overlap, unless a Save brought it back after a delete: the       *)
(* handler stores the emission before it sets the status, in two statements. *)
ProcessedHasEmission ==
    \A a \in Activity \ reborn :
        Exists(a) /\ rows[a].status = "processed" => emissions[a] # Null

(* No work is lost while nothing fails: a pending activity always has a      *)
(* handler in flight that will decide it, also when an update wrote an old   *)
(* "pending" over the decision of the previous handler.                      *)
PendingHasHandler ==
    NoFaults => \A a \in Activity :
        Exists(a) /\ rows[a].status = "pending" => \E r \in Request : InHandler(r, a)

(* The status and the emission say what the row's current content calls for. *)
Decided(a) ==
    LET row == rows[a] IN
    /\ row.trip \in NoFactor => row.status = "skipped"
    /\ row.trip \in BadInput => row.status = "failed"
    /\ row.trip \notin NoFactor \cup BadInput =>
           row.status = "processed" /\ emissions[a] = row.trip

Settled(a) == \A r \in Request : chain[r].pc \in {"idle", "rebuild"} \/ chain[r].act # a

(* Once no request and no handler works on an activity any more, its status  *)
(* and its emission are those of its current content.  Holds while nothing   *)
(* fails and each activity is touched by one request at a time: the handlers *)
(* of two overlapping updates may store the older price last.                *)
SettledIsDecided ==
    NoFaults => \A a \in Activity : Exists(a) /\ Settled(a) => Decided(a)

(* Every pending activity is eventually decided or deleted, unless a crash   *)
(* or a database error came first.                                           *)
PendingIsDecided ==
    \A a \in Activity :
        (Exists(a) /\ rows[a].status = "pending")
            ~> (~NoFaults \/ ~Exists(a) \/ rows[a].status # "pending")
=============================================================================
