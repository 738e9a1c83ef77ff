------------------------------ MODULE Factors ------------------------------
(***************************************************************************)
(* The table of emission factors: how deployments fill it and what trips   *)
(* cost by it.  Every pod runs cmd/migrate before its server starts and    *)
(* again until it succeeds, so several runs overlap and any may crash;     *)
(* cmd/seed may be run at any time, also twice; meanwhile trips are priced *)
(* (ResolveFactor, Calculate) and compared with a greener mode             *)
(* (ComputeImpactContext) as their users change their region.              *)
(*                                                                         *)
(* Rates are in grams per km, costs in tenths of a gram: every row of the  *)
(* table has a rate per km.  Dates are years.  The id of a row is its rank *)
(* in the order of uuids: those of the seeder (version 7) grow with time,  *)
(* those of the migrations are random, before or after all of them.        *)
(***************************************************************************)
EXTENDS Integers, Sequences, FiniteSets, FiniteSetsExt

CONSTANTS
    Run,            \* runs of cmd/migrate that may overlap
    Query,          \* trips: mode, fuel, year and km
    Region,         \* regions users may set
    MaxSeedings,    \* bound on the runs of cmd/seed
    MaxFaults,      \* bound on the crashes
    Null

Modes ==
    {"cab", "car", "auto_rickshaw", "bus", "metro", "train", "two_wheeler",
     "walk", "walking", "bicycle", "cycling", "flight"}

ASSUME FactorsAssumption ==
    /\ MaxSeedings \in Nat /\ MaxFaults \in Nat
    /\ \A q \in Query : q.mode \in Modes /\ q.km \in Nat \cup {Null} /\ q.year \in Nat

Factor(mode, fuel, region, rate, year) ==
    [mode |-> mode, fuel |-> fuel, region |-> region, rate |-> rate, from |-> year]
TypeOf(mode) == IF mode = "flight" THEN "flight" ELSE "transport"

(* Rows that migrations 006, 023 and 024 insert, and the seeder's batches. *)
India2023 ==
    {Factor("cab", "petrol", "IN", 171, 2023), Factor("cab", "cng", "IN", 102, 2023),
     Factor("cab", "electric", "IN", 55, 2023), Factor("auto_rickshaw", "cng", "IN", 72, 2023),
     Factor("bus", "diesel", "IN", 89, 2023), Factor("metro", "electric", "IN", 31, 2023),
     Factor("train", "electric", "IN", 41, 2023), Factor("two_wheeler", "petrol", "IN", 113, 2023),
     Factor("two_wheeler", "electric", "IN", 42, 2023)}
Legacy == {Factor(m, Null, "global", 0, 2023) : m \in {"walk", "bicycle"}}
CommonFactors == India2023 \cup Legacy \cup {Factor("flight", Null, "global", 255, 2023)}
MissingFactors ==
    {Factor("car", Null, "IN", 190, 2024), Factor("auto_rickshaw", Null, "IN", 78, 2024),
     Factor("two_wheeler", Null, "IN", 100, 2024)}
        \cup {Factor(m, Null, "global", 0, 2024) : m \in {"walking", "cycling"}}
BusMetroFactors == {Factor("bus", Null, "IN", 89, 2024), Factor("metro", Null, "IN", 31, 2024)}

Specific == India2023 \cup Legacy
Canonical ==
    MissingFactors \cup
    {Factor("metro", Null, "IN", 40, 2024), Factor("bus", Null, "IN", 80, 2024),
     Factor("train", Null, "IN", 50, 2024), Factor("cab", Null, "IN", 210, 2024),
     Factor("flight", Null, "global", 255, 2024)}

(* The migrations that fill the table, by number; the others do not count. *)
Inserted == <<CommonFactors, MissingFactors, BusMetroFactors>>
Files == DOMAIN Inserted
(* Only the rows of the last one compete with rows of another rate, those   *)
(* of Canonical, so only the rank of their ids matters: before or after    *)
(* those of every batch.                                                   *)
LastId == 2 * MaxSeedings + 1
IdsOf(file) == IF file = 3 THEN {0, LastId} ELSE {0}

ASSUME NullAssumption ==
    /\ Null \notin {Specific, Canonical} \cup Nat
    /\ \A f \in CommonFactors \cup MissingFactors \cup BusMetroFactors \cup Canonical :
          f # Null /\ (f \in India2023 => f.fuel # Null)
-----------------------------------------------------------------------------
VARIABLES
    table,          \* rows of emission_factors, those of a statement together
    applied,        \* schema_migrations
    run,            \* runs of cmd/migrate
    seeding,        \* what a run of cmd/seed is to insert next, or Null
    region,         \* the user's preference
    trip,           \* a trip that was priced, or Null
    effects,        \* history: how often each migration took effect
    seedings,       \* history: rows of the seeder and complete seedings so far
    faults

vars == <<table, applied, run, seeding, region, trip, effects, seedings, faults>>

Idle == [at |-> "idle", pending |-> {}, rows |-> {}]

Init ==
    /\ table = {} /\ applied = {} /\ run = [r \in Run |-> Idle]
    /\ seeding = Null /\ region = "IN" /\ trip = Null
    /\ effects = [f \in Files |-> 0]
    /\ seedings = [started |-> 0, batches |-> 0, complete |-> 0] /\ faults = 0
-----------------------------------------------------------------------------
(* cmd/migrate *)

Migrated == applied = Files
NextFile(r) == Min(run[r].pending)
Step(r, stage) == run[r].at = stage
OthersUnchanged == UNCHANGED <<seeding, region, trip, seedings, faults>>

StartRun(r, pending) ==
    /\ Step(r, "idle") /\ ~Migrated
    /\ run' = [run EXCEPT ![r] = [at |-> "exec", pending |-> pending, rows |-> {}]]
    /\ UNCHANGED <<table, applied, effects>> /\ OthersUnchanged
(* Mutant: what was applied is not looked up. *)
ListEverything(r) == StartRun(r, Files)
(* appliedMigrations and the list of what is pending, in the order of the   *)
(* names.                                                                  *)
ListPending(r) == StartRun(r, Files \ applied)

(* The file is executed in a transaction. *)
Executed(r, effect) ==
    /\ Step(r, "exec")
    /\ \E id \in IdsOf(NextFile(r)) :
         LET rows == {[factors |-> Inserted[NextFile(r)], id |-> id]} IN
         /\ run' = [run EXCEPT ![r].at = "record", ![r].rows = rows]
         /\ table' = IF effect = 1 THEN table \cup rows ELSE table
    /\ effects' = [effects EXCEPT ![NextFile(r)] = @ + effect]
    /\ UNCHANGED applied /\ OthersUnchanged
(* Mutant: outside of the transaction. *)
ExecuteAtOnce(r) == Executed(r, 1)
Execute(r) == Executed(r, 0)

(* The INSERT of the file's name waits for another one of the same name and *)
(* fails when that is committed: the run rolls back and ends.              *)
Record(r) ==
    /\ Step(r, "record")
    /\ \A o \in Run \ {r} : ~(Step(o, "commit") /\ NextFile(o) = NextFile(r))
    /\ run' = [run EXCEPT ![r] = IF NextFile(r) \in applied THEN Idle ELSE [@ EXCEPT !.at = "commit"]]
    /\ UNCHANGED <<table, applied, effects>> /\ OthersUnchanged

Commit(r) ==
    LET file == NextFile(r)
        rest == run[r].pending \ {file}
    IN  /\ Step(r, "commit")
        /\ applied' = applied \cup {file}
        /\ table' = table \cup run[r].rows
        /\ effects' = [effects EXCEPT ![file] = @ + 1]
        /\ run' = [run EXCEPT ![r] = IF rest = {} THEN Idle
                                     ELSE [at |-> "exec", pending |-> rest, rows |-> {}]]
        /\ OthersUnchanged

(* A run is killed, or one of its statements fails. *)
Crash(r) ==
    /\ ~Step(r, "idle") /\ faults < MaxFaults /\ faults' = faults + 1
    /\ run' = [run EXCEPT ![r] = Idle]
    /\ UNCHANGED <<table, applied, seeding, region, trip, effects, seedings>>
-----------------------------------------------------------------------------
(* cmd/seed *)

StartSeeding ==
    /\ seeding = Null /\ 1 \in applied /\ seedings.started < MaxSeedings
    /\ seeding' = Specific
    /\ seedings' = [seedings EXCEPT !.started = @ + 1]
    /\ UNCHANGED <<table, applied, run, region, trip, effects, faults>>

InsertBatch(id) ==
    /\ seeding # Null
    /\ table' = table \cup {[factors |-> seeding, id |-> id]}
    /\ seeding' = IF seeding = Specific THEN Canonical ELSE Null
    /\ seedings' = [seedings EXCEPT !.batches = @ + 1,
                                    !.complete = @ + (IF seeding = Canonical THEN 1 ELSE 0)]
    /\ UNCHANGED <<applied, run, region, trip, effects, faults>>
(* Mutant: random ids. *)
SeedAtRandom == \E id \in {-1, LastId + 1} : InsertBatch(id)
(* EmissionFactorsSeeder: two statements, no transaction; the ids are new,  *)
(* so nothing ever conflicts.                                              *)
Seed == InsertBatch(seedings.batches + 1)

SeedingFails ==
    /\ seeding # Null /\ seeding' = Null
    /\ faults < MaxFaults /\ faults' = faults + 1
    /\ UNCHANGED <<table, applied, run, region, trip, effects, seedings>>
-----------------------------------------------------------------------------
(* What a trip costs *)

(* The rows of one candidate of the waterfall that are in force. *)
Matching(rows, mode, fuel, where, year) ==
    UNION {{[factor |-> f, id |-> row.id] :
              f \in {g \in row.factors : /\ g.mode = mode /\ g.fuel = fuel
                                         /\ g.region = where /\ g.from <= year}} : row \in rows}
(* ORDER BY effective_from DESC, id LIMIT 1 *)
First(rows) ==
    CHOOSE row \in rows : \A o \in rows :
        \/ row.factor.from > o.factor.from
        \/ row.factor.from = o.factor.from /\ row.id <= o.id

Waterfall(fuel, where) ==
    LET Try(f, r) == [fuel |-> f, region |-> r]
    IN  IF fuel = Null THEN <<Try(Null, where), Try(Null, "global")>>
        ELSE <<Try(fuel, where), Try(fuel, "global"), Try(Null, where), Try(Null, "global")>>
(* Mutant: without the last resort. *)
RegionalOnly(rows, mode, fuel, where, year) ==
    LET found == Matching(rows, mode, fuel, where, year) IN
    IF found = {} THEN Null ELSE First(found).factor
(* No row is without a mode, so the last two candidates find nothing. *)
ResolveFactor(rows, mode, fuel, where, year) ==
    LET tries == Waterfall(fuel, where)
        Found(i) == Matching(rows, mode, tries[i].fuel, tries[i].region, year)
        hits == {i \in DOMAIN tries : Found(i) # {}}
    IN  IF hits = {} THEN Null ELSE First(Found(Min(hits))).factor

(* Flights weigh 1.9 times. *)
Calculate(factor, type, km) ==
    IF factor = Null \/ km = Null THEN Null
    ELSE factor.rate * km * (IF type = "flight" THEN 19 ELSE 10)

Price(rows, q, where) ==
    Calculate(ResolveFactor(rows, q.mode, q.fuel, where, q.year), TypeOf(q.mode), q.km)

(* HandleActivityIngested; a preference that cannot be read is India.  One  *)
(* trip is enough: trips do not depend on each other.                      *)
PriceTrip ==
    /\ trip = Null
    /\ \E q \in Query, where \in {region, "IN"} :
         LET factor == ResolveFactor(table, q.mode, q.fuel, where, q.year) IN
         /\ Calculate(factor, TypeOf(q.mode), q.km) \notin {Null, 0}
         /\ trip' = [query |-> q, region |-> factor.region,
                     cost |-> Calculate(factor, TypeOf(q.mode), q.km)]
    /\ UNCHANGED <<table, applied, run, seeding, region, effects, seedings, faults>>

(* The column the preferences are read from; nothing in this code writes it *)
(* yet, though the comparison below is made for the time when it changes.   *)
ChangeRegion ==
    /\ region' \in Region \ {region}
    /\ UNCHANGED <<table, applied, run, seeding, trip, effects, seedings, faults>>

BestEcoAlternative(mode) ==
    CASE mode \in {"car", "cab", "flight", "bus"} -> "metro"
      [] mode \in {"two_wheeler", "auto_rickshaw"} -> "bus"
      [] mode \in {"train", "metro"} -> "cycling"
      [] OTHER -> Null

(* ComputeImpactContext: the alternative that is shown with the trip, priced *)
(* where the trip was.                                                     *)
Compared(where) ==
    LET q == trip.query
        factor == ResolveFactor(table, BestEcoAlternative(q.mode), Null, where, q.year)
        cost == Calculate(factor, "transport", q.km)
    IN  IF cost = Null THEN Null
        ELSE IF trip.cost - cost <= 0 THEN Null ELSE [factor |-> factor, cost |-> cost]
Impact == Compared(trip.region)

Migrate(r) == ListPending(r) \/ Execute(r) \/ Record(r) \/ Commit(r)
Next ==
    \/ \E r \in Run : Migrate(r) \/ Crash(r)
    \/ StartSeeding \/ Seed \/ SeedingFails
    \/ PriceTrip \/ ChangeRegion

Spec == Init /\ [][Next]_vars
(* A pod whose migration failed is started again. *)
FairSpec == Spec /\ \A r \in Run : WF_vars(Migrate(r))
-----------------------------------------------------------------------------
(* However runs overlap and crash, a migration takes effect exactly when it *)
(* is recorded, once, and never before an earlier one ("safe to run        *)
(* multiple times", main.go:3).                                            *)
AppliedOnceInOrder ==
    /\ \A f \in Files : effects[f] = IF f \in applied THEN 1 ELSE 0
    /\ \A f \in applied, g \in Files : g < f => g \in applied

(* Every pod's migration comes to an end with everything applied. *)
MigrationsFinish == <>[]Migrated

(* Once migrated, every trip of this year in India has a price; a train     *)
(* whose fuel is not known has one once the seeder has run.                *)
EveryTripIsPriced ==
    Migrated => \A q \in Query :
        q.year >= 2024 /\ q.km # Null /\ (q.mode \in {"train", "cab"} => seedings.complete > 0)
            => Price(table, q, "IN") # Null

(* The price of a trip does not depend on when it is calculated: migrations *)
(* add prices and change none, and running the seeder again, or crashing   *)
(* in it, changes none either, although its rows double and compete with   *)
(* those of migration 024.  Nor does what it is compared with, whatever    *)
(* region the user prefers by then (emission_service.go:152: "the same     *)
(* region as the factor that actually priced this activity").              *)
PricesHold ==
    [][(seedings'.batches = 0 \/ (Migrated /\ seedings.complete > 0)) =>
         /\ \A q \in Query, where \in Region :
              Price(table, q, where) # Null => Price(table', q, where) = Price(table, q, where)
         /\ (trip # Null /\ Impact # Null) => Impact' = Impact]_<<table, region>>
=============================================================================
