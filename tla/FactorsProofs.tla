--------------------------- MODULE FactorsProofs ---------------------------
(***************************************************************************)
(* Proofs about Factors: however many runs of cmd/migrate overlap and      *)
(* crash, each migration takes effect once and in its turn; every trip is  *)
(* priced; and no price changes while the table is filled again.           *)
(***************************************************************************)
EXTENDS Factors, FiniteSetTheorems, TLAPS

Row == [factors : {Inserted[f] : f \in Files}, id : {0, LastId}]
RunState ==
    [at : {"idle", "exec", "record", "commit"}, pending : SUBSET Files, rows : SUBSET Row]
MigrationTypes ==
    /\ applied \subseteq Files
    /\ effects \in [Files -> Nat]
    /\ run \in [Run -> RunState]

(* What a run does not have to apply has been applied; one that is about to *)
(* commit has inserted the name of its file, which nobody else can.        *)
RunsInv ==
    /\ \A r \in Run : ~Step(r, "idle") => run[r].pending # {} /\ Files \ run[r].pending \subseteq applied
    /\ \A r \in Run : Step(r, "commit") => NextFile(r) \notin applied
    /\ \A r, o \in Run :
         Step(r, "commit") /\ Step(o, "commit") /\ NextFile(r) = NextFile(o) => r = o
MigrationInv == MigrationTypes /\ RunsInv /\ AppliedOnceInOrder

(* Three migrations fill the table. *)
LEMMA FilesAreThree == Files = 1..3
BY DEF Files, Inserted

(* What is pending has a first file. *)
LEMMA FirstPending ==
    ASSUME NEW S, S \subseteq Files, S # {}
    PROVE  Min(S) \in S /\ \A g \in S : Min(S) <= g
<1>1. S \subseteq {1, 2, 3}
  BY FilesAreThree
<1>2. \E x \in S : \A y \in S : x <= y
  <2>1. CASE 1 \in S
    BY <1>1, <2>1
  <2>2. CASE 1 \notin S /\ 2 \in S
    BY <1>1, <2>2
  <2>3. CASE 1 \notin S /\ 2 \notin S
    <3>1. 3 \in S /\ \A y \in S : y = 3
      BY <1>1, <2>3
    <3> QED
      BY <3>1
  <2> QED
    BY <2>1, <2>2, <2>3
<1> QED
  BY <1>2 DEF Min

(* The next file of a run that is not idle, and the files before it. *)
LEMMA NextIsInOrder ==
    ASSUME MigrationTypes, RunsInv, NEW r \in Run, ~Step(r, "idle")
    PROVE  /\ NextFile(r) \in run[r].pending /\ NextFile(r) \in Files
           /\ \A g \in Files : g < NextFile(r) => g \in applied
<1>1. run[r].pending \subseteq Files /\ run[r].pending # {} /\ Files \ run[r].pending \subseteq applied
  BY DEF MigrationTypes, RunsInv, RunState
<1>2. NextFile(r) \in run[r].pending /\ \A g \in run[r].pending : NextFile(r) <= g
  BY <1>1, FirstPending DEF NextFile
<1>3. ASSUME NEW g \in Files, g < NextFile(r)
      PROVE  g \notin run[r].pending
  <2>1. g \in Int /\ NextFile(r) \in Int
    BY <1>1, <1>2, FilesAreThree
  <2> QED
    BY <1>2, <1>3, <2>1
<1> QED
  BY <1>1, <1>2, <1>3

(* At first nothing is applied. *)
LEMMA InitMigrations == Init => MigrationInv
<1> SUFFICES ASSUME Init PROVE MigrationInv
  OBVIOUS
<1>1. MigrationTypes
  BY DEF Init, MigrationTypes, RunState, Idle
<1>2. \A r \in Run : run[r].at = "idle"
  BY DEF Init, Idle
<1>3. RunsInv
  BY <1>2 DEF RunsInv, Step
<1>4. AppliedOnceInOrder
  BY DEF Init, AppliedOnceInOrder
<1> QED
  BY <1>1, <1>3, <1>4 DEF MigrationInv

(* A run goes to a state that is no commit while nothing is applied. *)
LEMMA RunGoesOn ==
    ASSUME MigrationInv, NEW r \in Run, NEW s \in RunState, run' = [run EXCEPT ![r] = s],
           s.at # "commit", s.at # "idle" => s.pending # {} /\ Files \ s.pending \subseteq applied,
           applied' = applied, effects' = effects
    PROVE  MigrationInv'
<1>1. MigrationTypes'
  BY DEF MigrationInv, MigrationTypes
<1>2. \A o \in Run : run'[o] = IF o = r THEN s ELSE run[o]
  BY DEF MigrationInv, MigrationTypes
<1>3. RunsInv'
  BY <1>2 DEF MigrationInv, RunsInv, Step, NextFile
<1>4. AppliedOnceInOrder'
  BY DEF MigrationInv, AppliedOnceInOrder
<1> QED
  BY <1>1, <1>3, <1>4 DEF MigrationInv

(* A run that has ended is a run. *)
LEMMA IdleIsState == Idle \in RunState /\ Idle.at = "idle"
BY DEF Idle, RunState

(* Inserting the name of a file keeps the invariant. *)
LEMMA RecordKeeps ==
    ASSUME MigrationInv, NEW r \in Run, Record(r)
    PROVE  MigrationInv'
<1> DEFINE s == [run[r] EXCEPT !.at = "commit"]
<1>0. /\ run[r] \in RunState /\ run[r].at = "record"
      /\ applied' = applied /\ effects' = effects
  BY DEF MigrationInv, MigrationTypes, Record, Step
<1>1. CASE NextFile(r) \in applied
  <2>1. run' = [run EXCEPT ![r] = Idle]
    BY <1>1 DEF Record
  <2> QED
    BY <1>0, <2>1, IdleIsState, RunGoesOn
<1>2. CASE NextFile(r) \notin applied
  <2>1. /\ s \in RunState /\ s.at = "commit" /\ s.pending = run[r].pending
    BY <1>0 DEF RunState
  <2>2. run' = [run EXCEPT ![r] = s]
    BY <1>2 DEF Record
  <2> HIDE DEF s
  <2>3. \A o \in Run : run'[o] = IF o = r THEN s ELSE run[o]
    BY <2>2 DEF MigrationInv, MigrationTypes
  <2>4. MigrationTypes'
    BY <1>0, <2>1, <2>2 DEF MigrationInv, MigrationTypes
  <2>5. \A o \in Run : NextFile(o)' = NextFile(o)
    BY <2>1, <2>3 DEF NextFile
  <2>6. \A o \in Run \ {r} : ~(Step(o, "commit")' /\ NextFile(o) = NextFile(r))
    BY <2>3 DEF Record, Step
  <2>7. RunsInv'
    <3>1. \A o \in Run : ~Step(o, "idle")' =>
            run'[o].pending # {} /\ Files \ run'[o].pending \subseteq applied'
      BY <1>0, <2>1, <2>3 DEF MigrationInv, RunsInv, Step
    <3>2. \A o \in Run : Step(o, "commit")' => NextFile(o)' \notin applied'
      BY <1>0, <1>2, <2>3, <2>5 DEF MigrationInv, RunsInv, Step
    <3>3. \A q, o \in Run :
            Step(q, "commit")' /\ Step(o, "commit")' /\ NextFile(q)' = NextFile(o)' => q = o
      BY <1>0, <2>3, <2>5, <2>6 DEF MigrationInv, RunsInv, Step
    <3> QED
      BY <3>1, <3>2, <3>3 DEF RunsInv
  <2>8. AppliedOnceInOrder'
    BY <1>0 DEF MigrationInv, AppliedOnceInOrder
  <2> QED
    BY <2>4, <2>7, <2>8 DEF MigrationInv
<1> QED
  BY <1>1, <1>2

(* So does the commit. *)
LEMMA CommitKeeps ==
    ASSUME MigrationInv, NEW r \in Run, Commit(r)
    PROVE  MigrationInv'
<1> DEFINE file == NextFile(r)
           rest == run[r].pending \ {file}
           s == IF rest = {} THEN Idle ELSE [at |-> "exec", pending |-> rest, rows |-> {}]
<1>0. /\ run[r] \in RunState /\ Step(r, "commit") /\ ~Step(r, "idle")
      /\ file \notin applied /\ applied' = applied \cup {file}
      /\ effects' = [effects EXCEPT ![file] = effects[file] + 1]
      /\ run' = [run EXCEPT ![r] = s]
  BY DEF MigrationInv, MigrationTypes, RunsInv, Commit, Step
<1>1. /\ file \in run[r].pending /\ file \in Files
      /\ \A g \in Files : g < file => g \in applied
  BY <1>0, NextIsInOrder DEF MigrationInv
<1>2. s \in RunState /\ s.at # "commit" /\ (s.at # "idle" => s.pending = rest /\ rest # {})
  BY <1>0, IdleIsState DEF RunState
<1>3. Files \ rest \subseteq applied \cup {file}
  BY <1>0 DEF MigrationInv, RunsInv
<1> HIDE DEF s, rest
<1>4. \A o \in Run : run'[o] = IF o = r THEN s ELSE run[o]
  BY <1>0 DEF MigrationInv, MigrationTypes
<1>5. MigrationTypes'
  BY <1>0, <1>1, <1>2 DEF MigrationInv, MigrationTypes
<1>6. RunsInv'
  <2>1. \A o \in Run : ~Step(o, "idle")' =>
          run'[o].pending # {} /\ Files \ run'[o].pending \subseteq applied'
    BY <1>0, <1>2, <1>3, <1>4 DEF MigrationInv, RunsInv, Step
  <2>2. \A o \in Run : Step(o, "commit")' =>
          o # r /\ Step(o, "commit") /\ NextFile(o)' = NextFile(o)
    BY <1>2, <1>4 DEF Step, NextFile
  <2>3. \A o \in Run : Step(o, "commit")' => NextFile(o)' \notin applied'
    BY <1>0, <2>2 DEF MigrationInv, RunsInv
  <2>4. \A q, o \in Run :
          Step(q, "commit")' /\ Step(o, "commit")' /\ NextFile(q)' = NextFile(o)' => q = o
    BY <2>2 DEF MigrationInv, RunsInv
  <2> QED
    BY <2>1, <2>3, <2>4 DEF RunsInv
<1>7. AppliedOnceInOrder'
  <2>1. \A f \in Files : effects'[f] = IF f \in applied' THEN 1 ELSE 0
    <3>1. effects[file] = 0
      BY <1>0, <1>1 DEF MigrationInv, AppliedOnceInOrder
    <3>2. \A f \in Files : effects'[f] = IF f = file THEN 1 ELSE effects[f]
      BY <1>0, <1>1, <3>1 DEF MigrationInv, MigrationTypes
    <3> QED
      BY <1>0, <3>2 DEF MigrationInv, AppliedOnceInOrder
  <2>2. \A f \in applied', g \in Files : g < f => g \in applied'
    BY <1>0, <1>1 DEF MigrationInv, AppliedOnceInOrder
  <2> QED
    BY <2>1, <2>2 DEF AppliedOnceInOrder
<1> QED
  BY <1>5, <1>6, <1>7 DEF MigrationInv

(* Every step keeps the invariant of the migrations. *)
LEMMA StepMigrations ==
    ASSUME MigrationInv, [Next]_vars
    PROVE  MigrationInv'
<1>1. CASE UNCHANGED <<applied, run, effects>>
  BY <1>1 DEF MigrationInv, MigrationTypes, RunsInv, AppliedOnceInOrder, Step, NextFile
<1>2. ASSUME NEW r \in Run, ListPending(r)
      PROVE  MigrationInv'
  <2> DEFINE s == [at |-> "exec", pending |-> Files \ applied, rows |-> {}]
  <2>1. /\ run' = [run EXCEPT ![r] = s] /\ applied # Files
        /\ applied' = applied /\ effects' = effects
    BY <1>2 DEF ListPending, StartRun, Migrated
  <2>2. s \in RunState /\ s.at = "exec" /\ s.pending = Files \ applied
    BY DEF RunState
  <2>3. s.pending # {} /\ Files \ s.pending \subseteq applied
    BY <2>1, <2>2 DEF MigrationInv, MigrationTypes
  <2> HIDE DEF s
  <2> QED
    BY <2>1, <2>2, <2>3, RunGoesOn
<1>3. ASSUME NEW r \in Run, Execute(r)
      PROVE  MigrationInv'
  <2>0. run[r] \in RunState /\ run[r].at = "exec" /\ ~Step(r, "idle")
    BY <1>3 DEF MigrationInv, MigrationTypes, Execute, Executed, Step
  <2>1. PICK id \in IdsOf(NextFile(r)) :
          run' = [run EXCEPT ![r].at = "record",
                             ![r].rows = {[factors |-> Inserted[NextFile(r)], id |-> id]}]
    BY <1>3 DEF Execute, Executed
  <2> DEFINE rows == {[factors |-> Inserted[NextFile(r)], id |-> id]}
             s == [run[r] EXCEPT !.at = "record", !.rows = rows]
  <2>2. rows \subseteq Row
    BY <2>0, NextIsInOrder DEF Row, IdsOf, MigrationInv
  <2>3. s \in RunState /\ s.at = "record" /\ s.pending = run[r].pending
    BY <2>0, <2>2 DEF RunState
  <2>4. run' = [run EXCEPT ![r] = s]
    BY <2>1 DEF MigrationInv, MigrationTypes
  <2>5. applied' = applied /\ effects' = effects
    BY <1>3 DEF Execute, Executed, MigrationInv, MigrationTypes
  <2>6. run[r].pending # {} /\ Files \ run[r].pending \subseteq applied
    BY <2>0 DEF MigrationInv, RunsInv
  <2> HIDE DEF s
  <2> QED
    BY <2>3, <2>4, <2>5, <2>6, RunGoesOn
<1>4. ASSUME NEW r \in Run, Record(r) \/ Commit(r)
      PROVE  MigrationInv'
  BY <1>4, RecordKeeps, CommitKeeps
<1>5. ASSUME NEW r \in Run, Crash(r)
      PROVE  MigrationInv'
  <2>1. run' = [run EXCEPT ![r] = Idle] /\ applied' = applied /\ effects' = effects
    BY <1>5 DEF Crash
  <2> QED
    BY <2>1, IdleIsState, RunGoesOn
<1>6. CASE \/ StartSeeding \/ Seed \/ SeedingFails \/ PriceTrip \/ ChangeRegion
  BY <1>1, <1>6 DEF StartSeeding, Seed, InsertBatch, SeedingFails, PriceTrip, ChangeRegion
<1>7. CASE UNCHANGED vars
  BY <1>1, <1>7 DEF vars
<1> QED
  BY <1>2, <1>3, <1>4, <1>5, <1>6, <1>7 DEF Next, Migrate

(* Theorem: for any number of pods that migrate at one time and crash, a    *)
(* migration takes effect when it is recorded, once, and after all earlier *)
(* ones ("safe to run multiple times", cmd/migrate/main.go:3).             *)
THEOREM MigrationsApplyOnce == Spec => []AppliedOnceInOrder
<1>1. MigrationInv => AppliedOnceInOrder
  BY DEF MigrationInv
<1> QED
  BY <1>1, InitMigrations, StepMigrations, PTL DEF Spec
-----------------------------------------------------------------------------
(* The rows of the table *)

(* A non-empty set of natural numbers has a least one. *)
LEMMA LeastNumber ==
    ASSUME NEW S, S \subseteq Nat, S # {}
    PROVE  \E n \in S : \A k \in S : n <= k
<1> DEFINE below(n) == S \cap (0..n)
           segments == {below(n) : n \in S}
<1>1. segments \subseteq FiniteSubsetsOf(Nat) /\ segments # {}
  <2>1. \A n \in S : below(n) \subseteq 0..n /\ below(n) \subseteq Nat
    OBVIOUS
  <2>2. ASSUME NEW n \in S PROVE IsFiniteSet(below(n))
    <3>1. n \in Int /\ IsFiniteSet(0..n)
      BY FS_Interval
    <3> QED
      BY <2>1, <3>1, FS_Subset
  <2> QED
    BY <2>1, <2>2 DEF FiniteSubsetsOf
<1>2. PICK x \in segments : \A y \in segments : ~(<<y, x>> \in StrictSubsetOrdering(Nat))
  <2> HIDE DEF segments
  <2> QED
    BY <1>1, FS_StrictSubsetOrderingWellFounded, WFMin
<1>3. PICK n \in S : x = below(n)
  OBVIOUS
<1>4. ASSUME NEW k \in S, k < n PROVE FALSE
  <2>1. below(k) \subseteq below(n) /\ n \in below(n) /\ n \notin below(k)
    BY <1>4
  <2>2. <<below(k), below(n)>> \in StrictSubsetOrdering(Nat)
    BY <2>1 DEF StrictSubsetOrdering
  <2> QED
    BY <1>2, <1>3, <2>2
<1> QED
  BY <1>4

AllFactors == CommonFactors \cup MissingFactors \cup BusMetroFactors \cup Canonical
Batches == {Inserted[f] : f \in Files} \cup {Specific, Canonical}
SameKey(g, k) == g.mode = k.mode /\ g.fuel = k.fuel /\ g.region = k.region

(* What is inserted at one time is part of the factors, has one for a mode,  *)
(* fuel and region, and the seeder's first batch is part of migration 006.  *)
LEMMA BatchesOfFactors ==
    /\ \A b \in Batches : b \subseteq AllFactors
    /\ Specific \subseteq Inserted[1] /\ Specific # Canonical
    /\ Inserted[1] = CommonFactors /\ Inserted[2] = MissingFactors
    /\ Inserted[3] = BusMetroFactors
    /\ Files = {1, 2, 3}
<1>1. /\ Inserted[1] = CommonFactors /\ Inserted[2] = MissingFactors
      /\ Inserted[3] = BusMetroFactors
      /\ Files = {1, 2, 3}
  BY DEF Inserted, Files
<1>2. Specific \subseteq CommonFactors
  BY DEF Specific, CommonFactors
<1>3. Specific # Canonical
  <2>1. Factor("walk", Null, "global", 0, 2023) \in Specific
    BY DEF Specific, Legacy
  <2>2. Factor("walk", Null, "global", 0, 2023) \notin Canonical
    BY DEF Canonical, MissingFactors, Factor
  <2> QED
    BY <2>1, <2>2
<1> QED
  BY <1>1, <1>2, <1>3 DEF AllFactors, Batches

(* Every factor has a rate and a year. *)
LEMMA FactorTypes ==
    \A g \in AllFactors : g.from \in 2023..2024 /\ g.rate \in Nat /\ g # Null
<1>1. \A g \in India2023 \cup Legacy : g.from \in 2023..2024 /\ g.rate \in Nat
  BY DEF India2023, Legacy, Factor
<1>2. \A g \in Canonical \cup BusMetroFactors : g.from \in 2023..2024 /\ g.rate \in Nat
  BY DEF Canonical, MissingFactors, BusMetroFactors, Factor
<1>3. \A g \in AllFactors : g.from \in 2023..2024 /\ g.rate \in Nat
  BY <1>1, <1>2 DEF AllFactors, CommonFactors, Canonical, Factor
<1> QED
  BY <1>3, NullAssumption DEF AllFactors

(* The rows of India have one factor for a mode and fuel. *)
LEMMA IndiaKeys == \A g, k \in India2023 : SameKey(g, k) => g = k
BY DEF India2023, Factor, SameKey

(* The factors for any fuel are one for a mode in each batch. *)
LEMMA GenericKeys ==
    /\ \A g, k \in Canonical : g.mode = k.mode => g = k
    /\ \A g, k \in BusMetroFactors : g.mode = k.mode => g = k
    /\ MissingFactors \subseteq Canonical
    /\ \A g, k \in CommonFactors \ India2023 : g.mode = k.mode => g = k
BY DEF Canonical, BusMetroFactors, MissingFactors, CommonFactors, Legacy, Factor

(* A batch has one factor for a mode, fuel and region. *)
LEMMA OneFactorForKey ==
    ASSUME NEW b \in Batches, NEW g \in b, NEW k \in b, SameKey(g, k)
    PROVE  g = k
<1>1. \A x \in India2023 : x.fuel # Null
  BY NullAssumption DEF CommonFactors
<1>2. \A x \in CommonFactors \ India2023 : x.fuel = Null
  BY DEF CommonFactors, Legacy, Factor
<1>3. CASE b = CommonFactors \/ b = Specific
  <2>1. g \in CommonFactors /\ k \in CommonFactors
    BY <1>3 DEF Specific, CommonFactors
  <2> QED
    BY <1>1, <1>2, <2>1, IndiaKeys, GenericKeys DEF SameKey
<1>4. CASE b \in {Canonical, MissingFactors, BusMetroFactors}
  BY <1>4, GenericKeys DEF SameKey
<1> QED
  BY <1>3, <1>4, BatchesOfFactors DEF Batches

(* A later migration inserts what was missing for any fuel. *)
LEMMA LaterFilesAddKeys ==
    ASSUME NEW f \in Files, NEW h \in Files, f # h, NEW g \in Inserted[f], NEW k \in Inserted[h],
           g.mode = k.mode
    PROVE  /\ g.fuel # k.fuel
           /\ f < h => g.fuel # Null /\ k.fuel = Null
<1>1. \A x \in MissingFactors \cup BusMetroFactors : x.fuel = Null
  BY DEF MissingFactors, BusMetroFactors, Factor
<1>2. \A x \in MissingFactors, y \in BusMetroFactors : x.mode # y.mode
  BY DEF MissingFactors, BusMetroFactors, Factor
<1>3. \A x \in CommonFactors \ India2023, y \in MissingFactors \cup BusMetroFactors : x.mode # y.mode
  BY DEF CommonFactors, Legacy, MissingFactors, BusMetroFactors, Factor
<1>4. \A x \in India2023 : x.fuel # Null
  BY NullAssumption DEF CommonFactors
<1> QED
  BY <1>1, <1>2, <1>3, <1>4, BatchesOfFactors
-----------------------------------------------------------------------------
(* What ResolveFactor finds *)

(* A table in which rows of one id agree on the factor for a key. *)
SoundTable(T) ==
    /\ \A row \in T : row.id \in Nat /\ row.factors \subseteq AllFactors
    /\ \A row, o \in T : \A g \in row.factors, k \in o.factors :
         row.id = o.id /\ SameKey(g, k) => g = k

Before(x, y) ==
    \/ x.factor.from > y.factor.from
    \/ x.factor.from = y.factor.from /\ x.id <= y.id

Candidates(T, mode, fuel, where, year, i) ==
    Matching(T, mode, Waterfall(fuel, where)[i].fuel, Waterfall(fuel, where)[i].region, year)
Hits(T, mode, fuel, where, year) ==
    {i \in DOMAIN Waterfall(fuel, where) : Candidates(T, mode, fuel, where, year, i) # {}}

(* What a candidate of the waterfall matches. *)
LEMMA MatchingIs ==
    ASSUME NEW T, NEW mode, NEW fuel, NEW where, NEW year, NEW x
    PROVE  x \in Matching(T, mode, fuel, where, year) <=>
             \E row \in T : \E g \in row.factors :
               /\ x = [factor |-> g, id |-> row.id]
               /\ g.mode = mode /\ g.fuel = fuel /\ g.region = where /\ g.from <= year
BY DEF Matching

(* Of matching rows one comes first, and only one. *)
LEMMA FirstIsFirst ==
    ASSUME NEW T, SoundTable(T), NEW mode, NEW fuel, NEW where, NEW year,
           Matching(T, mode, fuel, where, year) # {}
    PROVE  /\ First(Matching(T, mode, fuel, where, year)) \in Matching(T, mode, fuel, where, year)
           /\ \A o \in Matching(T, mode, fuel, where, year) :
                Before(First(Matching(T, mode, fuel, where, year)), o)
           /\ \A x \in Matching(T, mode, fuel, where, year) :
                (\A o \in Matching(T, mode, fuel, where, year) : Before(x, o))
                  => x = First(Matching(T, mode, fuel, where, year))
<1> DEFINE S == Matching(T, mode, fuel, where, year)
<1>1. \A x \in S : x.factor.from \in 2023..2024 /\ x.id \in Nat
  BY MatchingIs, FactorTypes DEF SoundTable
<1>2. \A x, y \in S : x.factor.from = y.factor.from /\ x.id = y.id => x = y
  BY MatchingIs DEF SoundTable, SameKey
<1> HIDE DEF S
<1>3. \E x \in S : \A o \in S : Before(x, o)
  <2> DEFINE late == {x \in S : x.factor.from = 2024}
             rest == IF late # {} THEN late ELSE S
             ids == {x.id : x \in rest}
  <2>1. rest \subseteq S /\ rest # {}
    BY DEF S
  <2>2. ids \subseteq Nat /\ ids # {}
    BY <1>1, <2>1
  <2>3. PICK n \in ids : \A k \in ids : n <= k
    <3> HIDE DEF ids
    <3> QED
      BY <2>2, LeastNumber
  <2>4. PICK x \in rest : x.id = n
    OBVIOUS
  <2>5. ASSUME NEW o \in S PROVE Before(x, o)
    <3>1. /\ x.factor.from \in {2023, 2024} /\ o.factor.from \in {2023, 2024}
          /\ x.id \in Nat /\ o.id \in Nat
      BY <1>1, <2>1, <2>4, <2>5
    <3>2. o \in rest => x.id <= o.id
      BY <2>3, <2>4
    <3>3. CASE late = {}
      BY <2>5, <3>1, <3>2, <3>3 DEF Before
    <3>4. CASE late # {}
      <4>1. x.factor.from = 2024
        BY <2>4, <3>4
      <4>2. CASE o.factor.from = 2024
        <5>1. x.id <= o.id
          BY <2>5, <3>2, <3>4, <4>2
        <5> QED
          BY <4>1, <4>2, <5>1 DEF Before
      <4>3. CASE o.factor.from = 2023
        BY <4>1, <4>3 DEF Before
      <4> QED
        BY <3>1, <4>2, <4>3
    <3> QED
      BY <3>3, <3>4
  <2> QED
    BY <2>1, <2>4, <2>5
<1>4. ASSUME NEW x \in S, NEW y \in S, \A o \in S : Before(x, o), \A o \in S : Before(y, o)
      PROVE  x = y
  <2>1. Before(x, y) /\ Before(y, x)
    BY <1>4
  <2>2. x.factor.from = y.factor.from /\ x.id = y.id
    BY <1>1, <2>1 DEF Before
  <2> QED
    BY <1>2, <2>2
<1>5. First(S) = CHOOSE x \in S : \A o \in S : Before(x, o)
  BY DEF First, Before
<1>6. First(S) \in S /\ \A o \in S : Before(First(S), o)
  BY <1>3, <1>5
<1> QED
  BY <1>4, <1>6 DEF S

(* The waterfall has up to four candidates. *)
LEMMA WaterfallIs ==
    ASSUME NEW fuel, NEW where
    PROVE  /\ DOMAIN Waterfall(fuel, where) \subseteq 1..4
           /\ fuel # Null =>
                /\ Waterfall(fuel, where)[1].fuel = fuel /\ Waterfall(fuel, where)[2].fuel = fuel
                /\ Waterfall(fuel, where)[3].fuel = Null /\ Waterfall(fuel, where)[4].fuel = Null
                /\ Waterfall(fuel, where)[3].region = where
                /\ Waterfall(fuel, where)[4].region = "global"
                /\ DOMAIN Waterfall(fuel, where) = 1..4
           /\ fuel = Null =>
                /\ Waterfall(fuel, where)[1].fuel = Null /\ Waterfall(fuel, where)[2].fuel = Null
                /\ Waterfall(fuel, where)[1].region = where
                /\ Waterfall(fuel, where)[2].region = "global"
                /\ DOMAIN Waterfall(fuel, where) = 1..2
<1>1. CASE fuel = Null
  BY <1>1 DEF Waterfall
<1>2. CASE fuel # Null
  BY <1>2 DEF Waterfall
<1> QED
  BY <1>1, <1>2

(* The factor is the first row of the first candidate that finds any. *)
LEMMA ResolveFactorIs ==
    ASSUME NEW T, NEW mode, NEW fuel, NEW where, NEW year
    PROVE  LET hits == Hits(T, mode, fuel, where, year)
           IN  /\ ResolveFactor(T, mode, fuel, where, year) =
                    IF hits = {} THEN Null
                    ELSE First(Candidates(T, mode, fuel, where, year, Min(hits))).factor
               /\ hits \subseteq 1..4
               /\ hits # {} => Min(hits) \in hits /\ \A i \in hits : Min(hits) <= i
<1> DEFINE hits == Hits(T, mode, fuel, where, year)
<1>1. ResolveFactor(T, mode, fuel, where, year) =
         IF hits = {} THEN Null ELSE First(Candidates(T, mode, fuel, where, year, Min(hits))).factor
  BY DEF ResolveFactor, Hits, Candidates
<1>2. hits \subseteq 1..4
  BY WaterfallIs DEF Hits
<1> HIDE DEF hits
<1>3. ASSUME hits # {} PROVE Min(hits) \in hits /\ \A i \in hits : Min(hits) <= i
  <2>1. hits \subseteq Nat
    BY <1>2
  <2>2. \E n \in hits : \A k \in hits : n <= k
    BY <1>3, <2>1, LeastNumber
  <2> QED
    BY <2>2 DEF Min
<1> QED
  BY <1>1, <1>2, <1>3 DEF hits

(* Rows that a row of the same factor precedes change no price. *)
LEMMA CopiesChangeNothing ==
    ASSUME NEW T, NEW row, SoundTable(T), SoundTable(T \cup {row}),
           \A g \in row.factors : \E o \in T : g \in o.factors /\ o.id < row.id,
           NEW mode, NEW fuel, NEW where, NEW year
    PROVE  ResolveFactor(T \cup {row}, mode, fuel, where, year)
             = ResolveFactor(T, mode, fuel, where, year)
<1> DEFINE U == T \cup {row}
<1>1. ASSUME NEW f, NEW w
      PROVE  LET S == Matching(T, mode, f, w, year)
                 R == Matching(U, mode, f, w, year)
             IN  (S = {} <=> R = {}) /\ (S # {} => First(R) = First(S))
  <2> DEFINE S == Matching(T, mode, f, w, year)
             R == Matching(U, mode, f, w, year)
  <2>1. S \subseteq R
    BY MatchingIs
  <2>2. ASSUME NEW x \in R, x \notin S
        PROVE  \E y \in S : y.factor.from = x.factor.from /\ y.id < x.id
    <3>1. PICK g \in row.factors : 
             /\ x = [factor |-> g, id |-> row.id]
             /\ g.mode = mode /\ g.fuel = f /\ g.region = w /\ g.from <= year
      BY <2>2, MatchingIs
    <3>2. PICK o \in T : g \in o.factors /\ o.id < row.id
      OBVIOUS
    <3>3. [factor |-> g, id |-> o.id] \in S
      BY <3>1, <3>2, MatchingIs
    <3> QED
      BY <3>1, <3>2, <3>3
  <2>3. \A x \in R : x.factor.from \in Nat /\ x.id \in Nat
    BY MatchingIs, FactorTypes DEF SoundTable
  <2> HIDE DEF S, R
  <2>4. S = {} <=> R = {}
    BY <2>1, <2>2
  <2>5. ASSUME S # {} PROVE First(R) = First(S)
    <3>1. First(S) \in S /\ \A o \in S : Before(First(S), o)
      BY <2>5, FirstIsFirst DEF S
    <3>2. ASSUME NEW o \in R PROVE Before(First(S), o)
      <4>1. CASE o \in S
        BY <3>1, <4>1
      <4>2. CASE o \notin S
        <5>1. PICK y \in S : y.factor.from = o.factor.from /\ y.id < o.id
          BY <2>2, <3>2, <4>2
        <5>2. Before(First(S), y)
          BY <3>1
        <5> QED
          BY <2>1, <2>3, <3>1, <3>2, <5>1, <5>2 DEF Before
      <4> QED
        BY <4>1, <4>2
    <3>3. First(S) \in R /\ R # {}
      BY <2>1, <3>1
    <3> QED
      BY <3>2, <3>3, FirstIsFirst DEF R
  <2> QED
    BY <2>4, <2>5 DEF S, R
<1>2. \A i : /\ Candidates(T, mode, fuel, where, year, i) = {}
                   <=> Candidates(U, mode, fuel, where, year, i) = {}
             /\ Candidates(T, mode, fuel, where, year, i) # {} =>
                  First(Candidates(U, mode, fuel, where, year, i))
                    = First(Candidates(T, mode, fuel, where, year, i))
  BY <1>1 DEF Candidates
<1> HIDE DEF U
<1>3. Hits(U, mode, fuel, where, year) = Hits(T, mode, fuel, where, year)
  BY <1>2 DEF Hits
<1>4. ResolveFactor(U, mode, fuel, where, year) = ResolveFactor(T, mode, fuel, where, year)
  <2> DEFINE hits == Hits(T, mode, fuel, where, year)
  <2>1. CASE hits = {}
    BY <1>3, <2>1, ResolveFactorIs
  <2>2. CASE hits # {}
    <3>1. Min(hits) \in hits
      BY <2>2, ResolveFactorIs
    <3>2. Candidates(T, mode, fuel, where, year, Min(hits)) # {}
      BY <3>1 DEF Hits
    <3> QED
      BY <1>2, <1>3, <2>2, <3>2, ResolveFactorIs
  <2> QED
    BY <2>1, <2>2
<1> QED
  BY <1>4 DEF U

(* Nor do rows for any fuel where the table had factors of single fuels, or  *)
(* none, for the mode.                                                     *)
LEMMA NewKeysKeepFactors ==
    ASSUME NEW T, NEW row,
           \A o \in T : \A g \in o.factors, k \in row.factors :
              g.mode = k.mode => g.fuel # Null /\ k.fuel = Null,
           NEW mode, NEW fuel, NEW where, NEW year,
           Hits(T, mode, fuel, where, year) # {}
    PROVE  ResolveFactor(T \cup {row}, mode, fuel, where, year)
             = ResolveFactor(T, mode, fuel, where, year)
<1> DEFINE U == T \cup {row}
           hits == Hits(T, mode, fuel, where, year)
           more == Hits(U, mode, fuel, where, year)
           n == Min(hits)
           try == Waterfall(fuel, where)
<1>1. /\ hits \subseteq 1..4 /\ n \in hits /\ \A i \in hits : n <= i
  BY ResolveFactorIs
<1>2. hits \subseteq more
  BY MatchingIs DEF Hits, Candidates
<1>3. more \subseteq 1..4 /\ Min(more) \in more /\ \A i \in more : Min(more) <= i
  <2>1. more # {}
    BY <1>1, <1>2
  <2> QED
    BY <2>1, ResolveFactorIs
<1>4. PICK x : x \in Candidates(T, mode, fuel, where, year, n)
  BY <1>1 DEF Hits
<1>5. PICK o \in T : \E g \in o.factors : g.mode = mode /\ g.fuel = try[n].fuel
  BY <1>4, MatchingIs DEF Candidates
<1>6. ASSUME NEW i \in 1..4, i \in DOMAIN try, i <= n
      PROVE  Candidates(U, mode, fuel, where, year, i) = Candidates(T, mode, fuel, where, year, i)
  <2>1. ASSUME NEW y \in Candidates(U, mode, fuel, where, year, i),
               y \notin Candidates(T, mode, fuel, where, year, i)
        PROVE  FALSE
    <3>1. PICK k \in row.factors : k.mode = mode /\ k.fuel = try[i].fuel
      BY <2>1, MatchingIs DEF Candidates
    <3>2. try[n].fuel # Null /\ try[i].fuel = Null
      BY <1>5, <3>1
    <3>3. n \in 1..4 /\ n \in DOMAIN try
      BY <1>1 DEF Hits
    <3> HIDE DEF try, n
    <3>4. fuel # Null
      <4>1. fuel = Null => try[1].fuel = Null /\ try[2].fuel = Null /\ DOMAIN try = 1..2
        BY WaterfallIs DEF try
      <4> QED
        BY <3>2, <3>3, <4>1
    <3>5. /\ try[1].fuel = fuel /\ try[2].fuel = fuel
          /\ try[3].fuel = Null /\ try[4].fuel = Null
      BY <3>4, WaterfallIs DEF try
    <3> QED
      BY <1>6, <3>2, <3>3, <3>4, <3>5
  <2>2. Candidates(T, mode, fuel, where, year, i) \subseteq Candidates(U, mode, fuel, where, year, i)
    BY MatchingIs DEF Candidates
  <2> QED
    BY <2>1, <2>2
<1>7. Min(more) = n
  <2>1. Min(more) <= n
    BY <1>1, <1>2, <1>3
  <2>2. Min(more) \in DOMAIN try /\ Candidates(U, mode, fuel, where, year, Min(more)) # {}
    BY <1>3 DEF Hits
  <2>3. Candidates(T, mode, fuel, where, year, Min(more)) # {}
    <3>1. Min(more) \in 1..4
      BY <1>3
    <3>2. Candidates(U, mode, fuel, where, year, Min(more))
            = Candidates(T, mode, fuel, where, year, Min(more))
      BY <1>6, <2>1, <2>2, <3>1
    <3> QED
      BY <2>2, <3>2
  <2>4. Min(more) \in hits
    BY <2>2, <2>3 DEF Hits
  <2>5. n <= Min(more)
    BY <1>1, <2>4
  <2> HIDE DEF n, more, hits
  <2>6. Min(more) \in Int /\ n \in Int
    <3>1. \A i \in 1..4 : i \in Int
      OBVIOUS
    <3>2. Min(more) \in 1..4 /\ n \in 1..4
      BY <1>1, <1>3
    <3> QED
      BY <3>1, <3>2
  <2> QED
    BY <2>1, <2>5, <2>6
<1>8. Candidates(U, mode, fuel, where, year, n) = Candidates(T, mode, fuel, where, year, n)
  <2>1. n \in DOMAIN try /\ n \in 1..4 /\ n <= n
    BY <1>1 DEF Hits
  <2> QED
    BY <1>6, <2>1
<1>9. hits # {} /\ more # {}
  BY <1>1, <1>2
<1>10. ResolveFactor(T, mode, fuel, where, year)
          = First(Candidates(T, mode, fuel, where, year, n)).factor
  BY <1>9, ResolveFactorIs
<1>11. ResolveFactor(U, mode, fuel, where, year)
          = First(Candidates(U, mode, fuel, where, year, n)).factor
  BY <1>7, <1>9, ResolveFactorIs
<1> QED
  BY <1>8, <1>10, <1>11
-----------------------------------------------------------------------------
(* The table as migrations and seedings fill it *)

RowsOfFile(f) == {[factors |-> Inserted[f], id |-> id] : id \in IdsOf(f)}
Left == CASE seeding = Specific -> 2 [] seeding = Canonical -> 1 [] OTHER -> 0

(* The rows are those of the migrations that are recorded, and batches of   *)
(* the seeder, which have ids of their own.                                *)
RowsInv ==
    /\ \A row \in table :
         \/ \E f \in applied : row \in RowsOfFile(f)
         \/ row.id \in 1..seedings.batches /\ row.factors \in {Specific, Canonical}
    /\ \A f \in applied : \E row \in RowsOfFile(f) : row \in table
    /\ \A row, o \in table : row.id \in 1..seedings.batches /\ row.id = o.id => row.factors = o.factors

(* A transaction holds the rows of its file. *)
PendingInv ==
    \A r \in Run : run[r].at \in {"record", "commit"} =>
        \E row \in RowsOfFile(NextFile(r)) : run[r].rows = {row}

(* The seeder finds the migrated rows of its first batch, and the rows of a *)
(* complete seeding stay.                                                  *)
SeedingInv ==
    /\ seedings \in [started : 0..MaxSeedings, batches : Nat, complete : Nat]
    /\ seeding \in {Null, Specific, Canonical}
    /\ seedings.batches + Left <= 2 * seedings.started
    /\ seedings.started > 0 => 1 \in applied
    /\ seedings.complete > 0 =>
         \E row \in table : row.factors = Canonical /\ row.id \in 1..seedings.batches

TableInv == RowsInv /\ PendingInv /\ SeedingInv

(* The ids of the migrations are none of the seeder's. *)
LEMMA IdsApart ==
    ASSUME SeedingInv, NEW f \in Files, NEW row \in RowsOfFile(f)
    PROVE  /\ row.id \in Nat /\ row.id \notin 1..seedings.batches
           /\ row.factors = Inserted[f]
<1>1. /\ seedings.batches \in Nat /\ seedings.started \in 0..MaxSeedings
      /\ MaxSeedings \in Nat /\ Left \in 0..2
  BY FactorsAssumption DEF SeedingInv, Left
<1>2. seedings.batches < LastId /\ LastId \in Nat
  BY <1>1 DEF SeedingInv, LastId
<1>3. row.id \in {0, LastId} /\ row.factors = Inserted[f]
  BY DEF RowsOfFile, IdsOf
<1> QED
  BY <1>1, <1>2, <1>3

(* Rows of one id agree. *)
LEMMA TableIsSound ==
    ASSUME MigrationTypes, RowsInv, SeedingInv
    PROVE  SoundTable(table)
<1>0. seedings.batches \in Nat /\ applied \subseteq Files
  BY DEF SeedingInv, MigrationTypes
<1>1. ASSUME NEW row \in table
      PROVE  /\ row.id \in Nat /\ row.factors \in Batches
             /\ row.id \notin 1..seedings.batches =>
                  \E f \in Files : row.factors = Inserted[f]
  <2>1. CASE \E f \in applied : row \in RowsOfFile(f)
    BY <1>0, <2>1, IdsApart DEF Batches
  <2>2. CASE row.id \in 1..seedings.batches /\ row.factors \in {Specific, Canonical}
    BY <1>0, <2>2 DEF Batches
  <2> QED
    BY <2>1, <2>2 DEF RowsInv
<1>2. ASSUME NEW row \in table, NEW o \in table, NEW g \in row.factors, NEW k \in o.factors,
             row.id = o.id, SameKey(g, k)
      PROVE  g = k
  <2>1. CASE row.id \in 1..seedings.batches
    <3>1. row.factors = o.factors
      BY <1>2, <2>1 DEF RowsInv
    <3> QED
      BY <1>1, <1>2, <3>1, OneFactorForKey
  <2>2. CASE row.id \notin 1..seedings.batches
    <3>1. PICK f \in Files, h \in Files : row.factors = Inserted[f] /\ o.factors = Inserted[h]
      BY <1>1, <1>2, <2>2
    <3>2. CASE f = h
      BY <1>1, <1>2, <3>1, <3>2, OneFactorForKey
    <3>3. CASE f # h
      BY <1>2, <3>1, <3>3, LaterFilesAddKeys DEF SameKey
    <3> QED
      BY <3>2, <3>3
  <2> QED
    BY <2>1, <2>2
<1> QED
  BY <1>1, <1>2, BatchesOfFactors DEF SoundTable

(* At first the table is empty. *)
LEMMA InitTable == Init => TableInv
<1> SUFFICES ASSUME Init PROVE TableInv
  OBVIOUS
<1>1. RowsInv
  BY DEF Init, RowsInv
<1>2. PendingInv
  BY DEF Init, PendingInv, Idle
<1>3. Null # Specific /\ Null # Canonical
  BY NullAssumption
<1>4. seedings = [started |-> 0, batches |-> 0, complete |-> 0] /\ Left = 0
      /\ MaxSeedings \in Nat
  BY <1>3, FactorsAssumption DEF Init, Left
<1>5. SeedingInv
  BY <1>4 DEF Init, SeedingInv
<1> QED
  BY <1>1, <1>2, <1>5 DEF TableInv

(* The migrations keep the table as it should be. *)
LEMMA MigrateKeepsTable ==
    ASSUME MigrationInv, TableInv, NEW r \in Run, Migrate(r) \/ Crash(r)
    PROVE  TableInv'
<1>0. seedings' = seedings /\ seeding' = seeding /\ Left' = Left
  BY DEF Migrate, Crash, ListPending, StartRun, Execute, Executed, Record, Commit,
         OthersUnchanged, Left
<1>1. ASSUME NEW s, run' = [run EXCEPT ![r] = s], table' = table, applied' = applied,
             s.at \in {"record", "commit"} =>
               \E row \in RowsOfFile(Min(s.pending)) : s.rows = {row}
      PROVE  TableInv'
  <2>1. \A o \in Run : run'[o] = IF o = r THEN s ELSE run[o]
    BY <1>1 DEF MigrationInv, MigrationTypes
  <2>2. PendingInv'
    BY <1>1, <2>1 DEF TableInv, PendingInv, NextFile
  <2> QED
    BY <1>0, <1>1, <2>2 DEF TableInv, RowsInv, SeedingInv
<1>2. CASE ListPending(r)
  BY <1>1, <1>2 DEF ListPending, StartRun
<1>3. CASE Execute(r)
  <2>0. table' = table
    BY <1>3 DEF Execute, Executed
  <2>1. PICK id \in IdsOf(NextFile(r)) :
          run' = [run EXCEPT ![r].at = "record",
                             ![r].rows = {[factors |-> Inserted[NextFile(r)], id |-> id]}]
    BY <1>3 DEF Execute, Executed
  <2> DEFINE row == [factors |-> Inserted[NextFile(r)], id |-> id]
             s == [run[r] EXCEPT !.at = "record", !.rows = {row}]
  <2>2. s.rows = {row} /\ s.pending = run[r].pending
    BY DEF MigrationInv, MigrationTypes, RunState
  <2>3. run' = [run EXCEPT ![r] = s] /\ table' = table /\ applied' = applied
    BY <1>3, <2>0, <2>1 DEF Execute, Executed, MigrationInv, MigrationTypes
  <2>4. row \in RowsOfFile(Min(s.pending))
    BY <2>2 DEF RowsOfFile, NextFile
  <2> HIDE DEF s, row
  <2> QED
    BY <1>1, <2>2, <2>3, <2>4
<1>4. CASE Record(r)
  <2>0. run[r] \in RunState /\ run[r].at = "record" /\ table' = table /\ applied' = applied
    BY <1>4 DEF Record, Step, MigrationInv, MigrationTypes
  <2>1. CASE run' = [run EXCEPT ![r] = Idle]
    BY <1>1, <2>0, <2>1 DEF Idle
  <2>2. CASE run' = [run EXCEPT ![r] = [run[r] EXCEPT !.at = "commit"]]
    <3> DEFINE s == [run[r] EXCEPT !.at = "commit"]
    <3>1. s.pending = run[r].pending /\ s.rows = run[r].rows
      BY <2>0 DEF RunState
    <3>2. \E row \in RowsOfFile(Min(s.pending)) : s.rows = {row}
      BY <2>0, <3>1 DEF TableInv, PendingInv, NextFile
    <3> HIDE DEF s
    <3> QED
      BY <1>1, <2>0, <2>2, <3>2 DEF s
  <2> QED
    BY <1>4, <2>1, <2>2 DEF Record
<1>5. CASE Crash(r)
  BY <1>1, <1>5 DEF Crash, Idle
<1>6. CASE Commit(r)
  <2> DEFINE file == NextFile(r)
  <2>0. run[r].at = "commit" /\ ~Step(r, "idle") /\ applied' = applied \cup {file}
        /\ table' = table \cup run[r].rows
    BY <1>6 DEF Commit, Step
  <2>1. PICK row \in RowsOfFile(file) : run[r].rows = {row}
    BY <2>0 DEF TableInv, PendingInv
  <2>2. file \in Files
    BY <2>0, NextIsInOrder DEF MigrationInv
  <2>3. row.id \notin 1..seedings.batches
    BY <2>1, <2>2, IdsApart DEF TableInv
  <2> HIDE DEF file
  <2>4. RowsInv'
    <3>1. \A x \in table' :
             \/ \E f \in applied' : x \in RowsOfFile(f)
             \/ x.id \in 1..seedings'.batches /\ x.factors \in {Specific, Canonical}
      BY <1>0, <2>0, <2>1 DEF TableInv, RowsInv
    <3>2. \A f \in applied' : \E x \in RowsOfFile(f) : x \in table'
      BY <2>0, <2>1 DEF TableInv, RowsInv
    <3>3. \A x, o \in table' :
             x.id \in 1..seedings'.batches /\ x.id = o.id => x.factors = o.factors
      BY <1>0, <2>0, <2>1, <2>3 DEF TableInv, RowsInv
    <3> QED
      BY <3>1, <3>2, <3>3 DEF RowsInv
  <2>5. PendingInv'
    <3> DEFINE rest == run[r].pending \ {NextFile(r)}
               s == IF rest = {} THEN Idle ELSE [at |-> "exec", pending |-> rest, rows |-> {}]
    <3>1. run' = [run EXCEPT ![r] = s] /\ s.at \in {"idle", "exec"}
      BY <1>6 DEF Commit, Idle
    <3> HIDE DEF s
    <3>2. \A o \in Run : run'[o] = IF o = r THEN s ELSE run[o]
      BY <3>1 DEF MigrationInv, MigrationTypes
    <3> QED
      BY <3>1, <3>2 DEF TableInv, PendingInv, NextFile
  <2>6. SeedingInv'
    BY <1>0, <2>0 DEF TableInv, SeedingInv
  <2> QED
    BY <2>4, <2>5, <2>6 DEF TableInv
<1> QED
  BY <1>2, <1>3, <1>4, <1>5, <1>6 DEF Migrate

(* So does the seeder. *)
LEMMA SeederKeepsTable ==
    ASSUME MigrationInv, TableInv, StartSeeding \/ Seed \/ SeedingFails
    PROVE  TableInv'
<1>0. /\ seedings \in [started : 0..MaxSeedings, batches : Nat, complete : Nat]
      /\ applied' = applied /\ run' = run /\ PendingInv'
      /\ Null # Specific /\ Null # Canonical /\ Specific # Canonical
      /\ MaxSeedings \in Nat
  BY NullAssumption, BatchesOfFactors, FactorsAssumption
     DEF TableInv, SeedingInv, PendingInv, NextFile, StartSeeding, Seed, InsertBatch, SeedingFails
<1>1. CASE StartSeeding
  <2>1. /\ seedings'.started = seedings.started + 1 /\ seedings.started < MaxSeedings
        /\ seedings'.batches = seedings.batches /\ seedings'.complete = seedings.complete
        /\ seedings' \in [started : 0..MaxSeedings, batches : Nat, complete : Nat]
        /\ table' = table /\ seeding = Null /\ seeding' = Specific /\ 1 \in applied
    BY <1>0, <1>1 DEF StartSeeding
  <2>2. Left = 0 /\ Left' = 2
    BY <1>0, <2>1 DEF Left
  <2>3. RowsInv'
    BY <1>0, <2>1 DEF TableInv, RowsInv
  <2>4. SeedingInv'
    BY <1>0, <2>1, <2>2 DEF TableInv, SeedingInv
  <2> QED
    BY <1>0, <2>3, <2>4 DEF TableInv
<1>2. CASE SeedingFails
  <2>1. table' = table /\ seedings' = seedings /\ seeding' = Null
    BY <1>2 DEF SeedingFails
  <2>2. Left' = 0 /\ Left \in 0..2
    BY <1>0, <2>1 DEF Left
  <2>3. RowsInv' 
    BY <1>0, <2>1 DEF TableInv, RowsInv
  <2>4. SeedingInv'
    BY <1>0, <2>1, <2>2 DEF TableInv, SeedingInv
  <2> QED
    BY <1>0, <2>3, <2>4 DEF TableInv
<1>3. CASE Seed
  <2> DEFINE n == seedings.batches + 1
             row == [factors |-> seeding, id |-> n]
  <2>1. /\ seedings'.started = seedings.started /\ seedings'.batches = n
        /\ seedings' \in [started : 0..MaxSeedings, batches : Nat, complete : Nat]
        /\ seeding # Canonical => seedings'.complete = seedings.complete
        /\ table' = table \cup {row}
        /\ seeding # Null /\ seeding' = (IF seeding = Specific THEN Canonical ELSE Null)
    <3> DEFINE c == seedings.complete + (IF seeding = Canonical THEN 1 ELSE 0)
    <3>1. c \in Nat /\ n \in Nat /\ (seeding # Canonical => c = seedings.complete)
      BY <1>0
    <3>2. /\ seedings' = [seedings EXCEPT !.batches = n, !.complete = c]
          /\ table' = table \cup {row}
          /\ seeding # Null /\ seeding' = (IF seeding = Specific THEN Canonical ELSE Null)
      BY <1>3 DEF Seed, InsertBatch
    <3> HIDE DEF n, c, row
    <3>3. /\ seedings'.started = seedings.started /\ seedings'.batches = n
          /\ seedings'.complete = c
          /\ seedings' \in [started : 0..MaxSeedings, batches : Nat, complete : Nat]
      BY <1>0, <3>1, <3>2
    <3> QED
      BY <3>1, <3>2, <3>3
  <2>2. Left' = Left - 1 /\ Left \in 1..2 /\ seeding \in {Specific, Canonical}
    BY <1>0, <2>1 DEF Left, TableInv, SeedingInv
  <2>3. \A x \in table : x.id # n
    <3>1. ASSUME NEW x \in table, NEW f \in applied, x \in RowsOfFile(f) PROVE x.id # n
      <4>1. x.id \in {0, LastId} /\ n <= 2 * seedings.started /\ n > 0
        BY <1>0, <2>2, <3>1 DEF RowsOfFile, IdsOf, TableInv, SeedingInv
      <4> QED
        BY <1>0, <4>1 DEF LastId
    <3>2. ASSUME NEW x \in table, x.id \in 1..seedings.batches PROVE x.id # n
      BY <1>0, <3>2
    <3> QED
      BY <3>1, <3>2 DEF TableInv, RowsInv
  <2>4. row.id = n /\ row.factors = seeding /\ n \in 1..n /\ 1..n = (1..seedings.batches) \cup {n}
    BY <1>0
  <2> HIDE DEF row, n
  <2>5. RowsInv'
    <3>1. \A x \in table' :
             \/ \E f \in applied' : x \in RowsOfFile(f)
             \/ x.id \in 1..seedings'.batches /\ x.factors \in {Specific, Canonical}
      BY <1>0, <2>1, <2>2, <2>4 DEF TableInv, RowsInv
    <3>2. \A f \in applied' : \E x \in RowsOfFile(f) : x \in table'
      BY <1>0, <2>1 DEF TableInv, RowsInv
    <3>3. \A x, o \in table' :
             x.id \in 1..seedings'.batches /\ x.id = o.id => x.factors = o.factors
      BY <1>0, <2>1, <2>3, <2>4 DEF TableInv, RowsInv
    <3> QED
      BY <3>1, <3>2, <3>3 DEF RowsInv
  <2>6. SeedingInv'
    <3>1. seedings'.batches + Left' <= 2 * seedings'.started
      BY <1>0, <2>1, <2>2 DEF TableInv, SeedingInv, n
    <3>2. seedings'.complete > 0 =>
             \E x \in table' : x.factors = Canonical /\ x.id \in 1..seedings'.batches
      BY <2>1, <2>4 DEF TableInv, SeedingInv
    <3> QED
      BY <1>0, <2>1, <3>1, <3>2 DEF TableInv, SeedingInv
  <2> QED
    BY <1>0, <2>5, <2>6 DEF TableInv
<1> QED
  BY <1>1, <1>2, <1>3

(* Every step keeps the invariant of the table. *)
LEMMA StepTable ==
    ASSUME MigrationInv, TableInv, [Next]_vars
    PROVE  TableInv'
<1>1. CASE UNCHANGED <<table, applied, run, seeding, seedings>>
  BY <1>1 DEF TableInv, RowsInv, PendingInv, SeedingInv, NextFile, Left
<1>2. CASE PriceTrip \/ ChangeRegion \/ UNCHANGED vars
  BY <1>1, <1>2 DEF PriceTrip, ChangeRegion, vars
<1> QED
  BY <1>2, MigrateKeepsTable, SeederKeepsTable DEF Next
-----------------------------------------------------------------------------
(* Every trip is priced *)

(* Each mode has a factor for any fuel that is in force in India since 2024. *)
LEMMA EveryModeHasAFactor ==
    ASSUME NEW mode \in Modes
    PROVE  \E g \in (IF mode \in {"train", "cab"} THEN Canonical
                     ELSE CommonFactors \cup MissingFactors \cup BusMetroFactors) :
             /\ g.mode = mode /\ g.fuel = Null /\ g.region \in {"IN", "global"} /\ g.from <= 2024
<1> DEFINE Serves(g) ==
             g.mode = mode /\ g.fuel = Null /\ g.region \in {"IN", "global"} /\ g.from <= 2024
           G(m, where, rate, year) == Factor(m, Null, where, rate, year)
<1>1. CASE mode \in {"train", "cab"}
  <2>1. {G("train", "IN", 50, 2024), G("cab", "IN", 210, 2024)} \subseteq Canonical
    BY DEF Canonical
  <2>2. \E g \in {G("train", "IN", 50, 2024), G("cab", "IN", 210, 2024)} : Serves(g)
    BY <1>1 DEF Factor
  <2> QED
    BY <1>1, <2>1, <2>2
<1>2. CASE mode \in {"walk", "bicycle", "flight"}
  <2>1. {G("walk", "global", 0, 2023), G("bicycle", "global", 0, 2023),
         G("flight", "global", 255, 2023)} \subseteq CommonFactors
    BY DEF CommonFactors, Legacy
  <2>2. \E g \in {G("walk", "global", 0, 2023), G("bicycle", "global", 0, 2023),
                  G("flight", "global", 255, 2023)} : Serves(g)
    BY <1>2 DEF Factor
  <2> QED
    BY <1>2, <2>1, <2>2
<1>3. CASE mode \in {"car", "auto_rickshaw", "two_wheeler", "walking", "cycling"}
  <2>1. {G("car", "IN", 190, 2024), G("auto_rickshaw", "IN", 78, 2024),
         G("two_wheeler", "IN", 100, 2024), G("walking", "global", 0, 2024),
         G("cycling", "global", 0, 2024)} \subseteq MissingFactors
    BY DEF MissingFactors
  <2>2. \E g \in {G("car", "IN", 190, 2024), G("auto_rickshaw", "IN", 78, 2024),
                  G("two_wheeler", "IN", 100, 2024), G("walking", "global", 0, 2024),
                  G("cycling", "global", 0, 2024)} : Serves(g)
    BY <1>3 DEF Factor
  <2> QED
    BY <1>3, <2>1, <2>2
<1>4. CASE mode \in {"bus", "metro"}
  <2>1. \E g \in BusMetroFactors : Serves(g)
    BY <1>4 DEF BusMetroFactors, Factor
  <2> QED
    BY <1>4, <2>1
<1> QED
  BY <1>1, <1>2, <1>3, <1>4 DEF Modes

(* A factor for any fuel is found, whatever the fuel. *)
LEMMA GenericFactorsAreFound ==
    ASSUME NEW T, SoundTable(T), NEW row \in T, NEW g \in row.factors, NEW where,
           g.fuel = Null, g.region \in {where, "global"}, NEW year, g.from <= year, NEW fuel
    PROVE  ResolveFactor(T, g.mode, fuel, where, year) \in AllFactors
<1> DEFINE hits == Hits(T, g.mode, fuel, where, year)
           try == Waterfall(fuel, where)
<1>1. \E i \in DOMAIN try : try[i].fuel = Null /\ try[i].region = g.region
  <2>1. CASE fuel = Null
    <3>1. 1 \in DOMAIN try /\ 2 \in DOMAIN try
      BY <2>1, WaterfallIs
    <3> QED
      BY <2>1, <3>1, WaterfallIs
  <2>2. CASE fuel # Null
    <3>1. 3 \in DOMAIN try /\ 4 \in DOMAIN try
      BY <2>2, WaterfallIs
    <3> QED
      BY <2>2, <3>1, WaterfallIs
  <2> QED
    BY <2>1, <2>2
<1>2. PICK i \in DOMAIN try : try[i].fuel = Null /\ try[i].region = g.region
  BY <1>1
<1>3. [factor |-> g, id |-> row.id] \in Candidates(T, g.mode, fuel, where, year, i)
  BY <1>2, MatchingIs DEF Candidates
<1>4. hits # {}
  BY <1>2, <1>3 DEF Hits
<1>5. Min(hits) \in hits
  BY <1>4, ResolveFactorIs
<1>6. Candidates(T, g.mode, fuel, where, year, Min(hits)) # {}
  BY <1>5 DEF Hits
<1>7. First(Candidates(T, g.mode, fuel, where, year, Min(hits)))
        \in Candidates(T, g.mode, fuel, where, year, Min(hits))
  BY <1>6, FirstIsFirst DEF Candidates
<1>8. First(Candidates(T, g.mode, fuel, where, year, Min(hits))).factor \in AllFactors
  BY <1>7, MatchingIs DEF Candidates, SoundTable
<1> QED
  BY <1>4, <1>8, ResolveFactorIs

(* The invariants say that every trip is priced. *)
LEMMA TripsHavePrices ==
    ASSUME MigrationInv, TableInv
    PROVE  EveryTripIsPriced
<1> SUFFICES ASSUME Migrated, NEW q \in Query, q.year >= 2024, q.km # Null,
                    q.mode \in {"train", "cab"} => seedings.complete > 0
             PROVE  Price(table, q, "IN") # Null
  BY DEF EveryTripIsPriced
<1>0. SoundTable(table) /\ q.mode \in Modes /\ q.km \in Nat /\ q.year \in Nat
  BY TableIsSound, FactorsAssumption DEF MigrationInv, TableInv
<1>1. \E row \in table : \E g \in row.factors :
         g.mode = q.mode /\ g.fuel = Null /\ g.region \in {"IN", "global"} /\ g.from <= 2024
  <2>1. CASE q.mode \in {"train", "cab"}
    <3>1. PICK row \in table : row.factors = Canonical
      BY <2>1 DEF TableInv, SeedingInv
    <3> QED
      BY <1>0, <2>1, <3>1, EveryModeHasAFactor
  <2>2. CASE q.mode \notin {"train", "cab"}
    <3>1. ASSUME NEW f \in Files PROVE \E row \in table : row.factors = Inserted[f]
      BY <3>1, IdsApart DEF TableInv, RowsInv, Migrated
    <3>2. PICK g \in CommonFactors \cup MissingFactors \cup BusMetroFactors :
             g.mode = q.mode /\ g.fuel = Null /\ g.region \in {"IN", "global"} /\ g.from <= 2024
      BY <1>0, <2>2, EveryModeHasAFactor
    <3>3. PICK f \in Files : g \in Inserted[f]
      BY BatchesOfFactors
    <3> QED
      BY <3>1, <3>2, <3>3
  <2> QED
    BY <2>1, <2>2
<1>2. PICK row \in table : \E g \in row.factors :
         g.mode = q.mode /\ g.fuel = Null /\ g.region \in {"IN", "global"} /\ g.from <= 2024
  BY <1>1
<1>3. PICK g \in row.factors :
         g.mode = q.mode /\ g.fuel = Null /\ g.region \in {"IN", "global"} /\ g.from <= 2024
  BY <1>2
<1>4. g.from <= q.year
  <2>1. g.from \in Nat
    BY <1>0, FactorTypes DEF SoundTable
  <2> QED
    BY <1>0, <1>3, <2>1
<1>5. ResolveFactor(table, q.mode, q.fuel, "IN", q.year) \in AllFactors
  BY <1>0, <1>3, <1>4, GenericFactorsAreFound
<1> DEFINE factor == ResolveFactor(table, q.mode, q.fuel, "IN", q.year)
           weight == IF TypeOf(q.mode) = "flight" THEN 19 ELSE 10
<1>6. factor.rate \in Nat /\ factor # Null
  BY <1>5, FactorTypes
<1>7. Price(table, q, "IN") = factor.rate * q.km * weight
  BY <1>6 DEF Price, Calculate
<1>8. factor.rate * q.km * weight \in Nat
  <2> HIDE DEF factor
  <2>1. \A x, y, z \in Nat : x * y * z \in Nat
    OBVIOUS
  <2> QED
    BY <1>0, <1>6, <2>1
<1> QED
  BY <1>7, <1>8, NullAssumption

(* Theorem: once any number of pods have migrated, every trip in India that  *)
(* the API accepts (activity/dto/dto.go:12) has a price, a train or cab      *)
(* once a seeding is complete (emission_service.go:69).                    *)
THEOREM TripsArePriced == Spec => []EveryTripIsPriced
<1> QED
  BY InitMigrations, StepMigrations, InitTable, StepTable, TripsHavePrices, PTL DEF Spec
-----------------------------------------------------------------------------
(* Prices hold *)

(* What a step adds to the table changes no factor that was found. *)
LEMMA FactorsHold ==
    ASSUME MigrationInv, TableInv, [Next]_vars,
           seedings'.batches = 0 \/ (Migrated /\ seedings.complete > 0),
           NEW mode, NEW fuel, NEW where, NEW year,
           ResolveFactor(table, mode, fuel, where, year) # Null
    PROVE  ResolveFactor(table', mode, fuel, where, year)
             = ResolveFactor(table, mode, fuel, where, year)
<1>0. SoundTable(table) /\ SoundTable(table)'
  <2>1. MigrationInv' /\ TableInv'
    BY StepMigrations, StepTable
  <2>2. SoundTable(table)
    BY TableIsSound DEF MigrationInv, TableInv
  <2>3. SoundTable(table)'
    BY <2>1, TableIsSound, PTL DEF MigrationInv, TableInv
  <2> QED
    BY <2>2, <2>3
<1>1. CASE table' = table
  BY <1>1
<1>2. ASSUME NEW r \in Run, Commit(r)
      PROVE  ResolveFactor(table', mode, fuel, where, year)
               = ResolveFactor(table, mode, fuel, where, year)
  <2> DEFINE file == NextFile(r)
  <2>0. Step(r, "commit") /\ ~Step(r, "idle") /\ table' = table \cup run[r].rows
        /\ seedings' = seedings
    BY <1>2 DEF Commit, Step, OthersUnchanged
  <2>1. file \in Files /\ file \notin applied /\ \A g \in Files : g < file => g \in applied
    BY <2>0, NextIsInOrder DEF MigrationInv, RunsInv
  <2>2. PICK row \in RowsOfFile(file) : run[r].rows = {row}
    BY <2>0 DEF TableInv, PendingInv, Step
  <2>3. row.factors = Inserted[file]
    BY <2>1, <2>2, IdsApart DEF TableInv
  <2>4. seedings.batches = 0
    BY <2>0, <2>1 DEF Migrated
  <2>5. ASSUME NEW o \in table, NEW g \in o.factors, NEW k \in row.factors, g.mode = k.mode
        PROVE  g.fuel # Null /\ k.fuel = Null
    <3>1. PICK f \in applied : o \in RowsOfFile(f)
      BY <2>4 DEF TableInv, RowsInv
    <3>2. f \in Files /\ o.factors = Inserted[f]
      BY <3>1, IdsApart DEF TableInv, MigrationInv, MigrationTypes
    <3>3. f # file /\ ~(file < f)
      BY <2>1, <3>1, <3>2 DEF MigrationInv, AppliedOnceInOrder
    <3>4. f < file
      BY <2>1, <3>2, <3>3, BatchesOfFactors
    <3> QED
      BY <2>1, <2>3, <2>5, <3>2, <3>3, <3>4, LaterFilesAddKeys
  <2>6. Hits(table, mode, fuel, where, year) # {}
    BY ResolveFactorIs
  <2> QED
    BY <2>0, <2>2, <2>5, <2>6, NewKeysKeepFactors
<1>3. CASE Seed
  <2> DEFINE n == seedings.batches + 1
             row == [factors |-> seeding, id |-> n]
  <2>0. /\ table' = table \cup {row} /\ seedings'.batches = n /\ seeding # Null
        /\ n \in Nat /\ n > 0
    BY <1>3 DEF Seed, InsertBatch, TableInv, SeedingInv
  <2>1. Migrated /\ seedings.complete > 0 /\ seeding \in {Specific, Canonical}
    BY <2>0 DEF TableInv, SeedingInv
  <2>2. ASSUME NEW g \in seeding PROVE \E o \in table : g \in o.factors /\ o.id < n
    <3>1. CASE seeding = Specific
      <4>1. 1 \in Files /\ 1 \in applied /\ g \in Inserted[1]
        BY <2>1, <2>2, <3>1, BatchesOfFactors DEF Migrated
      <4>2. PICK o \in RowsOfFile(1) : o \in table
        BY <4>1 DEF TableInv, RowsInv
      <4>3. o.id = 0 /\ o.factors = Inserted[1]
        BY DEF RowsOfFile, IdsOf
      <4> QED
        BY <2>0, <4>1, <4>2, <4>3
    <3>2. CASE seeding = Canonical
      <4>1. PICK o \in table : o.factors = Canonical /\ o.id \in 1..seedings.batches
        BY <2>1 DEF TableInv, SeedingInv
      <4>2. o.id < n
        BY <4>1 DEF TableInv, SeedingInv
      <4> QED
        BY <2>2, <3>2, <4>1, <4>2
    <3> QED
      BY <2>1, <3>1, <3>2
  <2>3. row.factors = seeding /\ row.id = n
    OBVIOUS
  <2> HIDE DEF row, n
  <2> QED
    BY <1>0, <2>0, <2>2, <2>3, CopiesChangeNothing
<1>4. ASSUME NEW r \in Run, Migrate(r) \/ Crash(r)
      PROVE  table' = table \/ Commit(r)
  <2>1. CASE Execute(r)
    BY <2>1 DEF Execute, Executed
  <2> QED
    BY <1>4, <2>1 DEF Migrate, Crash, ListPending, StartRun, Record
<1>5. CASE StartSeeding \/ SeedingFails \/ PriceTrip \/ ChangeRegion \/ UNCHANGED vars
  BY <1>1, <1>5 DEF StartSeeding, SeedingFails, PriceTrip, ChangeRegion, vars
<1> QED
  BY <1>1, <1>2, <1>3, <1>4, <1>5 DEF Next

(* Theorem: for every trip and region, and however many pods migrate and     *)
(* seedings run, fail and run again, no statement changes a price that was  *)
(* there, nor what a trip is compared with (emission_service.go:152).       *)
THEOREM PricesStay == Spec => PricesHold
<1>1. ASSUME MigrationInv, TableInv, [Next]_vars,
             seedings'.batches = 0 \/ (Migrated /\ seedings.complete > 0)
      PROVE  \A q \in Query, where \in Region :
               Price(table, q, where) # Null => Price(table', q, where) = Price(table, q, where)
  <2> SUFFICES ASSUME NEW q \in Query, NEW where \in Region, Price(table, q, where) # Null
               PROVE  Price(table', q, where) = Price(table, q, where)
    OBVIOUS
  <2>1. ResolveFactor(table, q.mode, q.fuel, where, q.year) # Null
    BY DEF Price, Calculate
  <2>2. ResolveFactor(table', q.mode, q.fuel, where, q.year)
          = ResolveFactor(table, q.mode, q.fuel, where, q.year)
    BY <1>1, <2>1, FactorsHold
  <2> QED
    BY <2>2 DEF Price
<1>2. ASSUME MigrationInv, TableInv, [Next]_vars,
             seedings'.batches = 0 \/ (Migrated /\ seedings.complete > 0),
             trip # Null, Impact # Null, <<table, region>>' # <<table, region>>
      PROVE  Impact' = Impact
  <2>1. trip' = trip
    BY <1>2 DEF Next, vars, Migrate, ListPending, StartRun, Execute, Executed, Record, Commit,
                OthersUnchanged, Crash, StartSeeding, Seed, InsertBatch, SeedingFails, PriceTrip,
                ChangeRegion
  <2> DEFINE q == trip.query
             best == BestEcoAlternative(q.mode)
  <2>2. ResolveFactor(table, best, Null, trip.region, q.year) # Null
    BY <1>2 DEF Impact, Compared, Calculate
  <2>3. ResolveFactor(table', best, Null, trip.region, q.year)
          = ResolveFactor(table, best, Null, trip.region, q.year)
    BY <1>2, <2>2, FactorsHold
  <2> QED
    BY <2>1, <2>3 DEF Impact, Compared
<1>3. ASSUME MigrationInv, TableInv, [Next]_vars
      PROVE  [(seedings'.batches = 0 \/ (Migrated /\ seedings.complete > 0)) =>
                /\ \A q \in Query, where \in Region :
                     Price(table, q, where) # Null => Price(table', q, where) = Price(table, q, where)
                /\ (trip # Null /\ Impact # Null) => Impact' = Impact]_<<table, region>>
  BY <1>1, <1>2, <1>3
<1> QED
  BY <1>3, InitMigrations, StepMigrations, InitTable, StepTable, PTL DEF Spec, PricesHold
=============================================================================
