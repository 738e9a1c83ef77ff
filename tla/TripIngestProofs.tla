-------------------------- MODULE TripIngestProofs --------------------------
(***************************************************************************)
(* Theorems about TripIngest, for all sets of inputs, ids and requests and *)
(* every trip: what holds of the stored rows under every interleaving of   *)
(* requests, every failed statement and every crash, and what holds when a *)
(* user's requests come one at a time.  The last part is about the short   *)
(* addresses of the rows (AddressSweep).                                   *)
(***************************************************************************)
EXTENDS TripIngest, AddressSweep, FiniteSetTheorems, TLAPS

-----------------------------------------------------------------------------
(* The score and the candidate window of TripMatcher, for all trips *)

(* The end used for the score is a time. *)
LEMMA EndIsTime ==
    ASSUME NEW t \in Trip
    PROVE  EffectiveEnd(t) \in Int /\ t.start \in Int
BY DEF Trip, Time, EffectiveEnd, FallbackMinutes

(* The time arithmetic does not depend on the order of the trips. *)
LEMMA TimeSymmetric ==
    ASSUME NEW a \in Trip, NEW b \in Trip
    PROVE  /\ Overlap(a, b) = Overlap(b, a)
           /\ Shorter(a, b) = Shorter(b, a)
BY EndIsTime DEF Overlap, Shorter, Lesser, Greater

(* Nor do the scores of places and durations. *)
LEMMA ScoresSymmetric ==
    ASSUME NEW a \in Trip, NEW b \in Trip
    PROVE  /\ DestinationScore(a, b) = DestinationScore(b, a)
           /\ OriginScore(a, b) = OriginScore(b, a)
           /\ DurationScore(a, b) = DurationScore(b, a)
<1>1. DestinationScore(a, b) = DestinationScore(b, a)
  BY NoneAssumption DEF DestinationScore, Trip, Time, Greater, Abs
<1>2. OriginScore(a, b) = OriginScore(b, a)
  BY NoneAssumption DEF OriginScore, Trip, Time, Greater, Abs
<1>3. DurationScore(a, b) = DurationScore(b, a)
  BY NoneAssumption DEF DurationScore, Trip, Time, Greater, Abs
<1> QED
  BY <1>1, <1>2, <1>3

(* The score is the same whichever of two trips arrives first. *)
THEOREM ScoreSymmetric ==
    ASSUME NEW a \in Trip, NEW b \in Trip
    PROVE  Symmetric(a, b)
<1>1. ModesCompatible(a.mode, b.mode) <=> ModesCompatible(b.mode, a.mode)
  BY DEF ModesCompatible
<1>2. Weighted(a, b) = Weighted(b, a)
  BY TimeSymmetric, ScoresSymmetric DEF Weighted
<1>3. (a.to # None /\ b.to # None) = (b.to # None /\ a.to # None)
  OBVIOUS
<1>4. (HasKnownEnd(a) /\ HasKnownEnd(b)) = (HasKnownEnd(b) /\ HasKnownEnd(a))
  BY DEF HasKnownEnd
<1> QED
  BY <1>1, <1>2, <1>3, <1>4, TimeSymmetric DEF Symmetric, Score

(* The overlap of two trips is never longer than the shorter of them: the    *)
(* ratio needs no clipping, and a positive overlap a positive duration.      *)
THEOREM OverlapWithinShorter ==
    ASSUME NEW a \in Trip, NEW b \in Trip
    PROVE  Overlap(a, b) <= Shorter(a, b)
BY EndIsTime DEF Overlap, Shorter, Lesser, Greater

(* Every trip that scores against an incoming one is among the rows the      *)
(* window query returns, if both ends are known and no stored trip took      *)
(* longer than the look-back for open sessions.                              *)
THEOREM WindowComplete ==
    ASSUME NEW a \in Trip, NEW b \in Trip,
           b.dur # None => b.dur <= OpenSession
    PROVE  WindowFinds(a, b)
<1> SUFFICES ASSUME HasKnownEnd(a), HasKnownEnd(b), Score(a, b).conf > 0
             PROVE  InWindow(a, b)
  BY DEF WindowFinds
<1>1. Overlap(a, b) > 0
  <2>1. Different.conf = 0
    BY DEF Different
  <2>2. Overlap(a, b) \in Int
    BY EndIsTime DEF Overlap, Lesser, Greater
  <2> QED
    BY <2>1, <2>2 DEF Score
<1>2. /\ b.start < EffectiveEnd(a)
      /\ a.start < EffectiveEnd(b)
  BY <1>1, EndIsTime DEF Overlap, Lesser, Greater
<1>3. b.start <= EffectiveEnd(a) + CandidateWindow
  BY <1>2, EndIsTime DEF CandidateWindow
<1>4. CASE b.end = None
  <2>1. b.dur \in Nat /\ EffectiveEnd(b) = b.start + b.dur
    BY <1>4 DEF HasKnownEnd, EffectiveEnd, Trip, Time
  <2>2. b.start >= a.start - OpenSession
    BY <1>2, <2>1, EndIsTime, NoneAssumption DEF OpenSession
  <2> QED
    BY <1>3, <1>4, <2>2 DEF InWindow
<1>5. CASE b.end # None
  <2>1. EffectiveEnd(b) = b.end
    BY <1>5 DEF EffectiveEnd
  <2>2. b.end >= a.start - CandidateWindow
    BY <1>2, <2>1, EndIsTime DEF CandidateWindow
  <2> QED
    BY <1>3, <1>5, <2>2 DEF InWindow
<1> QED
  BY <1>4, <1>5

(* A rounded quotient of at most 700 is at most 700. *)
LEMMA RoundAtMost ==
    ASSUME NEW d \in Nat \ {0}, NEW n \in Int, n <= 700 * d
    PROVE  Round(n, d) <= 700
<1> DEFINE q == (2 * n + d) \div (2 * d)
<1>1. q \in Int /\ (2 * d) * q <= 2 * n + d
  OBVIOUS
<1>2. (2 * d) * q < (2 * d) * 701
  BY <1>1
<1>3. q < 701
  BY <1>1, <1>2
<1> QED
  BY <1>1, <1>3 DEF Round

(* Trips of which only the times are known are never merged, however well   *)
(* they overlap: without places the score stays below the stricter          *)
(* threshold.                                                               *)
THEOREM TimeAloneNeverMerges ==
    ASSUME NEW a \in Trip, NEW b \in Trip
    PROVE  TimeAloneIsNotEnough(a, b)
<1> SUFFICES ASSUME a.to = None, a.from = None, a.dur = None
             PROVE  ~SameTrip(a, b)
  BY DEF TimeAloneIsNotEnough
<1>1. CASE ~ModesCompatible(a.mode, b.mode) \/ Overlap(a, b) <= 0
  BY <1>1 DEF Score, Different, SameTrip, AutoMergeThreshold
<1>2. CASE ModesCompatible(a.mode, b.mode) /\ ~(Overlap(a, b) <= 0)
  <2>1. /\ Overlap(a, b) \in Int /\ Shorter(a, b) \in Int
        /\ Overlap(a, b) > 0 /\ Overlap(a, b) <= Shorter(a, b)
    BY <1>2, EndIsTime, OverlapWithinShorter DEF Overlap, Shorter, Lesser, Greater
  <2>2. Weighted(a, b) = 1200 * Overlap(a, b) + 900 * Shorter(a, b)
    BY <2>1 DEF Weighted, DestinationScore, OriginScore, DurationScore
  <2>3. /\ 3 * Shorter(a, b) \in Nat \ {0} /\ Weighted(a, b) \in Int
        /\ Weighted(a, b) <= 700 * (3 * Shorter(a, b))
    BY <2>1, <2>2
  <2>4. Round(Weighted(a, b), 3 * Shorter(a, b)) <= 700
    BY <2>3, RoundAtMost
  <2>5. Round(Weighted(a, b), 3 * Shorter(a, b)) \in Int
    BY <2>3 DEF Round
  <2>6. /\ Score(a, b).conf = Round(Weighted(a, b), 3 * Shorter(a, b))
        /\ Score(a, b).coords = FALSE
    BY <1>2 DEF Score
  <2> QED
    BY <2>4, <2>5, <2>6 DEF SameTrip, AutoMergeThreshold
<1> QED
  BY <1>1, <1>2


-----------------------------------------------------------------------------
(* Typing *)

(* What a job holds at each program counter. *)
LEMMA JobFields ==
    ASSUME NEW j \in Job
    PROVE  /\ j.pc \in {"receipt", "key", "match"} => j.in \in Input
           /\ j.pc = "enrich" => /\ j.in \in Input
                                 /\ j.act \in Id
                                 /\ j.patch \in Patch
           /\ j.pc = "refetch" => j.in \in Input /\ j.act \in Id
           /\ j.pc = "create" => j.in \in Input /\ j.review \in BOOLEAN
           /\ j.pc = "save" => j.act \in Id /\ j.row \in Row
BY DEF Job

(* A patched trip is a trip. *)
LEMMA PatchedType ==
    ASSUME NEW t \in Trip, NEW p \in Patch
    PROVE  Patched(t, p) \in Trip
BY DEF Patched, Trip, Patch

(* A merged row is a row. *)
LEMMA MergedType ==
    ASSUME NEW row \in Row, NEW i \in Input, NEW p \in Patch
    PROVE  Merged(row, i, p) \in Row
<1>1. Patched(row.trip, p) \in Trip
  BY PatchedType DEF Row
<1>2. ((IF Kind[i] = "gmail" THEN {j \in row.from : Kind[j] # "gmail"}
                             ELSE row.from) \cup {i}) \in SUBSET Input
  BY DEF Row
<1> QED
  BY <1>1, <1>2 DEF Merged, Row, Source

(* A new row is a row. *)
LEMMA NewRowType ==
    ASSUME NEW i \in Input, NEW review \in BOOLEAN
    PROVE  NewRow(i, review) \in Row
BY InputAssumption DEF NewRow, Row, Source

(* What a merge sets is a patch. *)
LEMMA PatchType ==
    ASSUME NEW i \in Input, NEW a \in Id, rows[a] \in Row
    PROVE  PatchFor(i, a) \in Patch
<1>1. TripOf[i] \in Trip /\ rows[a].trip \in Trip
  BY InputAssumption DEF Row
<1> QED
  BY <1>1 DEF PatchFor, GPSPatch, ReceiptPatch, Patch, Trip

(* Every step keeps the state well typed. *)
LEMMA TypeStep ==
    ASSUME IngestTypeOK, [Next]_vars
    PROVE  IngestTypeOK'
<1>0. Idle \in Job
  BY DEF Idle, Job
<1>1. ASSUME NEW r \in Request, NEW i \in Input, Receive(r, i)
      PROVE  IngestTypeOK'
  <2>1. [pc |-> IF Kind[i] = "gmail" THEN "receipt" ELSE "key", in |-> i] \in Job
    BY DEF Job
  <2> QED
    BY <1>1, <2>1 DEF Receive, Goto, IngestTypeOK
<1>2. ASSUME NEW r \in Request, CheckReceipt(r)
      PROVE  IngestTypeOK'
  <2>1. req[r].in \in Input
    BY <1>2, JobFields DEF CheckReceipt, IngestTypeOK
  <2>2. [pc |-> "key", in |-> req[r].in] \in Job
    BY <2>1 DEF Job
  <2> QED
    BY <1>2, <2>2, <1>0 DEF CheckReceipt, Goto, IngestTypeOK
<1>3. ASSUME NEW r \in Request, CheckKey(r)
      PROVE  IngestTypeOK'
  <2>1. req[r].in \in Input
    BY <1>3, JobFields DEF CheckKey, IngestTypeOK
  <2>2. /\ [pc |-> "match", in |-> req[r].in] \in Job
        /\ [pc |-> "create", in |-> req[r].in, review |-> FALSE] \in Job
    BY <2>1 DEF Job
  <2> QED
    BY <1>3, <2>2, <1>0 DEF CheckKey, Goto, IngestTypeOK
<1>4. ASSUME NEW r \in Request, Match(r)
      PROVE  IngestTypeOK'
  <2>1. req[r].in \in Input
    BY <1>4, JobFields DEF Match, IngestTypeOK
  <2>2. \A a \in Best(req[r].in) : a \in Id /\ rows[a] \in Row
    BY DEF Best, Candidates, Live, IngestTypeOK
  <2>3. \A a \in Best(req[r].in) :
           [pc |-> "enrich", in |-> req[r].in, act |-> a,
            patch |-> PatchFor(req[r].in, a)] \in Job
    BY <2>1, <2>2, PatchType DEF Job
  <2>4. \A b \in BOOLEAN : [pc |-> "create", in |-> req[r].in, review |-> b] \in Job
    BY <2>1 DEF Job
  <2> DEFINE close(a) ==
                 Score(TripOf[req[r].in], rows[a].trip).conf >= ThresholdReview
  <2>5. \A a \in Best(req[r].in) : close(a) \in BOOLEAN
    OBVIOUS
  <2>6. \A a \in Best(req[r].in) :
           [pc |-> "create", in |-> req[r].in, review |-> close(a)] \in Job
    BY <2>4, <2>5
  <2>7. [pc |-> "create", in |-> req[r].in, review |-> FALSE] \in Job
    BY <2>4
  <2>8. \E j \in Job : Goto(r, j)
    BY <1>4, <2>3, <2>6, <2>7 DEF Match
  <2>9. req' \in [Request -> Job]
    BY <2>8 DEF Goto, IngestTypeOK
  <2> QED
    BY <1>4, <2>9 DEF Match, IngestTypeOK
<1>5. ASSUME NEW r \in Request, Enrich(r)
      PROVE  IngestTypeOK'
  <2>1. /\ req[r].in \in Input
        /\ req[r].act \in Id
        /\ req[r].patch \in Patch
    BY <1>5, JobFields DEF Enrich, IngestTypeOK
  <2>2. req[r].act \in Live =>
           Merged(rows[req[r].act], req[r].in, req[r].patch) \in Row
    BY <2>1, MergedType DEF Live, IngestTypeOK
  <2>3. [pc |-> "refetch", in |-> req[r].in, act |-> req[r].act] \in Job
    BY <2>1 DEF Job
  <2> QED
    BY <1>5, <2>1, <2>2, <2>3, <1>0 DEF Enrich, Goto, IngestTypeOK
<1>6. ASSUME NEW r \in Request, Refetch(r)
      PROVE  IngestTypeOK'
  <2>1. req[r].in \in Input
    BY <1>6, JobFields DEF Refetch, IngestTypeOK
  <2> QED
    BY <1>6, <2>1, <1>0 DEF Refetch, Goto, IngestTypeOK
<1>7. ASSUME NEW r \in Request, NEW a \in Id, Create(r, a)
      PROVE  IngestTypeOK'
  <2>1. req[r].in \in Input /\ req[r].review \in BOOLEAN
    BY <1>7, JobFields DEF Create, IngestTypeOK
  <2>2. NewRow(req[r].in, req[r].review) \in Row
    BY <2>1, NewRowType
  <2> QED
    BY <1>7, <2>1, <2>2, <1>0 DEF Create, Goto, IngestTypeOK
<1>8. ASSUME NEW r \in Request, NEW a \in Id, FindForUpdate(r, a)
      PROVE  IngestTypeOK'
  <2>1. rows[a] \in Row
    BY <1>8 DEF FindForUpdate, Live, IngestTypeOK
  <2>2. \A s \in NewStart \cup {rows[a].trip.start} :
           [pc |-> "save", act |-> a, row |-> [rows[a] EXCEPT !.trip.start = s]] \in Job
    BY <2>1, InputAssumption DEF Job, Row, Trip, Time
  <2> QED
    BY <1>8, <2>2 DEF FindForUpdate, Goto, IngestTypeOK
<1>9. ASSUME NEW r \in Request, Save(r)
      PROVE  IngestTypeOK'
  <2>1. req[r].act \in Id /\ req[r].row \in Row
    BY <1>9, JobFields DEF Save, IngestTypeOK
  <2> QED
    BY <1>9, <2>1, <1>0 DEF Save, Goto, IngestTypeOK
<1>10. ASSUME NEW r \in Request, NEW a \in Id, DeleteActivity(r, a)
       PROVE  IngestTypeOK'
  BY <1>10 DEF DeleteActivity, IngestTypeOK
<1>11. ASSUME NEW r \in Request, Abort(r)
       PROVE  IngestTypeOK'
  BY <1>11, <1>0 DEF Abort, Goto, IngestTypeOK
<1>12. CASE UNCHANGED vars
  BY <1>12 DEF vars, IngestTypeOK
<1> QED
  BY <1>1, <1>2, <1>3, <1>4, <1>5, <1>6, <1>7, <1>8, <1>9, <1>10, <1>11, <1>12 DEF Next

(* The state has the declared types. *)
THEOREM IngestTypeCorrect == Spec => []IngestTypeOK
<1>1. Init => IngestTypeOK
  BY DEF Init, IngestTypeOK, Idle, Job
<1>2. IngestTypeOK /\ [Next]_vars => IngestTypeOK'
  BY TypeStep
<1> QED
  BY <1>1, <1>2, PTL DEF Spec

-----------------------------------------------------------------------------
(* Stored inputs are recognised, and receipts stored once *)

\* A row, stored or about to be saved, knows the inputs it holds.
RowOK(row) ==
    /\ row.key \in row.from
    /\ row.receipt # None => row.receipt \in row.from
    /\ \A i \in row.from : Kind[i] = "gmail" => row.receipt = i
    /\ row.source = "gps" => Kind[row.key] = "gps"

RowsOK == \A a \in Id : rows[a] # None => RowOK(rows[a])

UniqueReceipts ==
    \A a, b \in Id :
        /\ rows[a] # None
        /\ rows[b] # None
        /\ rows[a].receipt # None
        /\ rows[a].receipt = rows[b].receipt
        => a = b

\* The key of an id never changes, also in copies of its row.
KeysOfBirth ==
    /\ \A a \in Id : rows[a] # None => rows[a].key = born[a]
    /\ \A r \in Request : req[r].pc = "save" => req[r].row.key = born[req[r].act]

SavesOK == \A r \in Request : req[r].pc = "save" => RowOK(req[r].row)

\* A receipt is only ever merged into a row that was created for a GPS trip.
ReceiptsMeetGPS ==
    \A r \in Request :
        req[r].pc = "enrich" /\ Kind[req[r].in] = "gmail" =>
            /\ born[req[r].act] \in Input
            /\ Kind[born[req[r].act]] = "gps"

StoredInv ==
    /\ IngestTypeOK
    /\ RowsOK
    /\ UniqueReceipts
    /\ KeysOfBirth
    /\ SavesOK
    /\ ReceiptsMeetGPS

(* Writing a good row that violates no unique index keeps the table good. *)
LEMMA PutRow ==
    ASSUME IngestTypeOK, RowsOK, UniqueReceipts,
           NEW a \in Id, NEW row \in Row, RowOK(row), ~Conflicts(a, row),
           rows' = [rows EXCEPT ![a] = row]
    PROVE  RowsOK' /\ UniqueReceipts'
<1>1. rows'[a] = row /\ \A b \in Id \ {a} : rows'[b] = rows[b]
  BY DEF IngestTypeOK
<1>2. RowsOK'
  BY <1>1 DEF RowsOK, RowOK
<1>3. \A b \in Id \ {a} :
         rows[b] # None /\ row.receipt # None => rows[b].receipt # row.receipt
  BY DEF Conflicts, Live
<1>4. UniqueReceipts'
  BY <1>1, <1>3 DEF UniqueReceipts
<1> QED
  BY <1>2, <1>4

(* A merge keeps a row good: the row keeps its own input, and the receipt    *)
(* takes the place of any other.                                             *)
LEMMA MergedRowOK ==
    ASSUME NEW row \in Row, NEW i \in Input, NEW p \in Patch, RowOK(row),
           Kind[i] = "gmail" => Kind[row.key] = "gps"
    PROVE  RowOK(Merged(row, i, p))
<1> DEFINE m == Merged(row, i, p)
<1>1. CASE Kind[i] = "gmail"
  <2>1. /\ m.key = row.key
        /\ m.receipt = i
        /\ m.source = "gps+receipt"
        /\ m.from = {j \in row.from : Kind[j] # "gmail"} \cup {i}
    BY <1>1 DEF Merged, Row
  <2>2. row.key \in row.from /\ Kind[row.key] # "gmail"
    BY <1>1 DEF RowOK
  <2> QED
    BY <2>1, <2>2 DEF RowOK
<1>2. CASE Kind[i] # "gmail"
  <2>1. /\ m.key = row.key
        /\ m.receipt = row.receipt
        /\ m.source = "gps+receipt"
        /\ m.from = row.from \cup {i}
    BY <1>2 DEF Merged, Row
  <2> QED
    BY <1>2, <2>1 DEF RowOK
<1> QED
  BY <1>1, <1>2

(* A new row is good. *)
LEMMA NewRowOK ==
    ASSUME NEW i \in Input, NEW review \in BOOLEAN
    PROVE  RowOK(NewRow(i, review)) /\ NewRow(i, review).key = i
BY DEF NewRow, RowOK

(* What is written where, and when: each step leaves the table alone, puts   *)
(* a good row of the right key in it, or deletes a row.                      *)
LEMMA StoredStep ==
    ASSUME StoredInv, [Next]_vars
    PROVE  StoredInv'
<1> USE DEF StoredInv
<1>0. IngestTypeOK'
  BY TypeStep
<1>1. ASSUME NEW r \in Request,
             UNCHANGED <<rows, born>>,
             NEW j, req' = [req EXCEPT ![r] = j],
             j.pc = "save" => RowOK(j.row) /\ j.row.key = born[j.act],
             j.pc = "enrich" /\ Kind[j.in] = "gmail" =>
                 born[j.act] \in Input /\ Kind[born[j.act]] = "gps"
      PROVE  StoredInv'
  <2>1. \A s \in Request : req'[s] = IF s = r THEN j ELSE req[s]
    BY <1>1 DEF IngestTypeOK
  <2>2. RowsOK' /\ UniqueReceipts'
    BY <1>1 DEF RowsOK, UniqueReceipts
  <2>3. KeysOfBirth'
    BY <1>1, <2>1 DEF KeysOfBirth
  <2>4. SavesOK' /\ ReceiptsMeetGPS'
    BY <1>1, <2>1 DEF SavesOK, ReceiptsMeetGPS
  <2> QED
    BY <1>0, <2>2, <2>3, <2>4
<1>2. ASSUME NEW r \in Request, NEW i \in Input, Receive(r, i)
      PROVE  StoredInv'
  <2> DEFINE j == [pc |-> IF Kind[i] = "gmail" THEN "receipt" ELSE "key", in |-> i]
  <2>1. j.pc \notin {"save", "enrich"}
    OBVIOUS
  <2>2. req' = [req EXCEPT ![r] = j] /\ UNCHANGED <<rows, born>>
    BY <1>2 DEF Receive, Goto
  <2> HIDE DEF j
  <2> QED
    BY <1>1, <2>1, <2>2
<1>3. ASSUME NEW r \in Request, CheckReceipt(r)
      PROVE  StoredInv'
  BY <1>1, <1>3 DEF CheckReceipt, Goto, Idle
<1>4. ASSUME NEW r \in Request, CheckKey(r)
      PROVE  StoredInv'
  BY <1>1, <1>4 DEF CheckKey, Goto, Idle
<1>5. ASSUME NEW r \in Request, Match(r)
      PROVE  StoredInv'
  <2> DEFINE i == req[r].in
  <2>1. PICK j : /\ req' = [req EXCEPT ![r] = j]
                 /\ \/ j.pc = "create"
                    \/ /\ j.pc = "enrich"
                       /\ j.in = i
                       /\ j.act \in Candidates(i)
    <3>1. CASE Best(i) = {}
      <4> DEFINE create == [pc |-> "create", in |-> i, review |-> FALSE]
      <4>1. req' = [req EXCEPT ![r] = create]
        BY <1>5, <3>1 DEF Match, Goto
      <4>2. create.pc = "create"
        OBVIOUS
      <4> HIDE DEF create
      <4> QED
        BY <4>1, <4>2
    <3>2. CASE Best(i) # {}
      <4>1. PICK a \in Best(i) :
               Goto(r, IF SameTrip(TripOf[i], rows[a].trip)
                       THEN [pc |-> "enrich", in |-> i, act |-> a, patch |-> PatchFor(i, a)]
                       ELSE [pc |-> "create", in |-> i,
                             review |-> Score(TripOf[i], rows[a].trip).conf >= ThresholdReview])
        BY <1>5, <3>2 DEF Match
      <4>2. a \in Candidates(i)
        BY DEF Best
      <4> DEFINE merge == [pc |-> "enrich", in |-> i, act |-> a, patch |-> PatchFor(i, a)]
      <4> DEFINE create == [pc |-> "create", in |-> i,
                            review |-> Score(TripOf[i], rows[a].trip).conf >= ThresholdReview]
      <4>3. /\ merge.pc = "enrich" /\ merge.in = i /\ merge.act = a
            /\ create.pc = "create"
        OBVIOUS
      <4>4. req' = [req EXCEPT ![r] = merge] \/ req' = [req EXCEPT ![r] = create]
        <5> HIDE DEF i
        <5>1. CASE SameTrip(TripOf[i], rows[a].trip)
          BY <4>1, <5>1 DEF Goto
        <5>2. CASE ~SameTrip(TripOf[i], rows[a].trip)
          BY <4>1, <5>2 DEF Goto
        <5> QED
          BY <5>1, <5>2
      <4> HIDE DEF merge, create
      <4> QED
        BY <4>2, <4>3, <4>4
    <3> QED
      BY <3>1, <3>2
  <2>2. ASSUME j.pc = "enrich", Kind[j.in] = "gmail"
        PROVE  born[j.act] \in Input /\ Kind[born[j.act]] = "gps"
    <3>1. j.act \in Live /\ rows[j.act].source = "gps"
      BY <2>1, <2>2 DEF Candidates
    <3>2. rows[j.act] \in Row /\ RowOK(rows[j.act])
      BY <3>1 DEF Live, IngestTypeOK, RowsOK
    <3>3. rows[j.act].key = born[j.act]
      BY <3>1 DEF Live, KeysOfBirth
    <3> QED
      BY <3>1, <3>2, <3>3 DEF RowOK, Row
  <2> QED
    BY <1>1, <1>5, <2>1, <2>2 DEF Match
<1>6. ASSUME NEW r \in Request, Enrich(r)
      PROVE  StoredInv'
  <2> DEFINE j == req[r]
  <2> DEFINE row == Merged(rows[j.act], j.in, j.patch)
  <2>1. j.act \in Id /\ j.in \in Input /\ j.patch \in Patch
    BY <1>6, JobFields DEF Enrich, IngestTypeOK
  <2>2. UNCHANGED born
    BY <1>6 DEF Enrich
  <2>3. CASE rows' = rows
    BY <1>1, <1>6, <2>2, <2>3 DEF Enrich, Goto, Idle
  <2>4. CASE j.act \in Live /\ ~Conflicts(j.act, row) /\ rows' = [rows EXCEPT ![j.act] = row]
    <3>1. rows[j.act] \in Row /\ RowOK(rows[j.act]) /\ rows[j.act].key = born[j.act]
      BY <2>1, <2>4 DEF Live, IngestTypeOK, RowsOK, KeysOfBirth
    <3>2. Kind[j.in] = "gmail" => Kind[rows[j.act].key] = "gps"
      BY <1>6, <3>1 DEF Enrich, ReceiptsMeetGPS
    <3>3. row \in Row /\ RowOK(row)
      BY <2>1, <3>1, <3>2, MergedRowOK, MergedType
    <3>4. row.key = born[j.act]
      BY <3>1 DEF Merged, Row
    <3>5. RowsOK' /\ UniqueReceipts'
      <4> HIDE DEF row
      <4> QED
        BY <2>1, <2>4, <3>3, PutRow
    <3>6. \A s \in Request : req'[s] = req[s] \/ req'[s].pc \notin {"save", "enrich"}
      BY <1>6 DEF Enrich, Goto, Idle, IngestTypeOK
    <3>7. \A a \in Id : rows'[a] = IF a = j.act THEN row ELSE rows[a]
      BY <2>1, <2>4 DEF IngestTypeOK
    <3>8. KeysOfBirth'
      <4> HIDE DEF row
      <4> QED
        BY <2>2, <3>4, <3>6, <3>7 DEF KeysOfBirth
    <3>9. SavesOK' /\ ReceiptsMeetGPS'
      BY <2>2, <3>6 DEF SavesOK, ReceiptsMeetGPS
    <3> QED
      BY <1>0, <3>5, <3>8, <3>9
  <2> QED
    BY <1>6, <2>3, <2>4 DEF Enrich
<1>7. ASSUME NEW r \in Request, Refetch(r)
      PROVE  StoredInv'
  BY <1>1, <1>7 DEF Refetch, Goto, Idle
<1>8. ASSUME NEW r \in Request, NEW a \in Id, Create(r, a)
      PROVE  StoredInv'
  <2> DEFINE row == NewRow(req[r].in, req[r].review)
  <2>1. req[r].in \in Input /\ req[r].review \in BOOLEAN
    BY <1>8, JobFields DEF Create, IngestTypeOK
  <2>2. CASE UNCHANGED <<rows, born>>
    BY <1>1, <1>8, <2>2 DEF Create, Goto, Idle
  <2>3. CASE /\ ~Conflicts(a, row)
             /\ rows' = [rows EXCEPT ![a] = row]
             /\ born' = [born EXCEPT ![a] = req[r].in]
    <3>1. row \in Row /\ RowOK(row) /\ row.key = req[r].in
      BY <2>1, NewRowOK, NewRowType
    <3>2. RowsOK' /\ UniqueReceipts'
      <4> HIDE DEF row
      <4> QED
        BY <2>3, <3>1, PutRow
    <3>3. \A s \in Request : req'[s] = req[s] \/ req'[s].pc \notin {"save", "enrich"}
      BY <1>8 DEF Create, Goto, Idle, IngestTypeOK
    <3>4. \A b \in Id : /\ rows'[b] = IF b = a THEN row ELSE rows[b]
                        /\ born'[b] = IF b = a THEN req[r].in ELSE born[b]
      BY <2>3 DEF IngestTypeOK
    <3>5. born[a] = None
      BY <1>8 DEF Create
    <3>6. \A s \in Request : req[s].pc = "save" => req[s].act # a
      <4> SUFFICES ASSUME NEW s \in Request, req[s].pc = "save" PROVE req[s].act # a
        OBVIOUS
      <4>1. req[s].row.key \in Input
        BY JobFields DEF IngestTypeOK, Row
      <4> QED
        BY <4>1, <3>5, InputAssumption DEF KeysOfBirth
    <3>7. KeysOfBirth'
      <4>1. \A b \in Id : rows'[b] # None => rows'[b].key = born'[b]
        <5> HIDE DEF row
        <5> QED
          BY <3>1, <3>4 DEF KeysOfBirth
      <4>2. \A s \in Request : req[s].pc = "save" => req[s].act \in Id
        BY JobFields DEF IngestTypeOK
      <4>3. \A s \in Request : req'[s].pc = "save" => req'[s].row.key = born'[req'[s].act]
        BY <3>3, <3>4, <3>6, <4>2 DEF KeysOfBirth
      <4> QED
        BY <4>1, <4>3 DEF KeysOfBirth
    <3>8. SavesOK'
      BY <3>3 DEF SavesOK
    <3>9. ReceiptsMeetGPS'
      <4>1. \A s \in Request : req[s].pc = "enrich" => req[s].act \in Id
        BY JobFields DEF IngestTypeOK
      <4> QED
        BY <3>3, <3>4, <3>5, <4>1, InputAssumption DEF ReceiptsMeetGPS
    <3> QED
      BY <1>0, <3>2, <3>7, <3>8, <3>9
  <2> QED
    BY <1>8, <2>2, <2>3 DEF Create
<1>9. ASSUME NEW r \in Request, NEW a \in Id, FindForUpdate(r, a)
      PROVE  StoredInv'
  <2>1. rows[a] \in Row /\ RowOK(rows[a]) /\ rows[a].key = born[a]
    BY <1>9 DEF FindForUpdate, Live, IngestTypeOK, RowsOK, KeysOfBirth
  <2>2. PICK s : req' = [req EXCEPT ![r] =
                    [pc |-> "save", act |-> a, row |-> [rows[a] EXCEPT !.trip.start = s]]]
    BY <1>9 DEF FindForUpdate, Goto
  <2> DEFINE copy == [rows[a] EXCEPT !.trip.start = s]
  <2>3. RowOK(copy) /\ copy.key = born[a]
    BY <2>1 DEF RowOK, Row
  <2> QED
    BY <1>1, <1>9, <2>2, <2>3 DEF FindForUpdate
<1>10. ASSUME NEW r \in Request, Save(r)
       PROVE  StoredInv'
  <2> DEFINE j == req[r]
  <2>1. j.act \in Id /\ j.row \in Row /\ RowOK(j.row) /\ j.row.key = born[j.act]
    BY <1>10, JobFields DEF Save, IngestTypeOK, SavesOK, KeysOfBirth
  <2>2. CASE rows' = rows
    BY <1>1, <1>10, <2>2 DEF Save, Goto, Idle
  <2>3. CASE ~Conflicts(j.act, j.row) /\ rows' = [rows EXCEPT ![j.act] = j.row]
    <3>1. RowsOK' /\ UniqueReceipts'
      BY <2>1, <2>3, PutRow
    <3>2. \A s \in Request : req'[s] = req[s] \/ req'[s].pc \notin {"save", "enrich"}
      BY <1>10 DEF Save, Goto, Idle, IngestTypeOK
    <3>3. \A a \in Id : rows'[a] = IF a = j.act THEN j.row ELSE rows[a]
      BY <2>1, <2>3 DEF IngestTypeOK
    <3>4. UNCHANGED born
      BY <1>10 DEF Save
    <3>5. KeysOfBirth'
      BY <2>1, <3>2, <3>3, <3>4 DEF KeysOfBirth
    <3>6. SavesOK' /\ ReceiptsMeetGPS'
      BY <3>2, <3>4 DEF SavesOK, ReceiptsMeetGPS
    <3> QED
      BY <1>0, <3>1, <3>5, <3>6
  <2> QED
    BY <1>10, <2>2, <2>3 DEF Save
<1>11. ASSUME NEW r \in Request, NEW a \in Id, DeleteActivity(r, a)
       PROVE  StoredInv'
  <2>1. \A b \in Id : rows'[b] = IF b = a THEN None ELSE rows[b]
    BY <1>11 DEF DeleteActivity, IngestTypeOK
  <2>2. UNCHANGED <<born, req>>
    BY <1>11 DEF DeleteActivity
  <2>3. RowsOK' /\ UniqueReceipts'
    BY <2>1 DEF RowsOK, UniqueReceipts
  <2> QED
    BY <1>0, <2>1, <2>2, <2>3 DEF KeysOfBirth, SavesOK, ReceiptsMeetGPS
<1>12. ASSUME NEW r \in Request, Abort(r)
       PROVE  StoredInv'
  BY <1>1, <1>12 DEF Abort, Goto, Idle
<1>13. CASE UNCHANGED vars
  BY <1>0, <1>13 DEF vars, RowsOK, UniqueReceipts, KeysOfBirth, SavesOK, ReceiptsMeetGPS
<1> QED
  BY <1>2, <1>3, <1>4, <1>5, <1>6, <1>7, <1>8, <1>9, <1>10, <1>11, <1>12, <1>13 DEF Next

(* The table is good in every reachable state. *)
THEOREM StoredAlways == Spec => []StoredInv
<1>1. Init => StoredInv
  <2> SUFFICES ASSUME Init PROVE StoredInv
    OBVIOUS
  <2>1. IngestTypeOK
    BY DEF Init, IngestTypeOK, Idle, Job
  <2> QED
    BY <2>1 DEF Init, StoredInv, RowsOK, UniqueReceipts, KeysOfBirth, SavesOK,
                ReceiptsMeetGPS, Idle
<1>2. StoredInv /\ [Next]_vars => StoredInv'
  BY StoredStep
<1> QED
  BY <1>1, <1>2, PTL DEF Spec

(* A redelivered input is recognised exactly when a row holds it, under      *)
(* every interleaving, failed statement and crash.                           *)
THEOREM RedeliveryRecognised == Spec => []DuplicatesAreStored
<1>1. StoredInv => DuplicatesAreStored
  BY DEF StoredInv, DuplicatesAreStored, RowsOK, RowOK, Live
<1> QED
  BY <1>1, StoredAlways, PTL

(* A receipt is in one row at most, under every interleaving. *)
THEOREM ReceiptStoredOnce == Spec => []ReceiptsInOneRow
<1>1. StoredInv => ReceiptsInOneRow
  <2> SUFFICES ASSUME StoredInv, NEW a \in Live, NEW b \in Live,
                      NEW i \in rows[a].from \cap rows[b].from, Kind[i] = "gmail"
               PROVE  a = b
    BY DEF ReceiptsInOneRow
  <2>1. rows[a] \in Row /\ RowOK(rows[a]) /\ RowOK(rows[b])
    BY DEF Live, StoredInv, RowsOK, IngestTypeOK
  <2>2. rows[a].receipt = i /\ rows[b].receipt = i /\ i \in Input
    BY <2>1 DEF RowOK, Row
  <2> QED
    BY <2>2, InputAssumption DEF StoredInv, UniqueReceipts, Live
<1> QED
  BY <1>1, StoredAlways, PTL

-----------------------------------------------------------------------------
(* The best candidate *)

(* A rounded quotient of at most 1000 is at most 1000. *)
LEMMA RoundWithin ==
    ASSUME NEW d \in Nat \ {0}, NEW n \in Int, 0 <= n, n <= 1000 * d
    PROVE  Round(n, d) \in Int /\ 0 <= Round(n, d) /\ Round(n, d) <= 1000
<1> DEFINE q == (2 * n + d) \div (2 * d)
<1>1. q \in Int /\ (2 * d) * q <= 2 * n + d /\ q >= 0
  OBVIOUS
<1>2. (2 * d) * q < (2 * d) * 1001
  BY <1>1
<1>3. q < 1001
  BY <1>1, <1>2
<1> QED
  BY <1>1, <1>3 DEF Round

(* A confidence is a number of thousandths. *)
LEMMA ConfRange ==
    ASSUME NEW a \in Trip, NEW b \in Trip
    PROVE  LET c == Score(a, b).conf IN c \in Int /\ 0 <= c /\ c <= 1000
<1>1. CASE ~ModesCompatible(a.mode, b.mode) \/ Overlap(a, b) <= 0
  BY <1>1 DEF Score, Different
<1>2. CASE ModesCompatible(a.mode, b.mode) /\ ~(Overlap(a, b) <= 0)
  <2> DEFINE part == 15 * DestinationScore(a, b) + 10 * OriginScore(a, b)
                        + 5 * DurationScore(a, b)
  <2> DEFINE s == Shorter(a, b)
  <2>1. /\ Overlap(a, b) \in Int /\ s \in Int
        /\ Overlap(a, b) > 0 /\ Overlap(a, b) <= s
    BY <1>2, EndIsTime, OverlapWithinShorter DEF Overlap, Shorter, Lesser, Greater
  <2>2. DestinationScore(a, b) \in 0..60
    BY NoneAssumption DEF DestinationScore, Trip, Time, Greater, Abs
  <2>3. OriginScore(a, b) \in 0..60
    BY NoneAssumption DEF OriginScore, Trip, Time, Greater, Abs
  <2>4. DurationScore(a, b) \in 0..60
    BY NoneAssumption DEF DurationScore, Trip, Time, Greater, Abs
  <2>5. part \in Int /\ part >= 0 /\ part <= 1800
    <3> DEFINE x == DestinationScore(a, b)
    <3> DEFINE y == OriginScore(a, b)
    <3> DEFINE z == DurationScore(a, b)
    <3>1. /\ x \in Int /\ 0 <= x /\ x <= 60
          /\ y \in Int /\ 0 <= y /\ y <= 60
          /\ z \in Int /\ 0 <= z /\ z <= 60
      BY <2>2, <2>3, <2>4
    <3> HIDE DEF x, y, z
    <3>2. LET p == 15 * x + 10 * y + 5 * z IN p \in Int /\ p >= 0 /\ p <= 1800
      BY <3>1
    <3> QED
      BY <3>2 DEF x, y, z
  <2>6. Weighted(a, b) = 1200 * Overlap(a, b) + part * s
    BY DEF Weighted
  <2>7. part * s \in Int /\ part * s >= 0 /\ part * s <= 1800 * s
    <3> HIDE DEF part, s
    <3> QED
      BY <2>1, <2>5
  <2> HIDE DEF part, s
  <2>8. /\ 3 * s \in Nat \ {0} /\ Weighted(a, b) \in Int
        /\ 0 <= Weighted(a, b) /\ Weighted(a, b) <= 1000 * (3 * s)
    BY <2>1, <2>6, <2>7
  <2> DEFINE q == Round(Weighted(a, b), 3 * s)
  <2>9. q \in Int /\ 0 <= q /\ q <= 1000
    <3> DEFINE n == Weighted(a, b)
    <3> DEFINE d == 3 * s
    <3>1. d \in Nat \ {0} /\ n \in Int /\ 0 <= n /\ n <= 1000 * d
      BY <2>8
    <3> HIDE DEF n, d
    <3>2. Round(n, d) \in Int /\ 0 <= Round(n, d) /\ Round(n, d) <= 1000
      BY <3>1, RoundWithin
    <3> QED
      BY <3>2 DEF n, d
  <2>10. Score(a, b).conf = Round(Weighted(a, b), 3 * s)
    BY <1>2 DEF Score, s
  <2> QED
    BY <2>9, <2>10
<1> QED
  BY <1>1, <1>2

(* A non-empty set of natural numbers has a least one. *)
LEMMA LeastNumber ==
    ASSUME NEW S, S \subseteq Nat, S # {}
    PROVE  \E n \in S : \A k \in S : n <= k
<1> DEFINE below(n) == S \cap (0..n)
           segments == {below(n) : n \in S}
<1>1. segments \subseteq FiniteSubsetsOf(Nat) /\ segments # {}
  <2>1. \A n \in S : below(n) \subseteq 0..n /\ below(n) \subseteq Nat
    OBVIOUS
  <2>2. ASSUME NEW n \in S PROVE IsFiniteSet(below(n))
    <3>1. n \in Int /\ IsFiniteSet(0..n)
      BY FS_Interval
    <3> QED
      BY <2>1, <3>1, FS_Subset
  <2> QED
    BY <2>1, <2>2 DEF FiniteSubsetsOf
<1>2. PICK x \in segments : \A y \in segments : ~(<<y, x>> \in StrictSubsetOrdering(Nat))
  <2> HIDE DEF segments
  <2> QED
    BY <1>1, FS_StrictSubsetOrderingWellFounded, WFMin
<1>3. PICK n \in S : x = below(n)
  OBVIOUS
<1>4. ASSUME NEW k \in S, k < n PROVE FALSE
  <2>1. below(k) \subseteq below(n) /\ n \in below(n) /\ n \notin below(k)
    BY <1>4
  <2>2. <<below(k), below(n)>> \in StrictSubsetOrdering(Nat)
    BY <2>1 DEF StrictSubsetOrdering
  <2> QED
    BY <1>2, <1>3, <2>2
<1> QED
  BY <1>4

(* Among the candidates there is a best one, at least as close as any. *)
LEMMA BestExists ==
    ASSUME IngestTypeOK, NEW i \in Input, NEW b \in Candidates(i)
    PROVE  \E c \in Best(i) : Score(TripOf[i], rows[b].trip).conf
                                 <= Score(TripOf[i], rows[c].trip).conf
<1> DEFINE conf(a) == Score(TripOf[i], rows[a].trip).conf
<1> DEFINE distances == {1000 - conf(a) : a \in Candidates(i)}
<1>1. \A a \in Candidates(i) : a \in Id /\ TripOf[i] \in Trip /\ rows[a].trip \in Trip
  BY InputAssumption DEF Candidates, Live, IngestTypeOK, Row
<1>2. \A a \in Candidates(i) : conf(a) \in Int /\ 0 <= conf(a) /\ conf(a) <= 1000
  BY <1>1, ConfRange
<1>3. distances \subseteq Nat /\ distances # {}
  <2> HIDE DEF conf
  <2> QED
    BY <1>2
<1>4. PICK d \in distances : \A e \in distances : d <= e
  <2> HIDE DEF distances
  <2> QED
    BY <1>3, LeastNumber
<1>5. PICK c \in Candidates(i) : d = 1000 - conf(c)
  OBVIOUS
<1>6. \A a \in Candidates(i) : conf(a) <= conf(c)
  <2> TAKE a \in Candidates(i)
  <2>1. 1000 - conf(c) <= 1000 - conf(a)
    BY <1>4, <1>5
  <2>2. conf(a) \in Int /\ conf(c) \in Int
    BY <1>2
  <2> HIDE DEF conf
  <2> QED
    BY <2>1, <2>2
<1>7. c \in Best(i)
  BY <1>6 DEF Best
<1> QED
  BY <1>6, <1>7

-----------------------------------------------------------------------------
(* Rides are kept, one request at a time *)

\* A row that nothing was merged into holds the input it was created for; one
\* that was merged into has a receipt.
PlainRow(row) ==
    /\ row.source # "gps+receipt" => row.from = {row.key} /\ row.source = Kind[row.key]
    /\ row.source = "gps+receipt" =>
           /\ Kind[row.key] \in {"gps", "gmail", "posted"}
           /\ \E m \in row.from : Kind[m] \in {"gmail", "posted"}
           /\ \A m \in row.from : m = row.key \/ Kind[m] \in {"gps", "gmail"}

RowsPlain == \A a \in Id : rows[a] # None => PlainRow(rows[a])

UniqueKeys ==
    \A a, b \in Id :
        rows[a] # None /\ rows[b] # None /\ rows[a].key = rows[b].key => a = b

\* What a request read is still true when it writes.
Current(j) ==
    /\ j.pc = "match" => Kind[j.in] \in {"gps", "gmail"}
    /\ j.pc = "enrich" =>
           /\ Kind[j.in] \in {"gps", "gmail"}
           /\ rows[j.act] # None
           /\ rows[j.act].source \in IF Kind[j.in] = "gps" THEN ReceiptSource ELSE {"gps"}
    /\ j.pc = "refetch" => rows[j.act] # None /\ j.in \in rows[j.act].from
    /\ j.pc = "save" =>
           /\ rows[j.act] # None
           /\ \E s \in NewStart \cup {rows[j.act].trip.start} :
                 j.row = [rows[j.act] EXCEPT !.trip.start = s]

RequestsCurrent == \A r \in Request : Current(req[r])

KeptInv ==
    /\ RowsPlain
    /\ UniqueKeys
    /\ RequestsCurrent
    /\ RidesAreKept


(* The step of the only request. *)
LEMMA SoleRequest ==
    ASSUME Serial, IngestTypeOK, NEW r \in Request, NEW j, Goto(r, j)
    PROVE  \A s \in Request : req'[s] = j
BY DEF Serial, IngestTypeOK, Goto

(* A row given to its readers unchanged keeps what they know. *)
LEMMA KeptReading ==
    ASSUME Serial, IngestTypeOK, KeptInv,
           NEW r \in Request, NEW j, Goto(r, j), Current(j),
           rows' = rows, accepted' = accepted
    PROVE  KeptInv'
<1>1. \A s \in Request : req'[s] = j
  BY SoleRequest
<1>2. RowsPlain' /\ UniqueKeys' /\ RidesAreKept'
  BY DEF KeptInv, RowsPlain, UniqueKeys, RidesAreKept, Holds, Live
<1>3. Current(j)'
  BY DEF Current
<1>4. RequestsCurrent'
  BY <1>1, <1>3 DEF RequestsCurrent, Current
<1> QED
  BY <1>2, <1>4 DEF KeptInv

(* Writing a row: the other rows stay, the inputs it held stay, and its      *)
(* readers are done.                                                         *)
LEMMA KeptWriting ==
    ASSUME Serial, IngestTypeOK, KeptInv,
           NEW r \in Request, NEW j, Goto(r, j),
           NEW a \in Id, NEW row \in Row, rows' = [rows EXCEPT ![a] = row],
           ~Conflicts(a, row), PlainRow(row),
           j = Idle \/ (j.pc = "refetch" /\ j.act = a /\ j.in \in row.from),
           rows[a] # None => rows[a].from \subseteq row.from,
           \A i \in accepted' \ accepted : i \in row.from
    PROVE  KeptInv'
<1>1. \A s \in Request : req'[s] = j
  BY SoleRequest
<1>2. rows'[a] = row /\ \A b \in Id : b # a => rows'[b] = rows[b]
  BY DEF IngestTypeOK
<1>3. RowsPlain'
  BY <1>2 DEF KeptInv, RowsPlain, PlainRow
<1>4. UniqueKeys'
  BY <1>2 DEF KeptInv, UniqueKeys, Conflicts, Live
<1>5. RequestsCurrent'
  <2>1. row # None
    BY NoneIsNoRow
  <2> QED
    BY <1>1, <1>2, <2>1 DEF RequestsCurrent, Current, Idle
<1>6. RidesAreKept'
  <2> SUFFICES ASSUME NEW i \in accepted' PROVE \E b \in Id : rows'[b] # None /\ i \in rows'[b].from
    BY DEF RidesAreKept, Holds, Live
  <2>1. row # None
    BY NoneIsNoRow
  <2>2. CASE i \in accepted
    <3>1. PICK b \in Id : rows[b] # None /\ i \in rows[b].from
      BY <2>2 DEF KeptInv, RidesAreKept, Holds, Live
    <3> QED
      BY <1>2, <2>1, <3>1
  <2>3. CASE i \notin accepted
    BY <1>2, <2>1, <2>3
  <2> QED
    BY <2>2, <2>3
<1> QED
  BY <1>3, <1>4, <1>5, <1>6 DEF KeptInv

(* A merge keeps the inputs of the row: only a row without a receipt takes   *)
(* one.                                                                      *)
LEMMA MergedKeeps ==
    ASSUME NEW row \in Row, NEW i \in Input, NEW p \in Patch,
           RowOK(row), PlainRow(row),
           Kind[i] \in {"gps", "gmail"},
           row.source \in IF Kind[i] = "gps" THEN ReceiptSource ELSE {"gps"}
    PROVE  /\ Merged(row, i, p).from = row.from \cup {i}
           /\ PlainRow(Merged(row, i, p))
<1> DEFINE m == Merged(row, i, p)
<1>0. /\ m.source = "gps+receipt" /\ m.key = row.key
      /\ m.from = (IF Kind[i] = "gmail" THEN {j \in row.from : Kind[j] # "gmail"}
                                        ELSE row.from) \cup {i}
  BY DEF Merged, Row
<1>1. row.key \in Input /\ row.source \in Source /\ row.key \in row.from
  BY DEF Row, RowOK
<1>2. CASE Kind[i] = "gmail"
  <2>1. row.source = "gps" /\ row.from = {row.key} /\ Kind[row.key] = "gps"
    BY <1>2 DEF PlainRow
  <2> QED
    BY <1>0, <1>1, <1>2, <2>1 DEF PlainRow
<1>3. CASE Kind[i] = "gps"
  <2>1. m.from = row.from \cup {i}
    BY <1>0, <1>3
  <2>2. /\ Kind[row.key] \in {"gps", "gmail", "posted"}
        /\ \E k \in row.from : Kind[k] \in {"gmail", "posted"}
        /\ \A k \in row.from : k = row.key \/ Kind[k] \in {"gps", "gmail"}
    BY <1>1, <1>3 DEF PlainRow, ReceiptSource
  <2> QED
    BY <1>0, <2>1, <2>2 DEF PlainRow
<1> QED
  BY <1>2, <1>3

(* Every step keeps the rides. *)
LEMMA KeptStep ==
    ASSUME Serial, StoredInv, KeptInv, [Next]_vars
    PROVE  KeptInv'
<1>0. IngestTypeOK /\ RowsOK
  BY DEF StoredInv
<1> USE <1>0
<1>i. Current(Idle)
  BY DEF Current, Idle
<1>ip. Current(Idle)'
  BY DEF Current, Idle
<1>1. ASSUME NEW r \in Request, NEW i \in Input, Receive(r, i)
      PROVE  KeptInv'
  <2> DEFINE j == [pc |-> IF Kind[i] = "gmail" THEN "receipt" ELSE "key", in |-> i]
  <2>1. Current(j)
    BY DEF Current
  <2>2. Goto(r, j) /\ rows' = rows /\ accepted' = accepted
    BY <1>1 DEF Receive
  <2> HIDE DEF j
  <2> QED
    BY <2>1, <2>2, KeptReading
<1>2. ASSUME NEW r \in Request, CheckReceipt(r)
      PROVE  KeptInv'
  <2> DEFINE j == [pc |-> "key", in |-> req[r].in]
  <2>1. Current(j)
    BY DEF Current
  <2>2. (Goto(r, j) \/ Goto(r, Idle)) /\ rows' = rows /\ accepted' = accepted
    BY <1>2 DEF CheckReceipt
  <2> HIDE DEF j
  <2> QED
    BY <1>i, <2>1, <2>2, KeptReading
<1>3. ASSUME NEW r \in Request, CheckKey(r)
      PROVE  KeptInv'
  <2> DEFINE match == [pc |-> "match", in |-> req[r].in]
  <2> DEFINE create == [pc |-> "create", in |-> req[r].in, review |-> FALSE]
  <2>1. Kind[req[r].in] \in {"gps", "gmail"} => Current(match)
    BY DEF Current
  <2>2. Current(create)
    BY DEF Current
  <2>3. /\ Goto(r, Idle) \/ Goto(r, create) \/ (Kind[req[r].in] \in {"gps", "gmail"} /\ Goto(r, match))
        /\ rows' = rows /\ accepted' = accepted
    BY <1>3 DEF CheckKey
  <2> HIDE DEF match, create
  <2> QED
    BY <1>i, <2>1, <2>2, <2>3, KeptReading
<1>4. ASSUME NEW r \in Request, Match(r)
      PROVE  KeptInv'
  <2> DEFINE i == req[r].in
  <2>0. Kind[i] \in {"gps", "gmail"}
    BY <1>4 DEF Match, KeptInv, RequestsCurrent, Current
  <2>1. \E j : Goto(r, j) /\ Current(j)
    <3>1. CASE Best(i) = {}
      <4> DEFINE create == [pc |-> "create", in |-> i, review |-> FALSE]
      <4>1. Goto(r, create) /\ Current(create)
        BY <1>4, <3>1 DEF Match, Current
      <4> QED
        BY <4>1
    <3>2. CASE Best(i) # {}
      <4>1. PICK a \in Best(i) :
               Goto(r, IF SameTrip(TripOf[i], rows[a].trip)
                       THEN [pc |-> "enrich", in |-> i, act |-> a, patch |-> PatchFor(i, a)]
                       ELSE [pc |-> "create", in |-> i,
                             review |-> Score(TripOf[i], rows[a].trip).conf >= ThresholdReview])
        BY <1>4, <3>2 DEF Match
      <4> DEFINE merge == [pc |-> "enrich", in |-> i, act |-> a, patch |-> PatchFor(i, a)]
      <4> DEFINE create == [pc |-> "create", in |-> i,
                            review |-> Score(TripOf[i], rows[a].trip).conf >= ThresholdReview]
      <4>2. /\ rows[a] # None
            /\ rows[a].source \in IF Kind[i] = "gps" THEN ReceiptSource ELSE {"gps"}
        BY DEF Best, Candidates, Live
      <4>3. Current(merge)
        <5> HIDE DEF i
        <5> QED
          BY <2>0, <4>2 DEF Current
      <4>4. Current(create)
        BY DEF Current
      <4>5. Goto(r, merge) \/ Goto(r, create)
        <5> HIDE DEF i
        <5>1. CASE SameTrip(TripOf[i], rows[a].trip)
          BY <4>1, <5>1
        <5>2. CASE ~SameTrip(TripOf[i], rows[a].trip)
          BY <4>1, <5>2
        <5> QED
          BY <5>1, <5>2
      <4> HIDE DEF merge, create
      <4> QED
        BY <4>3, <4>4, <4>5
    <3> QED
      BY <3>1, <3>2
  <2>2. rows' = rows /\ accepted' = accepted
    BY <1>4 DEF Match
  <2> QED
    BY <2>1, <2>2, KeptReading
<1>5. ASSUME NEW r \in Request, Enrich(r)
      PROVE  KeptInv'
  <2> DEFINE j == req[r]
  <2> DEFINE row == Merged(rows[j.act], j.in, j.patch)
  <2> DEFINE done == [pc |-> "refetch", in |-> j.in, act |-> j.act]
  <2>1. j.act \in Id /\ j.in \in Input /\ j.patch \in Patch
    BY <1>5, JobFields DEF Enrich, IngestTypeOK
  <2>2. /\ rows[j.act] # None
        /\ Kind[j.in] \in {"gps", "gmail"}
        /\ rows[j.act].source \in IF Kind[j.in] = "gps" THEN ReceiptSource ELSE {"gps"}
    BY <1>5 DEF Enrich, KeptInv, RequestsCurrent, Current
  <2>3. rows[j.act] \in Row /\ RowOK(rows[j.act]) /\ PlainRow(rows[j.act])
    BY <2>1, <2>2 DEF IngestTypeOK, RowsOK, KeptInv, RowsPlain
  <2>4. row \in Row /\ row.from = rows[j.act].from \cup {j.in} /\ PlainRow(row)
    BY <2>1, <2>2, <2>3, MergedType, MergedKeeps
  <2>5. accepted' = accepted
    BY <1>5 DEF Enrich
  <2>6. CASE Goto(r, Idle) /\ rows' = rows
    BY <1>i, <2>5, <2>6, KeptReading
  <2>7. CASE ~Conflicts(j.act, row) /\ Goto(r, done) /\ rows' = [rows EXCEPT ![j.act] = row]
    <3>2. j.in \in row.from
      BY <2>4
    <3>3. done.pc = "refetch" /\ done.act = j.act /\ done.in = j.in
      OBVIOUS
    <3> HIDE DEF row, done
    <3> QED
      BY <2>1, <2>4, <2>5, <2>7, <3>2, <3>3, KeptWriting
  <2>8. \/ Goto(r, Idle) /\ rows' = rows
        \/ ~Conflicts(j.act, row) /\ Goto(r, done) /\ rows' = [rows EXCEPT ![j.act] = row]
    BY <1>5, <2>1, <2>2 DEF Enrich, Live
  <2> QED
    BY <2>6, <2>7, <2>8
<1>6. ASSUME NEW r \in Request, Refetch(r)
      PROVE  KeptInv'
  <2>1. /\ req[r].act \in Id /\ rows[req[r].act] # None
        /\ req[r].in \in rows[req[r].act].from
    BY <1>6, JobFields DEF Refetch, IngestTypeOK, KeptInv, RequestsCurrent, Current
  <2>2. rows' = rows /\ accepted' = accepted \cup {req[r].in} /\ Goto(r, Idle)
    BY <1>6, <2>1 DEF Refetch, Live
  <2>3. RidesAreKept'
    BY <2>1, <2>2 DEF KeptInv, RidesAreKept, Holds, Live
  <2>4. \A s \in Request : req'[s] = Idle
    BY <2>2, SoleRequest
  <2> QED
    BY <1>ip, <2>2, <2>3, <2>4 DEF KeptInv, RowsPlain, UniqueKeys, RequestsCurrent, Current, Idle
<1>7. ASSUME NEW r \in Request, NEW a \in Id, Create(r, a)
      PROVE  KeptInv'
  <2> DEFINE row == NewRow(req[r].in, req[r].review)
  <2>1. req[r].in \in Input /\ req[r].review \in BOOLEAN
    BY <1>7, JobFields DEF Create, IngestTypeOK
  <2>2. Goto(r, Idle)
    BY <1>7 DEF Create
  <2>3. CASE rows' = rows /\ accepted' = accepted
    BY <1>i, <2>2, <2>3, KeptReading
  <2>4. CASE /\ ~Conflicts(a, row)
             /\ rows' = [rows EXCEPT ![a] = row]
             /\ accepted' = accepted \cup {req[r].in}
    <3>1. row \in Row
      BY <2>1, NewRowType
    <3>2. PlainRow(row) /\ row.from = {req[r].in}
      BY <2>1, InputAssumption DEF NewRow, PlainRow, Kinds
    <3>3. rows[a] = None
      <4>1. rows[a] # None => rows[a] \in Row /\ rows[a].key = born[a]
        BY DEF IngestTypeOK, StoredInv, KeysOfBirth
      <4>2. rows[a] # None => rows[a].key \in Input
        BY <4>1 DEF Row
      <4> QED
        BY <1>7, <4>1, <4>2, InputAssumption DEF Create
    <3> HIDE DEF row
    <3> QED
      BY <2>2, <2>4, <3>1, <3>2, <3>3, KeptWriting
  <2> QED
    BY <1>7, <2>3, <2>4 DEF Create
<1>8. ASSUME NEW r \in Request, NEW a \in Id, FindForUpdate(r, a)
      PROVE  KeptInv'
  <2>1. PICK s \in NewStart \cup {rows[a].trip.start} :
           Goto(r, [pc |-> "save", act |-> a, row |-> [rows[a] EXCEPT !.trip.start = s]])
    BY <1>8 DEF FindForUpdate
  <2> DEFINE copy == [rows[a] EXCEPT !.trip.start = s]
  <2> DEFINE j == [pc |-> "save", act |-> a, row |-> copy]
  <2>2. j.pc = "save" /\ j.act = a /\ j.row = [rows[a] EXCEPT !.trip.start = s]
    OBVIOUS
  <2>3. Goto(r, j) /\ rows' = rows /\ accepted' = accepted /\ rows[a] # None
    BY <1>8, <2>1 DEF FindForUpdate, Live
  <2>4. Current(j)
    <3> HIDE DEF j
    <3> QED
      BY <2>2, <2>3 DEF Current
  <2> HIDE DEF j
  <2> QED
    BY <2>3, <2>4, KeptReading
<1>9. ASSUME NEW r \in Request, Save(r)
      PROVE  KeptInv'
  <2> DEFINE j == req[r]
  <2>1. j.act \in Id /\ j.row \in Row
    BY <1>9, JobFields DEF Save, IngestTypeOK
  <2>2. Goto(r, Idle) /\ accepted' = accepted
    BY <1>9 DEF Save
  <2>3. CASE rows' = rows
    BY <1>i, <2>2, <2>3, KeptReading
  <2>4. CASE ~Conflicts(j.act, j.row) /\ rows' = [rows EXCEPT ![j.act] = j.row]
    <3>1. rows[j.act] # None /\ \E s : j.row = [rows[j.act] EXCEPT !.trip.start = s]
      BY <1>9 DEF Save, KeptInv, RequestsCurrent, Current
    <3>2. rows[j.act] \in Row /\ PlainRow(rows[j.act])
      BY <2>1, <3>1 DEF IngestTypeOK, KeptInv, RowsPlain
    <3>3. /\ j.row.from = rows[j.act].from /\ j.row.key = rows[j.act].key
          /\ j.row.source = rows[j.act].source
      BY <3>1, <3>2 DEF Row
    <3>4. PlainRow(j.row)
      BY <3>2, <3>3 DEF PlainRow
    <3> QED
      BY <2>1, <2>2, <2>4, <3>3, <3>4, KeptWriting
  <2> QED
    BY <1>9, <2>3, <2>4 DEF Save
<1>10. ASSUME NEW r \in Request, NEW a \in Id, DeleteActivity(r, a)
       PROVE  KeptInv'
  <2>1. /\ req[r] = Idle /\ req' = req
        /\ accepted' = accepted \ rows[a].from
        /\ \A b \in Id : rows'[b] = IF b = a THEN None ELSE rows[b]
    BY <1>10 DEF DeleteActivity, IngestTypeOK
  <2>2. \A s \in Request : req'[s] = Idle
    BY <2>1 DEF Serial
  <2>3. RequestsCurrent'
    BY <2>2 DEF RequestsCurrent, Current, Idle
  <2>4. RowsPlain' /\ UniqueKeys'
    BY <2>1 DEF KeptInv, RowsPlain, UniqueKeys
  <2>5. RidesAreKept'
    <3> SUFFICES ASSUME NEW i \in accepted' PROVE \E b \in Id : rows'[b] # None /\ i \in rows'[b].from
      BY DEF RidesAreKept, Holds, Live
    <3>1. PICK b \in Id : rows[b] # None /\ i \in rows[b].from
      BY <2>1 DEF KeptInv, RidesAreKept, Holds, Live
    <3>2. b # a
      BY <2>1, <3>1
    <3> QED
      BY <2>1, <3>1, <3>2
  <2> QED
    BY <2>3, <2>4, <2>5 DEF KeptInv
<1>11. ASSUME NEW r \in Request, Abort(r)
       PROVE  KeptInv'
  <2>1. Goto(r, Idle) /\ rows' = rows /\ accepted' = accepted
    BY <1>11 DEF Abort
  <2> QED
    BY <1>i, <2>1, KeptReading
<1>12. CASE UNCHANGED vars
  BY <1>12 DEF vars, KeptInv, RowsPlain, UniqueKeys, RequestsCurrent, Current,
               RidesAreKept, Holds, Live
<1> QED
  BY <1>1, <1>2, <1>3, <1>4, <1>5, <1>6, <1>7, <1>8, <1>9, <1>10, <1>11, <1>12 DEF Next

(* What holds of the stored rows when requests do not overlap. *)
THEOREM KeptAlways ==
    ASSUME Serial
    PROVE  Spec => [](StoredInv /\ KeptInv)
<1>1. Init => KeptInv
  BY DEF Init, KeptInv, RowsPlain, UniqueKeys, RequestsCurrent, Current, Idle, RidesAreKept
<1>2. StoredInv /\ KeptInv /\ [Next]_vars => KeptInv'
  BY KeptStep
<1> QED
  BY <1>1, <1>2, StoredAlways, PTL DEF Spec

(* While one request is handled at a time, a ride that was answered as       *)
(* stored stays in some row until the user deletes it: no merge, no update,  *)
(* no failed statement and no crash loses it.                                *)
THEOREM RidesKept ==
    ASSUME Serial
    PROVE  Spec => []RidesAreKept
<1>1. KeptInv => RidesAreKept
  BY DEF KeptInv
<1> QED
  BY <1>1, KeptAlways, PTL

-----------------------------------------------------------------------------
(* One row per journey, one request at a time and without updates *)

RowsLocated ==
    \A a \in Id : rows[a] # None /\ rows[a].source # "manual" =>
        Finished(rows[a].trip) /\ rows[a].trip.to # None

\* No row of the other kind matches what is about to be created.
Alone(i) ==
    \A a \in Id : rows[a] # None =>
        /\ Kind[i] = "gps" /\ rows[a].source = "gmail" => ~SameTrip(TripOf[i], rows[a].trip)
        /\ Kind[i] = "gmail" /\ rows[a].source = "gps" => ~SameTrip(TripOf[i], rows[a].trip)

\* What the only request is about to write is right.
Sound(j) ==
    /\ j.pc = "create" => Alone(j.in)
    /\ j.pc = "enrich" /\ j.patch.dur # None => j.patch.dur <= OpenSession

JourneyInv ==
    /\ RowsLocated
    /\ \A r \in Request : Sound(req[r])
    /\ OneRowPerJourney

(* An update that changes nothing saves the row it read. *)
LEMMA SaveChangesNothing ==
    ASSUME Serial, NewStart = {}, IngestTypeOK, KeptInv, NEW r \in Request, Save(r)
    PROVE  rows' = rows
<1> DEFINE j == req[r]
<1>1. j.act \in Id /\ j.row \in Row
  BY JobFields DEF Save, IngestTypeOK
<1>2. rows[j.act] # None /\ j.row = [rows[j.act] EXCEPT !.trip.start = rows[j.act].trip.start]
  BY DEF Save, KeptInv, RequestsCurrent, Current
<1>3. rows[j.act] \in Row
  BY <1>1, <1>2 DEF IngestTypeOK
<1>4. j.row = rows[j.act]
  BY <1>2, <1>3 DEF Row, Trip
<1> QED
  BY <1>1, <1>4 DEF Save, IngestTypeOK

(* A match is at least as certain as the lower threshold, and for trips with *)
(* destinations and ends that is all it takes.                               *)
LEMMA MatchesAreCertain ==
    ASSUME NEW a \in Trip, NEW b \in Trip
    PROVE  /\ SameTrip(a, b) => Score(a, b).conf >= 650
           /\ /\ a.to # None /\ b.to # None
              /\ HasKnownEnd(a) /\ HasKnownEnd(b)
              /\ Score(a, b).conf >= 650
              => SameTrip(a, b)
<1>1. Score(a, b).conf \in Int
  BY ConfRange
<1>2. SameTrip(a, b) => Score(a, b).conf >= 650
  BY <1>1 DEF SameTrip, AutoMergeThreshold
<1>3. ASSUME a.to # None, b.to # None, HasKnownEnd(a), HasKnownEnd(b), Score(a, b).conf >= 650
      PROVE  SameTrip(a, b)
  <2>1. ~(~ModesCompatible(a.mode, b.mode) \/ Overlap(a, b) <= 0)
    BY <1>3 DEF Score, Different
  <2>2. Score(a, b).coords /\ Score(a, b).endTime
    BY <1>3, <2>1 DEF Score
  <2> QED
    BY <1>3, <2>2 DEF SameTrip, AutoMergeThreshold
<1> QED
  BY <1>2, <1>3

(* Finished trips that match are looked at. *)
LEMMA MatchesAreFound ==
    ASSUME NEW a \in Trip, NEW b \in Trip, Finished(a), Finished(b), SameTrip(a, b)
    PROVE  InWindow(a, b)
<1>1. Score(a, b).conf > 0
  BY MatchesAreCertain, ConfRange
<1>2. WindowFinds(a, b)
  BY WindowComplete DEF Finished
<1> QED
  BY <1>1, <1>2 DEF WindowFinds, Finished

(* Matching does not depend on who arrived first. *)
LEMMA SameTripSymmetric ==
    ASSUME NEW a \in Trip, NEW b \in Trip
    PROVE  SameTrip(a, b) <=> SameTrip(b, a)
BY ScoreSymmetric DEF Symmetric, SameTrip

(* Reading keeps the journeys apart. *)
LEMMA JourneyReading ==
    ASSUME Serial, IngestTypeOK, JourneyInv,
           NEW r \in Request, NEW j, Goto(r, j), Sound(j), rows' = rows
    PROVE  JourneyInv'
<1>1. \A s \in Request : req'[s] = j
  BY SoleRequest
<1>2. RowsLocated' /\ OneRowPerJourney'
  BY DEF JourneyInv, RowsLocated, OneRowPerJourney, Live
<1>3. Sound(j)'
  BY DEF Sound, Alone
<1>4. \A s \in Request : Sound(req[s])'
  BY <1>1, <1>3 DEF Sound, Alone
<1> QED
  BY <1>2, <1>4 DEF JourneyInv

(* A row that is written is of no journey that another row has. *)
LEMMA JourneyWriting ==
    ASSUME Serial, IngestTypeOK, JourneyInv,
           NEW r \in Request, NEW j, Goto(r, j), j.pc \notin {"create", "enrich"},
           NEW a \in Id, NEW row \in Row, rows' = [rows EXCEPT ![a] = row],
           row.source # "gps+receipt" => row.trip = TripOf[row.key] /\ Alone(row.key)
                                         /\ row.source = Kind[row.key],
           row.source # "manual" => Finished(row.trip) /\ row.trip.to # None
    PROVE  JourneyInv'
<1>1. \A s \in Request : req'[s] = j
  BY SoleRequest
<1>2. rows'[a] = row /\ \A b \in Id : b # a => rows'[b] = rows[b]
  BY DEF IngestTypeOK
<1>3. RowsLocated'
  BY <1>2 DEF JourneyInv, RowsLocated
<1>4. \A s \in Request : Sound(req[s])'
  BY <1>1 DEF Sound
<1>5. OneRowPerJourney'
  <2> SUFFICES ASSUME NEW g \in Id, NEW m \in Id, rows'[g] # None, rows'[m] # None,
                      rows'[g].source = "gps", rows'[m].source = "gmail"
               PROVE  ~SameTrip(rows'[g].trip, rows'[m].trip)
    BY DEF OneRowPerJourney, Live
  <2>1. CASE g # a /\ m # a
    BY <1>2, <2>1 DEF JourneyInv, OneRowPerJourney, Live
  <2>2. CASE g = a
    <3>1. m # a /\ Kind[row.key] = "gps" /\ row.trip = TripOf[row.key]
      BY <1>2, <2>2
    <3> QED
      BY <1>2, <2>2, <3>1 DEF Alone
  <2>3. CASE m = a
    <3>1. g # a /\ Kind[row.key] = "gmail" /\ row.trip = TripOf[row.key]
      BY <1>2, <2>3
    <3>2. ~SameTrip(row.trip, rows[g].trip)
      BY <1>2, <2>3, <3>1 DEF Alone
    <3>3. row.trip \in Trip /\ rows[g].trip \in Trip
      BY <1>2, <3>1 DEF IngestTypeOK, Row
    <3> QED
      BY <1>2, <2>3, <3>1, <3>2, <3>3, SameTripSymmetric
  <2> QED
    BY <2>1, <2>2, <2>3
<1> QED
  BY <1>3, <1>4, <1>5 DEF JourneyInv

(* If the best candidate is not close enough, no row of the other kind is.   *)
LEMMA NoneIsCloser ==
    ASSUME StoredInv, RowsPlain, RowsLocated, Located, NEW i \in Input,
           Kind[i] \in {"gps", "gmail"},
           NEW b \in Id, rows[b] # None,
           rows[b].source = IF Kind[i] = "gps" THEN "gmail" ELSE "gps",
           SameTrip(TripOf[i], rows[b].trip)
    PROVE  /\ Best(i) # {}
           /\ \A a \in Best(i) : SameTrip(TripOf[i], rows[a].trip)
<1>0. IngestTypeOK
  BY DEF StoredInv
<1>1. /\ TripOf[i] \in Trip /\ Finished(TripOf[i]) /\ TripOf[i].to # None
      /\ rows[b].trip \in Trip /\ Finished(rows[b].trip)
  BY <1>0, InputAssumption DEF IngestTypeOK, Row, Located, Matchable, RowsLocated
<1>2. b \in Candidates(i)
  BY <1>1, MatchesAreFound DEF Candidates, Live, ReceiptSource
<1>3. Best(i) # {}
  BY <1>0, <1>2, BestExists
<1>4. ASSUME NEW a \in Best(i)
      PROVE  SameTrip(TripOf[i], rows[a].trip)
  <2>1. /\ a \in Id /\ rows[a] # None
        /\ rows[a].source \in IF Kind[i] = "gps" THEN ReceiptSource ELSE {"gps"}
        /\ Score(TripOf[i], rows[b].trip).conf <= Score(TripOf[i], rows[a].trip).conf
    BY <1>2 DEF Best, Candidates, Live
  <2>2. rows[a].trip \in Trip /\ Finished(rows[a].trip) /\ rows[a].trip.to # None
    BY <1>0, <2>1 DEF IngestTypeOK, Row, RowsLocated, ReceiptSource
  <2>3. /\ Score(TripOf[i], rows[b].trip).conf >= 650
        /\ Score(TripOf[i], rows[b].trip).conf \in Int
        /\ Score(TripOf[i], rows[a].trip).conf \in Int
    BY <1>1, <2>2, MatchesAreCertain, ConfRange
  <2>4. Score(TripOf[i], rows[a].trip).conf >= 650
    BY <2>1, <2>3
  <2> QED
    BY <1>1, <2>2, <2>4, MatchesAreCertain DEF Finished
<1> QED
  BY <1>3, <1>4

(* Every step keeps the journeys apart. *)
LEMMA JourneyStep ==
    ASSUME Serial, NewStart = {}, Located, StoredInv, KeptInv, JourneyInv, [Next]_vars
    PROVE  JourneyInv'
<1>0. IngestTypeOK /\ RowsOK /\ RowsPlain /\ RowsLocated
  BY DEF StoredInv, KeptInv, JourneyInv
<1> USE <1>0
<1>i. Sound(Idle)
  BY DEF Sound, Idle
<1>1. ASSUME NEW r \in Request, NEW i \in Input, Receive(r, i)
      PROVE  JourneyInv'
  <2> DEFINE j == [pc |-> IF Kind[i] = "gmail" THEN "receipt" ELSE "key", in |-> i]
  <2>1. Sound(j)
    BY DEF Sound
  <2>2. Goto(r, j) /\ rows' = rows
    BY <1>1 DEF Receive
  <2> HIDE DEF j
  <2> QED
    BY <2>1, <2>2, JourneyReading
<1>2. ASSUME NEW r \in Request, CheckReceipt(r)
      PROVE  JourneyInv'
  <2> DEFINE j == [pc |-> "key", in |-> req[r].in]
  <2>1. Sound(j)
    BY DEF Sound
  <2>2. (Goto(r, j) \/ Goto(r, Idle)) /\ rows' = rows
    BY <1>2 DEF CheckReceipt
  <2> HIDE DEF j
  <2> QED
    BY <1>i, <2>1, <2>2, JourneyReading
<1>3. ASSUME NEW r \in Request, CheckKey(r)
      PROVE  JourneyInv'
  <2> DEFINE match == [pc |-> "match", in |-> req[r].in]
  <2> DEFINE create == [pc |-> "create", in |-> req[r].in, review |-> FALSE]
  <2>1. Sound(match)
    BY DEF Sound
  <2>2. Kind[req[r].in] \notin {"gps", "gmail"} => Sound(create)
    BY DEF Sound, Alone
  <2>3. /\ \/ Goto(r, Idle)
           \/ Goto(r, match)
           \/ Kind[req[r].in] \notin {"gps", "gmail"} /\ Goto(r, create)
        /\ rows' = rows
    BY <1>3 DEF CheckKey
  <2> HIDE DEF match, create
  <2> QED
    BY <1>i, <2>1, <2>2, <2>3, JourneyReading
<1>4. ASSUME NEW r \in Request, Match(r)
      PROVE  JourneyInv'
  <2> DEFINE i == req[r].in
  <2>0. i \in Input /\ Kind[i] \in {"gps", "gmail"}
    BY <1>4, JobFields DEF Match, IngestTypeOK, KeptInv, RequestsCurrent, Current
  <2>1. Best(i) = {} \/ (\E a \in Best(i) : ~SameTrip(TripOf[i], rows[a].trip)) => Alone(i)
    <3> HIDE DEF i
    <3> SUFFICES ASSUME Best(i) = {} \/ (\E a \in Best(i) : ~SameTrip(TripOf[i], rows[a].trip)),
                        NEW b \in Id, rows[b] # None,
                        rows[b].source = IF Kind[i] = "gps" THEN "gmail" ELSE "gps",
                        SameTrip(TripOf[i], rows[b].trip)
                 PROVE  FALSE
      BY <2>0 DEF Alone
    <3> QED
      BY <2>0, NoneIsCloser
  <2>2. \E j : Goto(r, j) /\ Sound(j)
    <3>1. CASE Best(i) = {}
      <4> DEFINE create == [pc |-> "create", in |-> i, review |-> FALSE]
      <4>1. Goto(r, create)
        BY <1>4, <3>1 DEF Match
      <4>2. create.pc = "create" /\ create.in = i
        OBVIOUS
      <4>3. Sound(create)
        <5> HIDE DEF create, i
        <5> QED
          BY <2>1, <3>1, <4>2 DEF Sound
      <4> QED
        BY <4>1, <4>3
    <3>2. CASE Best(i) # {}
      <4>1. PICK a \in Best(i) :
               Goto(r, IF SameTrip(TripOf[i], rows[a].trip)
                       THEN [pc |-> "enrich", in |-> i, act |-> a, patch |-> PatchFor(i, a)]
                       ELSE [pc |-> "create", in |-> i,
                             review |-> Score(TripOf[i], rows[a].trip).conf >= ThresholdReview])
        BY <1>4, <3>2 DEF Match
      <4> DEFINE merge == [pc |-> "enrich", in |-> i, act |-> a, patch |-> PatchFor(i, a)]
      <4> DEFINE create == [pc |-> "create", in |-> i,
                            review |-> Score(TripOf[i], rows[a].trip).conf >= ThresholdReview]
      <4>2. /\ merge.pc = "enrich" /\ merge.in = i /\ merge.patch = PatchFor(i, a)
            /\ create.pc = "create" /\ create.in = i
        OBVIOUS
      <4>3. PatchFor(i, a).dur # None => PatchFor(i, a).dur <= OpenSession
        <5>1. Finished(TripOf[i])
          BY <2>0 DEF Located, Matchable
        <5>2. PatchFor(i, a).dur \in {None, TripOf[i].dur}
          BY DEF PatchFor, GPSPatch, ReceiptPatch
        <5> QED
          BY <5>1, <5>2 DEF Finished
      <4>4. Sound(merge)
        <5> HIDE DEF merge, i
        <5> QED
          BY <4>2, <4>3 DEF Sound
      <4>5. ~SameTrip(TripOf[i], rows[a].trip) => Sound(create)
        <5> HIDE DEF create, i
        <5> QED
          BY <2>1, <4>2 DEF Sound
      <4>6. \/ Goto(r, merge)
            \/ ~SameTrip(TripOf[i], rows[a].trip) /\ Goto(r, create)
        <5> HIDE DEF i
        <5>1. CASE SameTrip(TripOf[i], rows[a].trip)
          BY <4>1, <5>1
        <5>2. CASE ~SameTrip(TripOf[i], rows[a].trip)
          BY <4>1, <5>2
        <5> QED
          BY <5>1, <5>2
      <4> HIDE DEF merge, create
      <4> QED
        BY <4>4, <4>5, <4>6
    <3> QED
      BY <3>1, <3>2
  <2>3. rows' = rows
    BY <1>4 DEF Match
  <2> QED
    BY <2>2, <2>3, JourneyReading
<1>5. ASSUME NEW r \in Request, Enrich(r)
      PROVE  JourneyInv'
  <2> DEFINE j == req[r]
  <2> DEFINE row == Merged(rows[j.act], j.in, j.patch)
  <2> DEFINE done == [pc |-> "refetch", in |-> j.in, act |-> j.act]
  <2>1. j.act \in Id /\ j.in \in Input /\ j.patch \in Patch
    BY <1>5, JobFields DEF Enrich, IngestTypeOK
  <2>2. /\ rows[j.act] # None /\ rows[j.act] \in Row
        /\ rows[j.act].source # "manual"
    BY <1>5, <2>1 DEF Enrich, KeptInv, RequestsCurrent, Current, IngestTypeOK, ReceiptSource
  <2>3. /\ rows[j.act].trip \in Trip /\ Finished(rows[j.act].trip)
        /\ rows[j.act].trip.to # None
    BY <2>1, <2>2 DEF RowsLocated, Row
  <2>4. j.patch.dur # None => j.patch.dur <= OpenSession
    BY <1>5 DEF Enrich, JourneyInv, Sound
  <2>5. /\ row \in Row /\ row.source = "gps+receipt"
        /\ row.trip = Patched(rows[j.act].trip, j.patch)
    BY <2>1, <2>2, MergedType DEF Merged, Row
  <2>6. Finished(row.trip) /\ row.trip.to # None
    <3>1. ASSUME NEW t \in Trip, NEW p \in Patch, Finished(t), t.to # None,
                 p.dur # None => p.dur <= OpenSession
          PROVE  Finished(Patched(t, p)) /\ Patched(t, p).to # None
      BY <3>1 DEF Patched, Trip, Patch, Finished, HasKnownEnd
    <3> HIDE DEF row
    <3> QED
      BY <2>1, <2>3, <2>4, <2>5, <3>1
  <2>7. \/ Goto(r, Idle) /\ rows' = rows
        \/ Goto(r, done) /\ rows' = [rows EXCEPT ![j.act] = row]
    BY <1>5, <2>1, <2>2 DEF Enrich, Live
  <2>8. done.pc \notin {"create", "enrich"}
    OBVIOUS
  <2> HIDE DEF row, done
  <2> QED
    BY <1>i, <2>1, <2>5, <2>6, <2>7, <2>8, JourneyReading, JourneyWriting
<1>6. ASSUME NEW r \in Request, Refetch(r)
      PROVE  JourneyInv'
  BY <1>i, <1>6, JourneyReading DEF Refetch
<1>7. ASSUME NEW r \in Request, NEW a \in Id, Create(r, a)
      PROVE  JourneyInv'
  <2> DEFINE i == req[r].in
  <2> DEFINE row == NewRow(i, req[r].review)
  <2>1. i \in Input /\ req[r].review \in BOOLEAN
    BY <1>7, JobFields DEF Create, IngestTypeOK
  <2>2. Goto(r, Idle) /\ (rows' = rows \/ rows' = [rows EXCEPT ![a] = row])
    BY <1>7 DEF Create
  <2>3. Alone(i)
    BY <1>7 DEF Create, JourneyInv, Sound
  <2>4. /\ row \in Row /\ row.source = Kind[i] /\ row.key = i /\ row.trip = TripOf[i]
    BY <2>1, NewRowType DEF NewRow
  <2>5. Kind[i] # "manual" => Finished(TripOf[i]) /\ TripOf[i].to # None
    BY <2>1, InputAssumption DEF Located, Matchable, Kinds
  <2>6. Idle.pc \notin {"create", "enrich"}
    BY DEF Idle
  <2> HIDE DEF row, i
  <2> QED
    BY <1>i, <2>1, <2>2, <2>3, <2>4, <2>5, <2>6, JourneyReading, JourneyWriting
<1>8. ASSUME NEW r \in Request, NEW a \in Id, FindForUpdate(r, a)
      PROVE  JourneyInv'
  <2>1. PICK s \in NewStart \cup {rows[a].trip.start} :
           Goto(r, [pc |-> "save", act |-> a, row |-> [rows[a] EXCEPT !.trip.start = s]])
    BY <1>8 DEF FindForUpdate
  <2> DEFINE j == [pc |-> "save", act |-> a, row |-> [rows[a] EXCEPT !.trip.start = s]]
  <2>2. j.pc = "save"
    OBVIOUS
  <2>3. Goto(r, j) /\ rows' = rows
    BY <1>8, <2>1 DEF FindForUpdate
  <2> HIDE DEF j
  <2>4. Sound(j)
    BY <2>2 DEF Sound
  <2> QED
    BY <2>3, <2>4, JourneyReading
<1>9. ASSUME NEW r \in Request, Save(r)
      PROVE  JourneyInv'
  BY <1>i, <1>9, SaveChangesNothing, JourneyReading DEF Save
<1>10. ASSUME NEW r \in Request, NEW a \in Id, DeleteActivity(r, a)
       PROVE  JourneyInv'
  <2>1. /\ req[r] = Idle /\ req' = req
        /\ \A b \in Id : rows'[b] = IF b = a THEN None ELSE rows[b]
    BY <1>10 DEF DeleteActivity, IngestTypeOK
  <2>2. \A s \in Request : req'[s] = Idle
    BY <2>1 DEF Serial
  <2> QED
    BY <2>1, <2>2 DEF JourneyInv, RowsLocated, OneRowPerJourney, Live, Sound, Idle
<1>11. ASSUME NEW r \in Request, Abort(r)
       PROVE  JourneyInv'
  BY <1>i, <1>11, JourneyReading DEF Abort
<1>12. CASE UNCHANGED vars
  BY <1>12 DEF vars, JourneyInv, RowsLocated, OneRowPerJourney, Live, Sound, Alone
<1> QED
  BY <1>1, <1>2, <1>3, <1>4, <1>5, <1>6, <1>7, <1>8, <1>9, <1>10, <1>11, <1>12 DEF Next

(* While one request is handled at a time, nobody moves a trip, and every    *)
(* trip has an end, at most a day later, and a destination, no GPS trip is   *)
(* left beside a receipt that it matches, whatever the trips, whichever      *)
(* arrived first, and however often they were delivered, merged and deleted. *)
THEOREM JourneysShareRow ==
    ASSUME Serial, NewStart = {}, Located
    PROVE  Spec => []OneRowPerJourney
<1>1. Init => JourneyInv
  BY DEF Init, JourneyInv, RowsLocated, OneRowPerJourney, Live, Sound, Idle
<1>2. StoredInv /\ KeptInv /\ JourneyInv /\ [Next]_vars => JourneyInv'
  BY JourneyStep
<1>3. JourneyInv => OneRowPerJourney
  BY DEF JourneyInv
<1> QED
  BY <1>1, <1>2, <1>3, KeptAlways, PTL DEF Spec

-----------------------------------------------------------------------------
(* The partition into journeys, one request at a time and without updates *)

\* Without updates, a row that nothing was merged into has the trip it was
\* created with.
RawTrips ==
    \A a \in Id : rows[a] # None /\ rows[a].source # "gps+receipt"
                      => rows[a].trip = TripOf[rows[a].key]

Stored(i) == \E a \in Id : rows[a] # None /\ i \in rows[a].from

OfOneJourney(Journey) ==
    \A a \in Id : rows[a] # None /\ rows[a].source # "manual" =>
        /\ rows[a].trip \in Blend(Journey, rows[a].key)
        /\ rows[a].from \subseteq Together(Journey, rows[a].key)

Disjoint ==
    \A a, b \in Id : \A i \in Input :
        /\ rows[a] # None /\ i \in rows[a].from
        /\ rows[b] # None /\ i \in rows[b].from
        => a = b

\* Only what no row holds is created; what is merged may be in that row already.
Fits(Journey, j) ==
    /\ j.pc \in {"key", "match"} /\ Kind[j.in] = "gmail" => ~Stored(j.in)
    /\ j.pc = "match" => \A a \in Id : rows[a] # None => rows[a].key # j.in
    /\ j.pc = "create" => ~Stored(j.in)
    /\ j.pc = "enrich" =>
          /\ Journey[j.in] = Journey[rows[j.act].key]
          /\ j.patch = PatchFor(j.in, j.act)
          /\ Kind[j.in] = "gmail" => ~Stored(j.in)
          /\ \A b \in Id : rows[b] # None /\ j.in \in rows[b].from => b = j.act

PartInv(Journey) ==
    /\ RawTrips
    /\ OfOneJourney(Journey)
    /\ Disjoint
    /\ \A r \in Request : Fits(Journey, req[r])

(* An input's own trip is one its row can have. *)
LEMMA OwnTrip ==
    ASSUME NEW Journey, NEW k \in Input
    PROVE  TripOf[k] \in Blend(Journey, k)
BY InputAssumption DEF Blend, Trip

(* A row's trip is as finished as those it is made of. *)
LEMMA BlendFinished ==
    ASSUME NEW Journey, Recognisable(Journey), NEW k \in Input, Matchable(k),
           NEW t \in Blend(Journey, k)
    PROVE  Finished(t)
<1>1. Finished(TripOf[k]) /\ \A l \in Together(Journey, k) : Finished(TripOf[l])
  BY DEF Recognisable, Together
<1>2. /\ t.end = TripOf[k].end
      /\ t.dur \in {TripOf[k].dur} \cup ({TripOf[l].dur : l \in Together(Journey, k)} \ {None})
  BY DEF Blend
<1> QED
  BY <1>1, <1>2 DEF Finished, HasKnownEnd

(* Merging inputs of the journey stays within it. *)
LEMMA BlendPatched ==
    ASSUME NEW Journey, NEW k \in Input, NEW t \in Blend(Journey, k),
           NEW i \in Together(Journey, k), NEW p,
           p.dur \in {None, TripOf[i].dur}, p.from \in {None, TripOf[i].from},
           p.to \in {None, TripOf[i].to}
    PROVE  Patched(t, p) \in Blend(Journey, k)
<1> DEFINE u == Patched(t, p)
<1>1. /\ t.start = TripOf[k].start /\ t.end = TripOf[k].end /\ t.mode = TripOf[k].mode
      /\ t.dur \in {TripOf[k].dur} \cup ({TripOf[l].dur : l \in Together(Journey, k)} \ {None})
      /\ t.from \in {TripOf[k].from} \cup ({TripOf[l].from : l \in Together(Journey, k)} \ {None})
      /\ t.to \in {TripOf[k].to} \cup ({TripOf[l].to : l \in Together(Journey, k)} \ {None})
  BY DEF Blend
<1>2. u = [t EXCEPT !.dur  = IF p.dur = None THEN t.dur ELSE p.dur,
                    !.from = IF p.from = None THEN t.from ELSE p.from,
                    !.to   = IF p.to = None THEN t.to ELSE p.to]
  BY DEF Patched
<1>3. (IF p.dur = None THEN t.dur ELSE p.dur)
         \in {TripOf[k].dur} \cup ({TripOf[l].dur : l \in Together(Journey, k)} \ {None})
  BY <1>1
<1>4. (IF p.from = None THEN t.from ELSE p.from)
         \in {TripOf[k].from} \cup ({TripOf[l].from : l \in Together(Journey, k)} \ {None})
  BY <1>1
<1>5. (IF p.to = None THEN t.to ELSE p.to)
         \in {TripOf[k].to} \cup ({TripOf[l].to : l \in Together(Journey, k)} \ {None})
  BY <1>1
<1> HIDE DEF u
<1> QED
  BY <1>1, <1>2, <1>3, <1>4, <1>5 DEF Blend, u

(* Rows that receipts were found for are of different journeys. *)
LEMMA OneReceiptRow ==
    ASSUME StoredInv, RowsPlain, NEW Journey, Recognisable(Journey),
           OfOneJourney(Journey), Disjoint,
           NEW a \in Id, rows[a] # None, rows[a].source \in ReceiptSource,
           NEW b \in Id, rows[b] # None, rows[b].source \in ReceiptSource,
           Journey[rows[a].key] = Journey[rows[b].key]
    PROVE  a = b
<1>1. ASSUME NEW c \in Id, rows[c] # None, rows[c].source \in ReceiptSource
      PROVE  \E m \in Input : /\ m \in rows[c].from
                              /\ Kind[m] \in {"gmail", "posted"}
                              /\ Journey[m] = Journey[rows[c].key]
  <2>1. /\ rows[c].from \in SUBSET Input /\ rows[c].key \in rows[c].from
        /\ PlainRow(rows[c])
    BY <1>1 DEF StoredInv, IngestTypeOK, RowsOK, RowOK, Row, RowsPlain
  <2>2. \E m \in rows[c].from : Kind[m] \in {"gmail", "posted"}
    BY <1>1, <2>1 DEF PlainRow, ReceiptSource
  <2>3. rows[c].from \subseteq Together(Journey, rows[c].key)
    BY <1>1 DEF OfOneJourney, ReceiptSource
  <2> QED
    BY <2>1, <2>2, <2>3 DEF Together
<1>2. PICK m \in Input : m \in rows[a].from /\ Kind[m] \in {"gmail", "posted"}
                           /\ Journey[m] = Journey[rows[a].key]
  BY <1>1
<1>3. PICK n \in Input : n \in rows[b].from /\ Kind[n] \in {"gmail", "posted"}
                           /\ Journey[n] = Journey[rows[b].key]
  BY <1>1
<1>4. m = n
  BY <1>2, <1>3 DEF Recognisable
<1> QED
  BY <1>2, <1>3, <1>4 DEF Disjoint

(* A merged GPS trip still matches the row that holds it. *)
LEMMA StillMatches ==
    ASSUME StoredInv, RowsPlain, NEW Journey, Recognisable(Journey),
           OfOneJourney(Journey),
           NEW i \in Input, Kind[i] = "gps",
           NEW b \in Id, rows[b] # None, i \in rows[b].from, i # rows[b].key
    PROVE  /\ rows[b].source = "gps+receipt"
           /\ Journey[i] = Journey[rows[b].key]
           /\ SameTrip(TripOf[i], rows[b].trip)
           /\ b \in Candidates(i)
<1>1. rows[b] \in Row /\ PlainRow(rows[b])
  BY DEF StoredInv, IngestTypeOK, RowsPlain
<1>2. rows[b].source = "gps+receipt" /\ Matchable(rows[b].key)
  BY <1>1 DEF PlainRow, Matchable
<1>3. /\ rows[b].trip \in Blend(Journey, rows[b].key)
      /\ rows[b].from \subseteq Together(Journey, rows[b].key)
  BY <1>2 DEF OfOneJourney
<1>4. Journey[i] = Journey[rows[b].key]
  BY <1>3 DEF Together
<1>5. rows[b].key \in Input /\ rows[b].trip \in Trip /\ TripOf[i] \in Trip
  BY <1>1, InputAssumption DEF Row
<1>6. SameTrip(TripOf[i], rows[b].trip)
  BY <1>2, <1>3, <1>4, <1>5 DEF Recognisable
<1>7. Finished(TripOf[i]) /\ Finished(rows[b].trip)
  BY <1>2, <1>3, <1>5, BlendFinished DEF Recognisable, Matchable
<1>8. b \in Candidates(i)
  BY <1>2, <1>5, <1>6, <1>7, MatchesAreFound DEF Candidates, Live, ReceiptSource
<1> QED
  BY <1>2, <1>4, <1>6, <1>8

(* A row that an input is merged into is of its journey. *)
LEMMA MatchOfJourney ==
    ASSUME StoredInv, RowsPlain, RawTrips, NEW Journey, Recognisable(Journey),
           OfOneJourney(Journey),
           NEW i \in Input, Kind[i] \in {"gps", "gmail"},
           NEW a \in Best(i), rows[a].key # i
    PROVE  /\ Kind[i] = "gps" /\ Score(TripOf[i], rows[a].trip).conf >= 650 =>
                Journey[i] = Journey[rows[a].key] /\ SameTrip(TripOf[i], rows[a].trip)
           /\ SameTrip(TripOf[i], rows[a].trip) => Journey[i] = Journey[rows[a].key]
<1>1. /\ a \in Id /\ rows[a] # None
      /\ rows[a].source \in IF Kind[i] = "gps" THEN ReceiptSource ELSE {"gps"}
  BY DEF Best, Candidates, Live
<1>2. rows[a] \in Row /\ PlainRow(rows[a])
  BY <1>1 DEF StoredInv, IngestTypeOK, RowsPlain
<1>3. /\ rows[a].key \in Input /\ rows[a].trip \in Trip /\ TripOf[i] \in Trip
      /\ TripOf[rows[a].key] \in Trip
  BY <1>2, InputAssumption DEF Row
<1>4. Score(TripOf[i], rows[a].trip).conf \in Int
  BY <1>3, ConfRange
<1>5. SameTrip(TripOf[i], rows[a].trip) => Score(TripOf[i], rows[a].trip).conf >= 650
  BY <1>3, MatchesAreCertain
<1>6. CASE Kind[i] = "gps"
  <2>1. Matchable(rows[a].key) /\ rows[a].trip \in Blend(Journey, rows[a].key)
    BY <1>1, <1>2, <1>6 DEF PlainRow, Matchable, ReceiptSource, OfOneJourney
  <2>2. IF Journey[i] = Journey[rows[a].key]
        THEN SameTrip(TripOf[i], rows[a].trip)
        ELSE Score(TripOf[i], rows[a].trip).conf < 650
    BY <1>3, <1>6, <2>1 DEF Recognisable
  <2> QED
    BY <1>4, <1>5, <2>2
<1>7. CASE Kind[i] = "gmail"
  <2> DEFINE k == rows[a].key
  <2>1. Kind[k] = "gps" /\ rows[a].trip = TripOf[k] /\ Matchable(i) /\ i # k
    BY <1>1, <1>2, <1>7 DEF PlainRow, RawTrips, Matchable
  <2>2. TripOf[i] \in Blend(Journey, i)
    BY OwnTrip
  <2>3. Journey[k] # Journey[i] => Score(TripOf[k], TripOf[i]).conf < 650
    BY <1>3, <2>1, <2>2 DEF Recognisable
  <2>4. Score(TripOf[k], TripOf[i]) = Score(TripOf[i], TripOf[k])
    BY <1>3, ScoreSymmetric DEF Symmetric
  <2> QED
    BY <1>4, <1>5, <1>7, <2>1, <2>3, <2>4
<1> QED
  BY <1>6, <1>7

(* A GPS trip that a row holds finds its way there again. *)
LEMMA MergedAgain ==
    ASSUME StoredInv, RowsPlain, RawTrips, NEW Journey, Recognisable(Journey),
           OfOneJourney(Journey), Disjoint,
           NEW i \in Input, Kind[i] = "gps",
           \A a \in Id : rows[a] # None => rows[a].key # i,
           NEW b \in Id, rows[b] # None, i \in rows[b].from
    PROVE  /\ Best(i) # {}
           /\ \A a \in Best(i) : SameTrip(TripOf[i], rows[a].trip) /\ a = b
<1>0. IngestTypeOK
  BY DEF StoredInv
<1>1. /\ rows[b].source = "gps+receipt" /\ Journey[i] = Journey[rows[b].key]
      /\ SameTrip(TripOf[i], rows[b].trip) /\ b \in Candidates(i)
  BY StillMatches
<1>2. Best(i) # {}
  BY <1>0, <1>1, BestExists
<1>3. ASSUME NEW a \in Best(i) PROVE SameTrip(TripOf[i], rows[a].trip) /\ a = b
  <2>1. /\ a \in Id /\ rows[a] # None /\ rows[a].source \in ReceiptSource
        /\ Score(TripOf[i], rows[b].trip).conf <= Score(TripOf[i], rows[a].trip).conf
    BY <1>1 DEF Best, Candidates, Live
  <2>2. rows[a].trip \in Trip /\ rows[b].trip \in Trip /\ TripOf[i] \in Trip
    BY <1>0, <2>1, InputAssumption DEF IngestTypeOK, Row
  <2>3. /\ Score(TripOf[i], rows[b].trip).conf >= 650
        /\ Score(TripOf[i], rows[b].trip).conf \in Int
        /\ Score(TripOf[i], rows[a].trip).conf \in Int
    BY <1>1, <2>2, MatchesAreCertain, ConfRange
  <2>4. Score(TripOf[i], rows[a].trip).conf >= 650
    BY <2>1, <2>3
  <2>5. rows[a].key # i
    BY <2>1
  <2>6. Journey[i] = Journey[rows[a].key] /\ SameTrip(TripOf[i], rows[a].trip)
    BY <2>4, <2>5, MatchOfJourney
  <2> QED
    BY <1>1, <2>1, <2>6, OneReceiptRow DEF ReceiptSource
<1> QED
  BY <1>2, <1>3

(* Reading keeps the partition. *)
LEMMA PartReading ==
    ASSUME Serial, IngestTypeOK, NEW Journey, PartInv(Journey),
           NEW r \in Request, NEW j, Goto(r, j), Fits(Journey, j), rows' = rows
    PROVE  PartInv(Journey)'
<1>1. \A s \in Request : req'[s] = j
  BY SoleRequest
<1>2. RawTrips' /\ OfOneJourney(Journey)' /\ Disjoint'
  BY DEF PartInv, RawTrips, OfOneJourney, Disjoint
<1>3. \A s \in Request : Fits(Journey, req[s])'
  BY <1>1 DEF Fits, Stored, PatchFor
<1> QED
  BY <1>2, <1>3 DEF PartInv

(* Writing a row of one journey, of inputs that no other row holds, keeps    *)
(* the partition.                                                            *)
LEMMA PartWriting ==
    ASSUME Serial, IngestTypeOK, NEW Journey, PartInv(Journey),
           NEW r \in Request, NEW j, Goto(r, j),
           j.pc \notin {"key", "match", "create", "enrich"},
           NEW a \in Id, NEW row \in Row, rows' = [rows EXCEPT ![a] = row],
           row.source # "gps+receipt" => row.trip = TripOf[row.key],
           row.source # "manual" => /\ row.trip \in Blend(Journey, row.key)
                                    /\ row.from \subseteq Together(Journey, row.key),
           \A b \in Id : b # a /\ rows[b] # None => rows[b].from \cap row.from = {}
    PROVE  PartInv(Journey)'
<1>1. \A s \in Request : req'[s] = j
  BY SoleRequest
<1>2. rows'[a] = row /\ \A b \in Id : b # a => rows'[b] = rows[b]
  BY DEF IngestTypeOK
<1>3. RawTrips' /\ OfOneJourney(Journey)'
  BY <1>2 DEF PartInv, RawTrips, OfOneJourney
<1>4. Disjoint'
  BY <1>2 DEF PartInv, Disjoint
<1>5. \A s \in Request : Fits(Journey, req[s])'
  BY <1>1 DEF Fits
<1> QED
  BY <1>3, <1>4, <1>5 DEF PartInv

(* What an enrichment writes. *)
LEMMA EnrichWrites ==
    ASSUME Serial, StoredInv, KeptInv, NEW Journey, PartInv(Journey),
           NEW r \in Request, Enrich(r)
    PROVE  LET j == req[r]
               row == Merged(rows[j.act], j.in, j.patch)
           IN  /\ j.act \in Id /\ j.in \in Input /\ rows[j.act] # None
               /\ row \in Row /\ row.source = "gps+receipt" /\ row.key = rows[j.act].key
               /\ row.from = rows[j.act].from \cup {j.in}
               /\ row.trip \in Blend(Journey, row.key)
               /\ row.from \subseteq Together(Journey, row.key)
               /\ \A b \in Id : b # j.act /\ rows[b] # None => rows[b].from \cap row.from = {}
               /\ Kind[j.in] = "gmail" => /\ ~Stored(j.in)
                                          /\ \A m \in rows[j.act].from : Kind[m] # "gmail"
               /\ \/ rows' = rows /\ Goto(r, Idle)
                  \/ /\ rows' = [rows EXCEPT ![j.act] = row]
                     /\ Goto(r, [pc |-> "refetch", in |-> j.in, act |-> j.act])
<1> DEFINE j == req[r]
<1> DEFINE row == Merged(rows[j.act], j.in, j.patch)
<1>1. j.act \in Id /\ j.in \in Input /\ j.patch \in Patch
  BY JobFields DEF Enrich, StoredInv, IngestTypeOK
<1>2. /\ rows[j.act] # None
      /\ Kind[j.in] \in {"gps", "gmail"}
      /\ rows[j.act].source \in IF Kind[j.in] = "gps" THEN ReceiptSource ELSE {"gps"}
  BY DEF Enrich, KeptInv, RequestsCurrent, Current
<1>3. rows[j.act] \in Row /\ RowOK(rows[j.act]) /\ PlainRow(rows[j.act])
  BY <1>1, <1>2 DEF StoredInv, IngestTypeOK, RowsOK, KeptInv, RowsPlain
<1>4. /\ row \in Row /\ row.source = "gps+receipt" /\ row.key = rows[j.act].key
      /\ row.trip = Patched(rows[j.act].trip, j.patch)
  BY <1>1, <1>3, MergedType DEF Merged, Row
<1>5. row.from = rows[j.act].from \cup {j.in}
  BY <1>1, <1>2, <1>3, MergedKeeps
<1>6. /\ Journey[j.in] = Journey[rows[j.act].key]
      /\ j.patch = PatchFor(j.in, j.act)
      /\ Kind[j.in] = "gmail" => ~Stored(j.in)
      /\ \A b \in Id : rows[b] # None /\ j.in \in rows[b].from => b = j.act
  BY DEF Enrich, PartInv, Fits
<1>7. /\ rows[j.act].trip \in Blend(Journey, rows[j.act].key)
      /\ rows[j.act].from \subseteq Together(Journey, rows[j.act].key)
      /\ rows[j.act].key \in Input
  BY <1>1, <1>2, <1>3 DEF PartInv, OfOneJourney, ReceiptSource, Row
<1>8. j.in \in Together(Journey, rows[j.act].key)
  BY <1>1, <1>2, <1>6 DEF Together, Matchable
<1>9. /\ j.patch.dur \in {None, TripOf[j.in].dur}
      /\ j.patch.from \in {None, TripOf[j.in].from}
      /\ j.patch.to \in {None, TripOf[j.in].to}
  BY <1>6 DEF PatchFor, GPSPatch, ReceiptPatch
<1>10. row.trip \in Blend(Journey, row.key)
  BY <1>4, <1>7, <1>8, <1>9, BlendPatched
<1>11. row.from \subseteq Together(Journey, row.key)
  BY <1>4, <1>5, <1>7, <1>8
<1>12. \A b \in Id : b # j.act /\ rows[b] # None => rows[b].from \cap row.from = {}
  <2>1. \A b \in Id : rows[b] # None => rows[b].from \subseteq Input
    BY DEF StoredInv, IngestTypeOK, Row
  <2> HIDE DEF row, j
  <2> QED
    BY <1>1, <1>2, <1>5, <1>6, <2>1 DEF PartInv, Disjoint
<1>13. Kind[j.in] = "gmail" => \A m \in rows[j.act].from : Kind[m] # "gmail"
  BY <1>2, <1>3 DEF PlainRow
<1>14. \/ rows' = rows /\ Goto(r, Idle)
       \/ /\ rows' = [rows EXCEPT ![j.act] = row]
          /\ Goto(r, [pc |-> "refetch", in |-> j.in, act |-> j.act])
  BY <1>1, <1>2 DEF Enrich, Live
<1> HIDE DEF row
<1> QED
  BY <1>1, <1>2, <1>4, <1>5, <1>6, <1>10, <1>11, <1>12, <1>13, <1>14 DEF row

(* What a creation writes. *)
LEMMA CreateWrites ==
    ASSUME StoredInv, NEW Journey, PartInv(Journey),
           NEW r \in Request, NEW a \in Id, Create(r, a)
    PROVE  LET i == req[r].in
               row == NewRow(i, req[r].review)
           IN  /\ i \in Input /\ rows[a] = None /\ ~Stored(i)
               /\ row \in Row /\ row.source = Kind[i] /\ row.key = i
               /\ row.trip = TripOf[i] /\ row.from = {i}
               /\ Goto(r, Idle)
               /\ rows' = rows \/ rows' = [rows EXCEPT ![a] = row]
<1>1. req[r].in \in Input /\ req[r].review \in BOOLEAN
  BY JobFields DEF Create, StoredInv, IngestTypeOK
<1>2. rows[a] = None
  <2>1. rows[a] # None => rows[a] \in Row /\ rows[a].key = born[a]
    BY DEF StoredInv, IngestTypeOK, KeysOfBirth
  <2>2. rows[a] # None => rows[a].key \in Input
    BY <2>1 DEF Row
  <2> QED
    BY <2>1, <2>2, InputAssumption DEF Create
<1>3. ~Stored(req[r].in)
  BY DEF Create, PartInv, Fits
<1>4. NewRow(req[r].in, req[r].review) \in Row
  BY <1>1, NewRowType
<1> QED
  BY <1>1, <1>2, <1>3, <1>4 DEF Create, NewRow

(* Every step keeps the partition. *)
LEMMA PartStep ==
    ASSUME Serial, NewStart = {}, NEW Journey, Recognisable(Journey),
           StoredInv, KeptInv, PartInv(Journey), [Next]_vars
    PROVE  PartInv(Journey)'
<1>0. IngestTypeOK /\ RowsOK /\ RowsPlain /\ RawTrips /\ OfOneJourney(Journey) /\ Disjoint
  BY DEF StoredInv, KeptInv, PartInv
<1> USE <1>0
<1>i. Fits(Journey, Idle)
  BY DEF Fits, Idle
<1>1. ASSUME NEW r \in Request, NEW i \in Input, Receive(r, i)
      PROVE  PartInv(Journey)'
  <2> DEFINE j == [pc |-> IF Kind[i] = "gmail" THEN "receipt" ELSE "key", in |-> i]
  <2>1. Fits(Journey, j)
    BY DEF Fits
  <2>2. Goto(r, j) /\ rows' = rows
    BY <1>1 DEF Receive
  <2> HIDE DEF j
  <2> QED
    BY <2>1, <2>2, PartReading
<1>2. ASSUME NEW r \in Request, CheckReceipt(r)
      PROVE  PartInv(Journey)'
  <2> DEFINE i == req[r].in
  <2> DEFINE j == [pc |-> "key", in |-> i]
  <2>1. FindByReceiptID(i) = {} /\ Kind[i] = "gmail" => ~Stored(i)
    <3>1. \A b \in Id : rows[b] # None => RowOK(rows[b])
      BY DEF RowsOK
    <3> HIDE DEF i
    <3> QED
      BY <3>1 DEF FindByReceiptID, Live, RowOK, Stored
  <2>2. FindByReceiptID(i) = {} => Fits(Journey, j)
    <3>1. j.pc = "key" /\ j.in = i
      OBVIOUS
    <3> HIDE DEF i, j
    <3> QED
      BY <2>1, <3>1 DEF Fits
  <2>3. /\ Goto(r, Idle) \/ (FindByReceiptID(i) = {} /\ Goto(r, j))
        /\ rows' = rows
    BY <1>2 DEF CheckReceipt
  <2> HIDE DEF j
  <2> QED
    BY <1>i, <2>2, <2>3, PartReading
<1>3. ASSUME NEW r \in Request, CheckKey(r)
      PROVE  PartInv(Journey)'
  <2> DEFINE i == req[r].in
  <2> DEFINE match == [pc |-> "match", in |-> i]
  <2> DEFINE create == [pc |-> "create", in |-> i, review |-> FALSE]
  <2>1. i \in Input /\ (Kind[i] = "gmail" => ~Stored(i))
    BY <1>3, JobFields DEF CheckKey, IngestTypeOK, PartInv, Fits
  <2>2. ~ExistsByIdempotencyKey(i) => \A a \in Id : rows[a] # None => rows[a].key # i
    BY DEF ExistsByIdempotencyKey, Live
  <2>3. ~ExistsByIdempotencyKey(i) => Fits(Journey, match)
    <3>1. match.pc = "match" /\ match.in = i
      OBVIOUS
    <3> HIDE DEF i, match
    <3> QED
      BY <2>1, <2>2, <3>1 DEF Fits
  <2>4. ~ExistsByIdempotencyKey(i) /\ Kind[i] \notin {"gps", "gmail"} => ~Stored(i)
    <3>1. \A b \in Id : rows[b] # None =>
             \A m \in rows[b].from : m = rows[b].key \/ Kind[m] \in {"gps", "gmail"}
      BY DEF RowsPlain, PlainRow, IngestTypeOK, Row, Source
    <3> HIDE DEF i
    <3> QED
      BY <2>2, <3>1 DEF Stored
  <2>5. ~ExistsByIdempotencyKey(i) /\ Kind[i] \notin {"gps", "gmail"} => Fits(Journey, create)
    <3>1. create.pc = "create" /\ create.in = i
      OBVIOUS
    <3> HIDE DEF i, create
    <3> QED
      BY <2>4, <3>1 DEF Fits
  <2>6. /\ \/ Goto(r, Idle)
           \/ ~ExistsByIdempotencyKey(i) /\ Goto(r, match)
           \/ ~ExistsByIdempotencyKey(i) /\ Kind[i] \notin {"gps", "gmail"} /\ Goto(r, create)
        /\ rows' = rows
    BY <1>3 DEF CheckKey
  <2> HIDE DEF match, create
  <2> QED
    BY <1>i, <2>3, <2>5, <2>6, PartReading
<1>4. ASSUME NEW r \in Request, Match(r)
      PROVE  PartInv(Journey)'
  <2> DEFINE i == req[r].in
  <2>0. /\ i \in Input /\ Kind[i] \in {"gps", "gmail"}
        /\ Kind[i] = "gmail" => ~Stored(i)
        /\ \A a \in Id : rows[a] # None => rows[a].key # i
    BY <1>4, JobFields DEF Match, IngestTypeOK, KeptInv, RequestsCurrent, Current, PartInv, Fits
  <2>1. Stored(i) =>
          /\ Best(i) # {}
          /\ \A a \in Best(i) : /\ SameTrip(TripOf[i], rows[a].trip)
                                /\ \A b \in Id : rows[b] # None /\ i \in rows[b].from => b = a
    <3> HIDE DEF i
    <3> QED
      BY <2>0, MergedAgain DEF Stored
  <2>2. \A a \in Best(i) : a \in Id /\ rows[a] # None
    BY DEF Best, Candidates, Live
  <2>3. \A a \in Best(i) : SameTrip(TripOf[i], rows[a].trip)
                             => Journey[i] = Journey[rows[a].key]
    <3> HIDE DEF i
    <3> QED
      BY <2>0, <2>2, MatchOfJourney
  <2>4. \E j : Goto(r, j) /\ Fits(Journey, j)
    <3>1. CASE Best(i) = {}
      <4> DEFINE create == [pc |-> "create", in |-> i, review |-> FALSE]
      <4>1. Goto(r, create)
        BY <1>4, <3>1 DEF Match
      <4>2. create.pc = "create" /\ create.in = i
        OBVIOUS
      <4>3. Fits(Journey, create)
        <5> HIDE DEF create, i
        <5> QED
          BY <2>1, <3>1, <4>2 DEF Fits
      <4> QED
        BY <4>1, <4>3
    <3>2. CASE Best(i) # {}
      <4>1. PICK a \in Best(i) :
               Goto(r, IF SameTrip(TripOf[i], rows[a].trip)
                       THEN [pc |-> "enrich", in |-> i, act |-> a, patch |-> PatchFor(i, a)]
                       ELSE [pc |-> "create", in |-> i,
                             review |-> Score(TripOf[i], rows[a].trip).conf >= ThresholdReview])
        BY <1>4, <3>2 DEF Match
      <4> DEFINE merge == [pc |-> "enrich", in |-> i, act |-> a, patch |-> PatchFor(i, a)]
      <4> DEFINE create == [pc |-> "create", in |-> i,
                            review |-> Score(TripOf[i], rows[a].trip).conf >= ThresholdReview]
      <4>2. /\ merge.pc = "enrich" /\ merge.in = i /\ merge.act = a
            /\ merge.patch = PatchFor(i, a)
            /\ create.pc = "create" /\ create.in = i
        OBVIOUS
      <4>3. SameTrip(TripOf[i], rows[a].trip) => Fits(Journey, merge)
        <5>1. \A b \in Id : rows[b] # None /\ i \in rows[b].from => b = a
          BY <2>1 DEF Stored
        <5> HIDE DEF merge, i
        <5> QED
          BY <2>0, <2>3, <4>2, <5>1 DEF Fits
      <4>4. ~SameTrip(TripOf[i], rows[a].trip) => Fits(Journey, create)
        <5> HIDE DEF create, i
        <5> QED
          BY <2>1, <4>2 DEF Fits
      <4>5. \/ SameTrip(TripOf[i], rows[a].trip) /\ Goto(r, merge)
            \/ ~SameTrip(TripOf[i], rows[a].trip) /\ Goto(r, create)
        <5> HIDE DEF i
        <5>1. CASE SameTrip(TripOf[i], rows[a].trip)
          BY <4>1, <5>1
        <5>2. CASE ~SameTrip(TripOf[i], rows[a].trip)
          BY <4>1, <5>2
        <5> QED
          BY <5>1, <5>2
      <4> HIDE DEF merge, create
      <4> QED
        BY <4>3, <4>4, <4>5
    <3> QED
      BY <3>1, <3>2
  <2>5. rows' = rows
    BY <1>4 DEF Match
  <2> QED
    BY <2>4, <2>5, PartReading
<1>5. ASSUME NEW r \in Request, Enrich(r)
      PROVE  PartInv(Journey)'
  <2> DEFINE j == req[r]
  <2> DEFINE row == Merged(rows[j.act], j.in, j.patch)
  <2> DEFINE done == [pc |-> "refetch", in |-> j.in, act |-> j.act]
  <2>1. /\ j.act \in Id /\ row \in Row /\ row.source = "gps+receipt"
        /\ row.trip \in Blend(Journey, row.key)
        /\ row.from \subseteq Together(Journey, row.key)
        /\ \A b \in Id : b # j.act /\ rows[b] # None => rows[b].from \cap row.from = {}
        /\ \/ rows' = rows /\ Goto(r, Idle)
           \/ rows' = [rows EXCEPT ![j.act] = row] /\ Goto(r, done)
    BY <1>5, EnrichWrites
  <2>2. done.pc \notin {"key", "match", "create", "enrich"}
    OBVIOUS
  <2> HIDE DEF row, done
  <2> QED
    BY <1>i, <2>1, <2>2, PartReading, PartWriting
<1>6. ASSUME NEW r \in Request, Refetch(r)
      PROVE  PartInv(Journey)'
  BY <1>i, <1>6, PartReading DEF Refetch
<1>7. ASSUME NEW r \in Request, NEW a \in Id, Create(r, a)
      PROVE  PartInv(Journey)'
  <2> DEFINE i == req[r].in
  <2> DEFINE row == NewRow(i, req[r].review)
  <2>1. /\ i \in Input /\ rows[a] = None /\ ~Stored(i)
        /\ row \in Row /\ row.source = Kind[i] /\ row.key = i
        /\ row.trip = TripOf[i] /\ row.from = {i}
        /\ Goto(r, Idle)
        /\ rows' = rows \/ rows' = [rows EXCEPT ![a] = row]
    BY <1>7, CreateWrites
  <2>2. Idle.pc \notin {"key", "match", "create", "enrich"}
    BY DEF Idle
  <2> HIDE DEF row, i
  <2>3. Kind[i] # "manual" => i \in Together(Journey, i)
    BY <2>1, InputAssumption DEF Together, Matchable, Kinds
  <2>4. row.source # "manual" => /\ row.trip \in Blend(Journey, row.key)
                                 /\ row.from \subseteq Together(Journey, row.key)
    BY <2>1, <2>3, OwnTrip
  <2>5. \A b \in Id : b # a /\ rows[b] # None => rows[b].from \cap row.from = {}
    BY <2>1 DEF Stored
  <2> QED
    BY <1>i, <2>1, <2>2, <2>4, <2>5, PartReading, PartWriting
<1>8. ASSUME NEW r \in Request, NEW a \in Id, FindForUpdate(r, a)
      PROVE  PartInv(Journey)'
  <2>1. PICK s \in NewStart \cup {rows[a].trip.start} :
           Goto(r, [pc |-> "save", act |-> a, row |-> [rows[a] EXCEPT !.trip.start = s]])
    BY <1>8 DEF FindForUpdate
  <2> DEFINE j == [pc |-> "save", act |-> a, row |-> [rows[a] EXCEPT !.trip.start = s]]
  <2>2. j.pc = "save"
    OBVIOUS
  <2>3. Goto(r, j) /\ rows' = rows
    BY <1>8, <2>1 DEF FindForUpdate
  <2> HIDE DEF j
  <2>4. Fits(Journey, j)
    BY <2>2 DEF Fits
  <2> QED
    BY <2>3, <2>4, PartReading
<1>9. ASSUME NEW r \in Request, Save(r)
      PROVE  PartInv(Journey)'
  BY <1>i, <1>9, SaveChangesNothing, PartReading DEF Save
<1>10. ASSUME NEW r \in Request, NEW a \in Id, DeleteActivity(r, a)
       PROVE  PartInv(Journey)'
  <2>1. /\ req[r] = Idle /\ req' = req
        /\ \A b \in Id : rows'[b] = IF b = a THEN None ELSE rows[b]
    BY <1>10 DEF DeleteActivity, IngestTypeOK
  <2>2. \A s \in Request : req'[s] = Idle
    BY <2>1 DEF Serial
  <2>3. RawTrips' /\ OfOneJourney(Journey)' /\ Disjoint'
    BY <2>1 DEF RawTrips, OfOneJourney, Disjoint
  <2>4. \A s \in Request : Fits(Journey, req[s])'
    BY <2>2 DEF Fits, Idle
  <2> QED
    BY <2>3, <2>4 DEF PartInv
<1>11. ASSUME NEW r \in Request, Abort(r)
       PROVE  PartInv(Journey)'
  BY <1>i, <1>11, PartReading DEF Abort
<1>12. CASE UNCHANGED vars
  <2>1. RawTrips' /\ OfOneJourney(Journey)' /\ Disjoint'
    BY <1>12 DEF vars, RawTrips, OfOneJourney, Disjoint
  <2>2. \A s \in Request : Fits(Journey, req[s])'
    BY <1>12 DEF vars, PartInv, Fits, Stored, PatchFor
  <2> QED
    BY <2>1, <2>2 DEF PartInv
<1> QED
  BY <1>1, <1>2, <1>3, <1>4, <1>5, <1>6, <1>7, <1>8, <1>9, <1>10, <1>11, <1>12 DEF Next

\* All that is known of a state when journeys are recognisable.
PartitionKept(Journey) == StoredInv /\ KeptInv /\ PartInv(Journey)

\* What a step may do to the journeys of the stored inputs.
OtherRowsStay(a) == \A b \in Id : b # a => rows'[b] = rows[b]

NewJourney(a, i) ==
    /\ rows[a] = None /\ ~Stored(i)
    /\ rows'[a] # None /\ rows'[a].key = i /\ rows'[a].from = {i}
    /\ OtherRowsStay(a)

JoinedJourney(a, i) ==
    /\ rows[a] # None /\ rows'[a] # None
    /\ rows'[a].from = rows[a].from \cup {i}
    /\ \A b \in Id : rows[b] # None /\ i \in rows[b].from => b = a
    /\ Kind[i] = "gmail" => ~Stored(i) /\ \A m \in rows[a].from : Kind[m] # "gmail"
    /\ OtherRowsStay(a)

DroppedJourney(a) == rows[a] # None /\ rows'[a] = None /\ OtherRowsStay(a)

(* A step starts a journey, adds to one, drops one, or leaves them alone. *)
LEMMA JourneySteps ==
    ASSUME Serial, NewStart = {}, NEW Journey, PartitionKept(Journey), [Next]_vars
    PROVE  \/ rows' = rows
           \/ \E a \in Id, i \in Input : NewJourney(a, i) \/ JoinedJourney(a, i)
           \/ \E a \in Id : DroppedJourney(a)
<1>0. IngestTypeOK /\ StoredInv /\ KeptInv /\ PartInv(Journey)
  BY DEF PartitionKept, StoredInv
<1>1. ASSUME NEW r \in Request, Enrich(r)
      PROVE  rows' = rows \/ \E a \in Id, i \in Input : JoinedJourney(a, i)
  <2> DEFINE j == req[r]
  <2> DEFINE row == Merged(rows[j.act], j.in, j.patch)
  <2>1. /\ j.act \in Id /\ j.in \in Input /\ rows[j.act] # None
        /\ row \in Row /\ row.from = rows[j.act].from \cup {j.in}
        /\ Kind[j.in] = "gmail" => /\ ~Stored(j.in)
                                   /\ \A m \in rows[j.act].from : Kind[m] # "gmail"
        /\ \A b \in Id : b # j.act /\ rows[b] # None => rows[b].from \cap row.from = {}
        /\ rows' = rows \/ rows' = [rows EXCEPT ![j.act] = row]
    BY <1>0, <1>1, EnrichWrites
  <2> HIDE DEF row
  <2>2. CASE rows' = [rows EXCEPT ![j.act] = row]
    <3>1. rows'[j.act] = row /\ row # None /\ OtherRowsStay(j.act)
      BY <1>0, <2>1, <2>2, NoneIsNoRow DEF IngestTypeOK, OtherRowsStay
    <3>2. \A b \in Id : rows[b] # None /\ j.in \in rows[b].from => b = j.act
      BY <2>1
    <3>3. JoinedJourney(j.act, j.in)
      BY <2>1, <3>1, <3>2 DEF JoinedJourney
    <3> QED
      BY <2>1, <3>3
  <2> QED
    BY <2>1, <2>2
<1>2. ASSUME NEW r \in Request, NEW a \in Id, Create(r, a)
      PROVE  rows' = rows \/ \E i \in Input : NewJourney(a, i)
  <2> DEFINE i == req[r].in
  <2> DEFINE row == NewRow(i, req[r].review)
  <2>1. /\ i \in Input /\ rows[a] = None /\ ~Stored(i)
        /\ row \in Row /\ row.key = i /\ row.from = {i}
        /\ rows' = rows \/ rows' = [rows EXCEPT ![a] = row]
    BY <1>0, <1>2, CreateWrites
  <2> HIDE DEF row, i
  <2>2. CASE rows' = [rows EXCEPT ![a] = row]
    <3>1. rows'[a] = row /\ row # None /\ OtherRowsStay(a)
      BY <1>0, <2>1, <2>2, NoneIsNoRow DEF IngestTypeOK, OtherRowsStay
    <3> QED
      BY <2>1, <3>1 DEF NewJourney
  <2> QED
    BY <2>1, <2>2
<1>3. ASSUME NEW r \in Request, NEW a \in Id, DeleteActivity(r, a)
      PROVE  DroppedJourney(a)
  BY <1>0, <1>3 DEF DeleteActivity, DroppedJourney, OtherRowsStay, Live, IngestTypeOK
<1>4. ASSUME NEW r \in Request, Save(r)
      PROVE  rows' = rows
  BY <1>0, <1>4, SaveChangesNothing
<1> QED
  BY <1>1, <1>2, <1>3, <1>4
  DEF Next, vars, Receive, CheckReceipt, CheckKey, Match, Refetch, FindForUpdate, Abort

(* The state is known in every reachable state. *)
LEMMA PartitionAlways ==
    ASSUME Serial, NewStart = {}, NEW CONSTANT Journey, Recognisable(Journey)
    PROVE  Spec => []PartitionKept(Journey)
<1>1. Init => PartInv(Journey)
  BY DEF Init, PartInv, RawTrips, OfOneJourney, Disjoint, Fits, Idle
<1>2. StoredInv /\ KeptInv /\ PartInv(Journey) /\ [Next]_vars => PartInv(Journey)'
  BY PartStep
<1>3. StoredInv /\ KeptInv /\ PartInv(Journey) => PartitionKept(Journey)
  BY DEF PartitionKept
<1> QED
  BY <1>1, <1>2, <1>3, KeptAlways, PTL DEF Spec

(* If the scores tell a user's journeys apart, while one request is handled  *)
(* at a time and nobody moves a trip, an input that some row holds never     *)
(* gets a row of its own, however often it is delivered.                     *)
THEOREM RetriesMergeAgain ==
    ASSUME Serial, NewStart = {}, NEW CONSTANT Journey, Recognisable(Journey)
    PROVE  Spec => RetriesAddNoRow
<1> DEFINE NoSecondRow ==
              \A i \in Input, a \in Id \ Live :
                 (\E b \in Id : Holds(b, i)) /\ rows'[a] # None => rows'[a].key # i
<1>1. ASSUME PartitionKept(Journey), [Next]_vars
      PROVE  NoSecondRow
  <2> SUFFICES ASSUME NEW i \in Input, NEW a \in Id, rows[a] = None,
                      Stored(i), rows'[a] # None
               PROVE  rows'[a].key # i
    BY DEF Live, Holds, Stored
  <2> QED
    BY <1>1, JourneySteps DEF NewJourney, JoinedJourney, DroppedJourney, OtherRowsStay
<1>2. PartitionKept(Journey) /\ [Next]_vars => [NoSecondRow]_vars
  BY <1>1
<1> QED
  BY <1>2, PartitionAlways, PTL DEF Spec, RetriesAddNoRow

\* The journeys that TripPartition is about.
Journeys == {rows[a].from : a \in Live}

(* A journey's row holds something that no other row holds. *)
LEMMA JourneysDiffer ==
    ASSUME NEW Journey, PartitionKept(Journey), NEW a \in Live, NEW b \in Live, a # b
    PROVE  rows[a].from # rows[b].from
<1>1. rows[a] \in Row /\ rows[a].key \in rows[a].from
  BY DEF PartitionKept, StoredInv, IngestTypeOK, RowsOK, RowOK, Live
<1>2. rows[a].key \in Input
  BY <1>1 DEF Row
<1> QED
  BY <1>1, <1>2 DEF PartitionKept, PartInv, Disjoint, Live

(* Every step is a step of the partition or leaves it. *)
LEMMA PartitionStep ==
    ASSUME Serial, NewStart = {}, NEW Journey, PartitionKept(Journey), [Next]_vars
    PROVE  Partition!Next \/ UNCHANGED Journeys
<1>1. CASE rows' = rows
  BY <1>1 DEF Journeys, Live
<1>2. ASSUME NEW a \in Id, NEW i \in Input, NewJourney(a, i)
      PROVE  Partition!Next
  <2>1. Live' = Live \cup {a} /\ a \notin Live
    BY <1>2 DEF Live, NewJourney, OtherRowsStay
  <2>2. Journeys' = Journeys \cup {{i}}
    <3>1. Journeys' = {rows'[b].from : b \in Live \cup {a}}
      BY <2>1 DEF Journeys
    <3>2. rows'[a].from = {i} /\ \A b \in Live : rows'[b].from = rows[b].from
      BY <1>2, <2>1 DEF NewJourney, OtherRowsStay, Live
    <3> QED
      BY <3>1, <3>2 DEF Journeys
  <2>3. i \notin UNION Journeys
    BY <1>2 DEF Journeys, NewJourney, Stored, Live
  <2>4. Partition!Open(i)
    BY <2>2, <2>3 DEF Partition!Open, Journeys
  <2> QED
    BY <2>4 DEF Partition!Next
<1>3. ASSUME NEW a \in Id, NEW i \in Input, JoinedJourney(a, i)
      PROVE  Partition!Next \/ UNCHANGED Journeys
  <2>1. Live' = Live /\ a \in Live
    BY <1>3 DEF Live, JoinedJourney, OtherRowsStay
  <2> DEFINE old == rows[a].from
  <2>2. /\ rows'[a].from = old \cup {i}
        /\ \A b \in Live : b # a => rows'[b].from = rows[b].from
    BY <1>3, <2>1 DEF JoinedJourney, OtherRowsStay, Live
  <2>3. Journeys' = {rows'[b].from : b \in Live}
    BY <2>1 DEF Journeys
  <2>4. CASE i \in old
    <3>1. \A b \in Live : rows'[b].from = rows[b].from
      BY <2>2, <2>4
    <3> QED
      BY <2>3, <3>1 DEF Journeys
  <2>5. CASE i \notin old
    <3>1. Journeys' = (Journeys \ {old}) \cup {old \cup {i}}
      <4>1. Journeys \ {old} = {rows[b].from : b \in Live \ {a}}
        BY <2>1, JourneysDiffer DEF Journeys
      <4>2. Journeys' = {rows[b].from : b \in Live \ {a}} \cup {old \cup {i}}
        BY <2>1, <2>2, <2>3
      <4> QED
        BY <4>1, <4>2
    <3>2. i \notin UNION Journeys
      BY <1>3, <2>5 DEF Journeys, JoinedJourney, Live
    <3>3. old \in Journeys
      BY <2>1 DEF Journeys
    <3>4. Kind[i] = "gmail" => old \cap {m \in Input : Kind[m] = "gmail"} = {}
      BY <1>3 DEF JoinedJourney
    <3>5. PICK j \in Journeys : j = old
      BY <3>3
    <3>6. Partition!Join(i, j)
      BY <3>1, <3>2, <3>4, <3>5 DEF Partition!Join, Journeys
    <3> QED
      BY <3>6 DEF Partition!Next, Journeys
  <2> QED
    BY <2>4, <2>5
<1>4. ASSUME NEW a \in Id, DroppedJourney(a)
      PROVE  Partition!Next
  <2>1. Live' = Live \ {a} /\ a \in Live
    BY <1>4 DEF Live, DroppedJourney, OtherRowsStay
  <2>2. \A b \in Live \ {a} : rows'[b].from = rows[b].from
    BY <1>4 DEF DroppedJourney, OtherRowsStay, Live
  <2>3. Journeys' = {rows[b].from : b \in Live \ {a}}
    BY <2>1, <2>2 DEF Journeys
  <2>4. Journeys \ {rows[a].from} = {rows[b].from : b \in Live \ {a}}
    BY <2>1, JourneysDiffer DEF Journeys
  <2>5. PICK j \in Journeys : j = rows[a].from
    BY <2>1 DEF Journeys
  <2>6. Partition!Drop(j)
    BY <2>3, <2>4, <2>5 DEF Partition!Drop, Journeys
  <2> QED
    BY <2>6 DEF Partition!Next, Journeys
<1> QED
  BY <1>1, <1>2, <1>3, <1>4, JourneySteps

(* Under the same conditions the rows implement the partition of the stored  *)
(* inputs into journeys: an input joins one journey, once, no journey has    *)
(* two receipts, and only a delete takes inputs away, with the whole journey.*)
THEOREM RowsImplementPartition ==
    ASSUME Serial, NewStart = {}, NEW CONSTANT Journey, Recognisable(Journey)
    PROVE  Spec => ImplementsPartition
<1>1. Init => Partition!Init
  BY DEF Init, Partition!Init, Live
<1>2. PartitionKept(Journey) /\ [Next]_vars => [Partition!Next]_Journeys
  BY PartitionStep
<1> QED
  BY <1>1, <1>2, PartitionAlways, PTL DEF Spec, ImplementsPartition, Partition!Spec, Journeys
-----------------------------------------------------------------------------
(* Short addresses: the activities' rows of AddressSweep, for all activities, *)
(* places, sweeps and faults.  Nothing here depends on the ingestion above.  *)

(* The shape of the records, whatever rows they hold. *)
IsSweep(w) == w = [todo |-> w.todo, row |-> w.row, at |-> w.at, end |-> w.end, got |-> w.got]

RowShapes ==
    /\ disp = [a \in Activity |-> disp[a]]
    /\ receipt = [a \in Activity |-> receipt[a]]
    /\ edit # Null => edit.id \in Activity

SweepShapes ==
    /\ sweep = [s \in Sweep |-> sweep[s]]
    /\ \A s \in Sweep : IsSweep(sweep[s])
    /\ calls \in [Coord -> Nat]
    /\ faults \in Nat

(* An edit that nothing came in between saves what the row still holds. *)
CopyIsCurrent == "edits" \notin clash /\ edit # Null => edit.disp = disp[edit.id]

PrevailInv == ReceiptsPrevail /\ CopyIsCurrent

(* A place that was paid for is in the cache, and one that is about to be    *)
(* asked for is not.                                                       *)
PaidInv ==
    "lookups" \notin clash /\ faults = 0 =>
        /\ \A c \in Coord : calls[c] <= 1 /\ (calls[c] > 0 => c \in cache)
        /\ \A s \in Sweep, e \in Ends :
             Sweeping(s, "ask", e) => PlaceOf(s, e) \notin cache

(* After a statement a sweep never asks Google without having looked into   *)
(* the cache.                                                              *)
LEMMA StartLooksFirst ==
    ASSUME NEW w, NEW i \in 1..4
    PROVE  IsSweep(Start(w, i)) /\ Start(w, i).at # "ask"
<1>1. Stages[i].at # "ask"
  BY DEF Stages
<1> QED
  BY <1>1 DEF IsSweep, Start

LEMMA LeaveLooksFirst ==
    ASSUME NEW todo
    PROVE  IsSweep(Leave(todo)) /\ Leave(todo).at # "ask"
<1>1. IsSweep(NoSweep) /\ NoSweep.at # "ask"
  BY DEF IsSweep, NoSweep
<1> QED
  BY <1>1, StartLooksFirst DEF Leave

LEMMA OnwardLooksFirst ==
    ASSUME NEW w, NEW k \in 1..5
    PROVE  /\ IsSweep(Onward(w, k))
           /\ Onward(w, k).at # "ask"
<1>1. ASSUME Left(w, k) # {}
      PROVE  Min(Left(w, k)) \in 1..4
  <2> DEFINE L == Left(w, k)
  <2>1. L \subseteq 1..4 /\ L # {}
    BY <1>1 DEF Left
  <2> HIDE DEF L
  <2>2. \E x \in L : \A y \in L : x <= y
    <3>1. CASE 1 \in L
      BY <2>1, <3>1
    <3>2. CASE 1 \notin L /\ 2 \in L
      BY <2>1, <3>2
    <3>3. CASE 1 \notin L /\ 2 \notin L /\ 3 \in L
      BY <2>1, <3>3
    <3>4. CASE 1 \notin L /\ 2 \notin L /\ 3 \notin L
      <4>1. \A y \in L : y = 4
        BY <2>1, <3>4
      <4>2. PICK y \in L : TRUE
        BY <2>1
      <4> QED
        BY <4>1, <4>2
    <3> QED
      BY <3>1, <3>2, <3>3, <3>4
  <2>3. Min(L) \in L
    BY <2>2 DEF Min
  <2> QED
    BY <2>1, <2>3 DEF L
<1> QED
  BY <1>1, StartLooksFirst, LeaveLooksFirst DEF Onward

LEMMA PastLooksFirst ==
    ASSUME NEW w, NEW verb \in {"look", "write"}, NEW e \in Ends
    PROVE  /\ IsSweep(Past(w, verb, e))
           /\ Past(w, verb, e).at # "ask"
<1>1. StageOf(verb, e) + 1 \in 1..5
  BY DEF StageOf
<1> QED
  BY <1>1, OnwardLooksFirst DEF Past

(* What the statements of a sweep leave alone. *)
LEMMA SweepsLeaveRows ==
    ASSUME NEW s \in Sweep,
           \/ Tick(s) \/ Fail(s) \/ PutFails(s)
           \/ \E e \in Ends : Lookup(s, e) \/ Ask(s, e)
    PROVE  /\ UNCHANGED <<disp, edit, receipt>>
           /\ clash \subseteq clash' /\ ("edits" \in clash' => "edits" \in clash)
<1>1. ASSUME NEW e \in Ends, NEW stored, Answered(s, e, stored)
      PROVE  /\ UNCHANGED <<disp, edit, receipt>>
             /\ clash \subseteq clash' /\ ("edits" \in clash' => "edits" \in clash)
  BY <1>1 DEF Answered
<1>2. CASE Tick(s)
  BY <1>2 DEF Tick
<1>3. CASE Fail(s)
  BY <1>3 DEF Fail
<1>4. CASE PutFails(s)
  BY <1>4, <1>1 DEF PutFails
<1>5. ASSUME NEW e \in Ends, Lookup(s, e)
      PROVE  /\ UNCHANGED <<disp, edit, receipt>>
             /\ clash \subseteq clash' /\ ("edits" \in clash' => "edits" \in clash)
  BY <1>5 DEF Lookup
<1>6. ASSUME NEW e \in Ends, Ask(s, e)
      PROVE  /\ UNCHANGED <<disp, edit, receipt>>
             /\ clash \subseteq clash' /\ ("edits" \in clash' => "edits" \in clash)
  BY <1>6, <1>1 DEF Ask
<1> QED
  BY <1>2, <1>3, <1>4, <1>5, <1>6

(* The invariant of rows and receipts is kept by every step. *)
LEMMA PrevailStep ==
    ASSUME RowShapes, PrevailInv, [SweepNext]_sweepVars
    PROVE  RowShapes' /\ PrevailInv'
<1> USE DEF RowShapes, PrevailInv, CopyIsCurrent, ReceiptsPrevail
<1>1. CASE UNCHANGED sweepVars
  BY <1>1 DEF sweepVars
<1>2. ASSUME NEW s \in Sweep,
             \/ Tick(s) \/ Fail(s) \/ PutFails(s)
             \/ \E e \in Ends : Lookup(s, e) \/ Ask(s, e)
      PROVE  RowShapes' /\ PrevailInv'
  <2>1. /\ UNCHANGED <<disp, edit, receipt>>
        /\ "edits" \in clash' => "edits" \in clash
        /\ clash \subseteq clash'
    BY <1>2, SweepsLeaveRows
  <2> QED
    BY <2>1
<1>3. ASSUME NEW s \in Sweep, NEW e \in Ends, Write(s, e)
      PROVE  RowShapes' /\ PrevailInv'
  <2> DEFINE b == sweep[s].row.id
  <2>1. /\ disp' = IF disp[b][e] = Null THEN [disp EXCEPT ![b][e] = sweep[s].got[e]] ELSE disp
        /\ clash' = IF edit # Null /\ edit.id = b /\ disp' # disp
                    THEN clash \cup {"edits"} ELSE clash
        /\ UNCHANGED <<edit, receipt>>
    BY <1>3 DEF Write, Written
  <2> HIDE DEF b
  <2>2. CASE disp' = disp
    BY <2>1, <2>2
  <2>3. CASE disp' # disp
    <3>1. disp[b][e] = Null /\ disp' = [disp EXCEPT ![b][e] = sweep[s].got[e]]
      BY <2>1, <2>3
    <3>2. RowShapes'
      BY <3>1, <2>1
    <3>3. \A a \in Activity, f \in Ends :
             disp[a][f] # Null => disp'[a][f] = disp[a][f]
      BY <3>1
    <3>4. ReceiptsPrevail'
      BY <3>3, <2>1
    <3>5. CopyIsCurrent'
      BY <3>1, <2>1
    <3> QED
      BY <3>2, <3>4, <3>5
  <2> QED
    BY <2>2, <2>3
<1>4. ASSUME NEW a \in Activity, EnrichFromReceipt(a)
      PROVE  RowShapes' /\ PrevailInv'
  <2> DEFINE Given(f, given) == [e \in Ends |-> IF e \in given THEN "receipt" ELSE f[e]]
  <2>1. PICK given \in SUBSET Ends :
           /\ disp' = [disp EXCEPT ![a] = Given(disp[a], given)]
           /\ receipt' = [receipt EXCEPT ![a] = Given(receipt[a], given)]
    BY <1>4 DEF EnrichFromReceipt
  <2>2. /\ clash' = IF edit # Null /\ edit.id = a THEN clash \cup {"edits"} ELSE clash
        /\ UNCHANGED edit
    BY <1>4 DEF EnrichFromReceipt, During
  <2>3. \A e \in Ends :
           /\ Given(disp[a], given)[e] = IF e \in given THEN "receipt" ELSE disp[a][e]
           /\ Given(receipt[a], given)[e] = IF e \in given THEN "receipt" ELSE receipt[a][e]
    OBVIOUS
  <2> HIDE DEF Given
  <2>4. \A b \in Activity :
           /\ disp'[b] = IF b = a THEN Given(disp[a], given) ELSE disp[b]
           /\ receipt'[b] = IF b = a THEN Given(receipt[a], given) ELSE receipt[b]
    BY <2>1
  <2>5. RowShapes'
    BY <2>1, <2>2
  <2>6. ReceiptsPrevail'
    BY <2>2, <2>3, <2>4
  <2>7. CopyIsCurrent'
    BY <2>2, <2>4
  <2> QED
    BY <2>5, <2>6, <2>7
<1>5. ASSUME NEW a \in Activity, UpdateActivity(a)
      PROVE  RowShapes' /\ PrevailInv'
  BY <1>5 DEF UpdateActivity
<1>6. CASE SaveEdit
  BY <1>6 DEF SaveEdit
<1> QED
  BY <1>1, <1>2, <1>3, <1>4, <1>5, <1>6 DEF SweepNext, Work

(* Counting a call keeps the counters numbers. *)
LEMMA CountedCalls ==
    ASSUME NEW C, NEW f \in [C -> Nat], NEW g, NEW c, g = [f EXCEPT ![c] = @ + 1]
    PROVE  g \in [C -> Nat]
<1>1. ASSUME NEW d \in C PROVE g[d] \in Nat
  <2>1. CASE d = c
    BY <2>1
  <2>2. CASE d # c
    BY <2>2
  <2> QED
    BY <2>1, <2>2
<1> QED
  BY <1>1

(* The invariant of cache and calls is kept by every step. *)
LEMMA PaidStep ==
    ASSUME SweepShapes, PaidInv, [SweepNext]_sweepVars
    PROVE  SweepShapes' /\ PaidInv'
<1> USE DEF SweepShapes
<1>1. CASE UNCHANGED sweepVars
  BY <1>1 DEF sweepVars, PaidInv, Sweeping, PlaceOf
<1>2. ASSUME UNCHANGED <<sweep, cache, calls, faults>>, clash \subseteq clash'
      PROVE  SweepShapes' /\ PaidInv'
  BY <1>2 DEF PaidInv, Sweeping, PlaceOf
\* A statement after which the sweep does not ask, and that pays nothing.
<1>3. ASSUME NEW s \in Sweep, NEW w, sweep' = [sweep EXCEPT ![s] = w],
             IsSweep(w), w.at # "ask",
             UNCHANGED <<cache, calls>>, faults' \in {faults, faults + 1}, clash \subseteq clash'
      PROVE  SweepShapes' /\ PaidInv'
  <2>1. SweepShapes'
    BY <1>3
  <2>2. \A t \in Sweep : sweep'[t] = IF t = s THEN w ELSE sweep[t]
    BY <1>3
  <2>3. ASSUME "lookups" \notin clash', faults' = 0
        PROVE  "lookups" \notin clash /\ faults = 0
    BY <1>3, <2>3
  <2> QED
    BY <1>3, <2>1, <2>2, <2>3 DEF PaidInv, Sweeping, PlaceOf
<1>4. ASSUME NEW s \in Sweep, NEW e \in Ends, Lookup(s, e)
      PROVE  SweepShapes' /\ PaidInv'
  <2> DEFINE c == PlaceOf(s, e)
  <2>1. CASE c \in cache
    <3> DEFINE w == Past([sweep[s] EXCEPT !.got[e] = c], "look", e)
    <3>1. sweep' = [sweep EXCEPT ![s] = w] /\ UNCHANGED <<cache, calls, faults, clash>>
      BY <1>4, <2>1 DEF Lookup, Cached
    <3>2. IsSweep(w) /\ w.at # "ask"
      BY PastLooksFirst
    <3> HIDE DEF w
    <3> QED
      BY <3>1, <3>2, <1>3
  <2>2. CASE c \notin cache
    <3>1. /\ sweep' = [sweep EXCEPT ![s] = [@ EXCEPT !.at = "ask"]]
          /\ sweep[s].end = e
          /\ UNCHANGED <<cache, calls, faults, clash>>
      BY <1>4, <2>2 DEF Lookup, Cached, Sweeping
    <3>2. sweep'[s] = [sweep[s] EXCEPT !.at = "ask"] /\ \A t \in Sweep \ {s} : sweep'[t] = sweep[t]
      BY <3>1
    <3>3. IsSweep(sweep'[s]) /\ sweep'[s].end = e /\ sweep'[s].row = sweep[s].row
      BY <3>1, <3>2 DEF IsSweep
    <3>4. SweepShapes'
      BY <3>1, <3>2, <3>3
    <3> QED
      BY <3>1, <3>2, <3>3, <3>4, <2>2 DEF PaidInv, Sweeping, PlaceOf
  <2> QED
    BY <2>1, <2>2
<1>5. ASSUME NEW s \in Sweep, NEW e \in Ends, Ask(s, e)
      PROVE  SweepShapes' /\ PaidInv'
  <2> DEFINE c == PlaceOf(s, e)
             u == [sweep[s] EXCEPT !.got[e] = c]
             w == IF c \in Known THEN Past(u, "look", e) ELSE Past(sweep[s], "look", e)
  <2>1. Answered(s, e, {c}) /\ UNCHANGED faults
    BY <1>5 DEF Ask
  <2>2. IsSweep(w) /\ w.at # "ask"
    BY PastLooksFirst
  <2>3. CASE c \notin Known
    <3>1. sweep' = [sweep EXCEPT ![s] = w] /\ UNCHANGED <<cache, calls, clash>>
      BY <2>1, <2>3 DEF Answered
    <3> HIDE DEF w
    <3> QED
      BY <3>1, <2>1, <2>2, <1>3
  <2>4. CASE c \in Known
    <3>1. /\ sweep' = [sweep EXCEPT ![s] = w]
          /\ cache' = cache \cup {c}
          /\ calls' = [calls EXCEPT ![c] = @ + 1]
          /\ Sweeping(s, "ask", e)
      BY <2>1, <2>4 DEF Answered
    <3>2. clash' = IF \E t \in Sweep \ {s}, f \in Ends :
                         Sweeping(t, "ask", f) /\ PlaceOf(t, f) = c
                   THEN clash \cup {"lookups"} ELSE clash
      BY <2>1, <2>4 DEF Answered
    <3> HIDE DEF w
    <3>3. \A t \in Sweep : sweep'[t] = IF t = s THEN w ELSE sweep[t]
      BY <3>1
    <3> HIDE DEF c
    <3>4. SweepShapes'
      <4>1. calls' \in [Coord -> Nat]
        BY <3>1, CountedCalls
      <4> QED
        BY <3>1, <3>3, <4>1, <2>1, <2>2
    <3> USE DEF c
    <3>5. ASSUME "lookups" \notin clash', faults' = 0
          PROVE  /\ \A d \in Coord : calls'[d] <= 1 /\ (calls'[d] > 0 => d \in cache')
                 /\ \A t \in Sweep, f \in Ends :
                      sweep'[t].at = "ask" /\ sweep'[t].end = f => Place[sweep'[t].row.id][f] \notin cache'
      <4>1. "lookups" \notin clash /\ faults = 0
        BY <2>1, <3>2, <3>5
      <4>2. c \notin cache
        BY <3>1, <4>1 DEF PaidInv
      <4>3. \A d \in Coord : d # c => calls'[d] = calls[d]
        BY <3>1
      <4>4. c \in Coord => calls[c] = 0 /\ calls'[c] = 1
        BY <3>1, <4>1, <4>2 DEF PaidInv
      <4>5. ASSUME NEW t \in Sweep, NEW f \in Ends, sweep'[t].at = "ask", sweep'[t].end = f
            PROVE  Place[sweep'[t].row.id][f] \notin cache'
        <5>1. t # s /\ sweep'[t] = sweep[t]
          BY <3>3, <4>5, <2>2
        <5>2. Sweeping(t, "ask", f)
          BY <4>5, <5>1 DEF Sweeping
        <5>3. PlaceOf(t, f) # c
          BY <5>1, <5>2, <3>2, <3>5
        <5>4. PlaceOf(t, f) \notin cache
          BY <5>2, <4>1 DEF PaidInv
        <5> HIDE DEF c
        <5> QED
          BY <5>1, <5>3, <5>4, <3>1 DEF PlaceOf
      <4> HIDE DEF c
      <4> QED
        BY <4>1, <4>3, <4>4, <4>5, <3>1 DEF PaidInv
    <3> QED
      BY <3>4, <3>5 DEF PaidInv, Sweeping, PlaceOf
  <2> QED
    BY <2>3, <2>4
<1>6. ASSUME NEW s \in Sweep, NEW e \in Ends, Write(s, e)
      PROVE  SweepShapes' /\ PaidInv'
  <2> DEFINE w == Past(sweep[s], "write", e)
  <2>1. sweep' = [sweep EXCEPT ![s] = w] /\ UNCHANGED <<cache, calls, faults>> /\ clash \subseteq clash'
    BY <1>6 DEF Write, Written
  <2>2. IsSweep(w) /\ w.at # "ask"
    BY PastLooksFirst
  <2> HIDE DEF w
  <2> QED
    BY <2>1, <2>2, <1>3
<1>7. ASSUME NEW s \in Sweep, Tick(s)
      PROVE  SweepShapes' /\ PaidInv'
  <2>1. PICK batch : sweep' = [sweep EXCEPT ![s] = Leave(batch)]
    BY <1>7 DEF Tick
  <2> DEFINE w == Leave(batch)
  <2>2. IsSweep(w) /\ w.at # "ask"
    BY LeaveLooksFirst
  <2>3. sweep' = [sweep EXCEPT ![s] = w]
    BY <2>1
  <2>4. UNCHANGED <<cache, calls, faults, clash>>
    BY <1>7 DEF Tick
  <2> HIDE DEF w
  <2> QED
    BY <2>2, <2>3, <2>4, <1>3
\* After a fault nothing is promised but the shape.
<1>8. ASSUME NEW s \in Sweep, Fail(s) \/ PutFails(s)
      PROVE  SweepShapes' /\ PaidInv'
  <2>1. faults' = faults + 1
    BY <1>8 DEF Fail, PutFails
  <2>2. PaidInv'
    BY <2>1 DEF PaidInv
  <2>3. ASSUME NEW w, sweep' = [sweep EXCEPT ![s] = w], IsSweep(w), calls' \in [Coord -> Nat]
        PROVE  SweepShapes'
    <3>1. \A t \in Sweep : sweep'[t] = IF t = s THEN w ELSE sweep[t]
      BY <2>3
    <3> QED
      BY <2>1, <2>3, <3>1
  <2>4. CASE PutFails(s)
    <3>1. PICK e \in Ends : Answered(s, e, {}) /\ PlaceOf(s, e) \in Known
      BY <2>4 DEF PutFails
    <3> DEFINE c == PlaceOf(s, e)
               u == [sweep[s] EXCEPT !.got[e] = c]
               w == Past(u, "look", e)
    <3>2. sweep' = [sweep EXCEPT ![s] = w] /\ calls' = [calls EXCEPT ![c] = @ + 1]
      BY <3>1 DEF Answered
    <3>3. IsSweep(w)
      BY PastLooksFirst
    <3> HIDE DEF w, c
    <3> QED
      BY <3>2, <3>3, <2>2, <2>3, CountedCalls
  <2>5. CASE Fail(s)
    <3>1. calls' = calls
      BY <2>5 DEF Fail
    <3>2. CASE sweep' = [sweep EXCEPT ![s].at = "ask"]
      <4>1. \A t \in Sweep : sweep'[t] = IF t = s THEN [sweep[s] EXCEPT !.at = "ask"] ELSE sweep[t]
        BY <3>2
      <4>2. IsSweep([sweep[s] EXCEPT !.at = "ask"])
        BY DEF IsSweep
      <4> QED
        BY <3>1, <3>2, <4>1, <4>2, <2>1, <2>2
    <3>3. ASSUME NEW e \in Ends, sweep' = [sweep EXCEPT ![s] = Past(@, "look", e)]
          PROVE  SweepShapes'
      BY <3>1, <3>3, <2>3, PastLooksFirst
    <3>4. CASE sweep' = [sweep EXCEPT ![s] = Leave(@.todo)]
      BY <3>1, <3>4, <2>2, <2>3, LeaveLooksFirst
    <3>5. CASE sweep' = [sweep EXCEPT ![s] = NoSweep]
      BY <3>1, <3>5, <2>2, <2>3 DEF IsSweep, NoSweep
    <3> QED
      BY <2>2, <2>5, <3>2, <3>3, <3>4, <3>5 DEF Fail
  <2> QED
    BY <1>8, <2>2, <2>4, <2>5
<1>9. ASSUME NEW a \in Activity,
             EnrichFromReceipt(a) \/ UpdateActivity(a)
      PROVE  SweepShapes' /\ PaidInv'
  BY <1>9, <1>2 DEF EnrichFromReceipt, UpdateActivity, During
<1>10. CASE SaveEdit
  BY <1>10, <1>2 DEF SaveEdit
<1> QED
  BY <1>1, <1>4, <1>5, <1>6, <1>7, <1>8, <1>9, <1>10 DEF SweepNext, Work

(* An address that a receipt gave stays until another receipt replaces it,  *)
(* whatever sweeps overlap or fail, unless an edit that had read the row    *)
(* before saved it (activity_repository.go 180-195).                       *)
THEOREM ReceiptsStay == SweepSpec => []ReceiptsPrevail
<1>1. SweepInit => RowShapes /\ PrevailInv
  BY DEF SweepInit, RowShapes, PrevailInv, CopyIsCurrent, ReceiptsPrevail, Nothing
<1>2. RowShapes /\ PrevailInv /\ [SweepNext]_sweepVars => RowShapes' /\ PrevailInv'
  BY PrevailStep
<1>3. PrevailInv => ReceiptsPrevail
  BY DEF PrevailInv
<1> QED
  BY <1>1, <1>2, <1>3, PTL DEF SweepSpec

(* While nothing fails, Google is paid once for a place, for any number of  *)
(* sweeps and rows, unless two of them looked it up at the same time.      *)
THEOREM PlacesPaidOnce == SweepSpec => []PaidOnce
<1>1. SweepInit => SweepShapes /\ PaidInv
  BY DEF SweepInit, SweepShapes, PaidInv, IsSweep, NoSweep, Sweeping
<1>2. SweepShapes /\ PaidInv /\ [SweepNext]_sweepVars => SweepShapes' /\ PaidInv'
  BY PaidStep
<1>3. PaidInv => PaidOnce
  BY DEF PaidInv, PaidOnce
<1> QED
  BY <1>1, <1>2, <1>3, PTL DEF SweepSpec
=============================================================================
