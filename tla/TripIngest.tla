----------------------------- MODULE TripIngest -----------------------------
(***************************************************************************)
(* Ingestion with deduplication: every input (a GPS trip, a receipt found  *)
(* in the mail, a trip posted with another source) is to end in one row of *)
(* the activities table, and a GPS trip and a receipt of the same journey  *)
(* in the same row.  Inputs may be delivered again at any time, and        *)
(* requests overlap; each database statement is one step.                  *)
(*                                                                         *)
(* A receipt is identified by its message id, which is both its receipt_id *)
(* and (prefixed) its idempotency key; the key of any other input, sent by *)
(* the client or derived from the input, is the same at every delivery.    *)
(* Left out: columns no decision reads (fare, distance, provider, route    *)
(* labels and their backfill), and the published events (EmissionPipeline).*)
(***************************************************************************)
EXTENDS TripMatcher

CONSTANTS
    Id,            \* ids a new row may get
    Input,         \* what clients and mailboxes deliver, any number of times
    Kind,          \* the source of each input
    TripOf,        \* the trip each input describes
    NewStart,      \* the starting times a client may set in an update
    Request        \* requests that can be in progress

VARIABLES
    rows,          \* the activities table
    born,          \* history: the input each id was created for
    req,           \* where each request is
    accepted       \* history: inputs answered as stored, not deleted since

vars == <<rows, born, req, accepted>>

-----------------------------------------------------------------------------
(* Types *)

Time == Int

Trip == [start : Time, end : Time \cup {None}, dur : Nat \cup {None},
         mode : STRING, from : Int \cup {None}, to : Int \cup {None}]

Kinds == {"gps", "gmail", "posted", "manual"}

ASSUME InputAssumption ==
    /\ Kind \in [Input -> Kinds]
    /\ TripOf \in [Input -> Trip]
    /\ NewStart \subseteq Time
    /\ None \notin Input

Source == Kinds \cup {"gps+receipt"}

\* Mutant: rows merged already are not candidates for a GPS trip.
UnmergedReceiptSource == {"gmail", "posted"}

\* isReceiptSource
ReceiptSource == {"gmail", "posted", "gps+receipt"}

\* A row; "from" is history: the inputs whose data it holds.
Row == [trip : Trip, source : Source, key : Input, receipt : Input \cup {None},
        review : BOOLEAN, from : SUBSET Input]

ASSUME NoneIsNoRow == None \notin Row

\* The columns of a trip a merge sets; None: left as they are.
Patch == [dur : Nat \cup {None}, from : Int \cup {None}, to : Int \cup {None}]

Job ==
    [pc : {"idle"}]
        \cup [pc : {"receipt", "key", "match"}, in : Input]
        \cup [pc : {"enrich"}, in : Input, act : Id, patch : Patch]
        \cup [pc : {"refetch"}, in : Input, act : Id]
        \cup [pc : {"create"}, in : Input, review : BOOLEAN]
        \cup [pc : {"save"}, act : Id, row : Row]

(* Every variable holds a value of its type. *)
IngestTypeOK ==
    /\ rows \in [Id -> Row \cup {None}]
    /\ born \in [Id -> Input \cup {None}]
    /\ req \in [Request -> Job]
    /\ accepted \subseteq Input

-----------------------------------------------------------------------------
(* Ingest and IngestWithDedup *)

Idle == [pc |-> "idle"]

Live == {a \in Id : rows[a] # None}

Holds(a, i) == a \in Live /\ i \in rows[a].from

Init ==
    /\ rows = [a \in Id |-> None]
    /\ born = [a \in Id |-> None]
    /\ req = [r \in Request |-> Idle]
    /\ accepted = {}

Goto(r, j) == req' = [req EXCEPT ![r] = j]

\* Only receipts from the mail have a receipt_id to look up first.
Receive(r, i) ==
    /\ req[r] = Idle
    /\ Goto(r, [pc |-> IF Kind[i] = "gmail" THEN "receipt" ELSE "key", in |-> i])
    /\ UNCHANGED <<rows, born, accepted>>

FindByReceiptID(i) == {a \in Live : rows[a].receipt = i}

\* ErrDuplicate if there is one.
CheckReceipt(r) ==
    /\ req[r].pc = "receipt"
    /\ Goto(r, IF FindByReceiptID(req[r].in) # {}
               THEN Idle
               ELSE [pc |-> "key", in |-> req[r].in])
    /\ UNCHANGED <<rows, born, accepted>>

ExistsByIdempotencyKey(i) == \E a \in Live : rows[a].key = i

\* ErrDuplicate; else receipts and GPS trips look for a trip to merge into.
CheckKey(r) ==
    LET i == req[r].in IN
    /\ req[r].pc = "key"
    /\ Goto(r, IF ExistsByIdempotencyKey(i) THEN Idle
               ELSE IF Kind[i] \in {"gps", "gmail"} THEN [pc |-> "match", in |-> i]
               ELSE [pc |-> "create", in |-> i, review |-> FALSE])
    /\ UNCHANGED <<rows, born, accepted>>

\* Mutant: GPS trips look at rows of GPS trips only.
NoReceiptCandidates(i) ==
    {a \in Live :
        /\ rows[a].source = "gps"
        /\ InWindow(TripOf[i], rows[a].trip)}

\* Mutant: receipts also look at rows that have a receipt already.
AnyCandidates(i) ==
    {a \in Live :
        /\ rows[a].source \in IF Kind[i] = "gps" THEN ReceiptSource
                                                 ELSE {"gps", "gps+receipt"}
        /\ InWindow(TripOf[i], rows[a].trip)}

Candidates(i) ==
    {a \in Live :
        /\ rows[a].source \in IF Kind[i] = "gps" THEN ReceiptSource ELSE {"gps"}
        /\ InWindow(TripOf[i], rows[a].trip)}

\* The candidates of highest confidence: the first that the query returns is
\* taken, in no particular order.
Best(i) ==
    LET conf(a) == Score(TripOf[i], rows[a].trip).conf
    IN  {a \in Candidates(i) : \A b \in Candidates(i) : conf(b) <= conf(a)}

\* A receipt gives its duration, and coordinates that the row did not have.
ReceiptPatch(t, c) ==
    [dur  |-> t.dur,
     from |-> IF c.from = None THEN t.from ELSE None,
     to   |-> IF c.to = None THEN t.to ELSE None]

\* A GPS trip gives the coordinates it has.
GPSPatch(t) == [dur |-> None, from |-> t.from, to |-> t.to]

PatchFor(i, a) ==
    IF Kind[i] = "gps" THEN GPSPatch(TripOf[i]) ELSE ReceiptPatch(TripOf[i], rows[a].trip)

\* The best candidate is merged into if it is certain enough, else a row is
\* created, for review if the candidate came close.
Match(r) ==
    LET i == req[r].in IN
    /\ req[r].pc = "match"
    /\ \/ \E a \in Best(i) :
            Goto(r, IF SameTrip(TripOf[i], rows[a].trip)
                    THEN [pc |-> "enrich", in |-> i, act |-> a, patch |-> PatchFor(i, a)]
                    ELSE [pc |-> "create", in |-> i,
                          review |-> Score(TripOf[i], rows[a].trip).conf >= ThresholdReview])
       \/ /\ Best(i) = {}
          /\ Goto(r, [pc |-> "create", in |-> i, review |-> FALSE])
    /\ UNCHANGED <<rows, born, accepted>>

Patched(t, p) ==
    [t EXCEPT !.dur  = IF p.dur = None THEN @ ELSE p.dur,
              !.from = IF p.from = None THEN @ ELSE p.from,
              !.to   = IF p.to = None THEN @ ELSE p.to]

\* Mutant: the merged input is all the row holds.
MergedReplacingAll(row, i, p) ==
    [row EXCEPT !.trip = Patched(@, p),
                !.source = "gps+receipt",
                !.receipt = IF Kind[i] = "gmail" THEN i ELSE @,
                !.from = {i}]

\* Mutant: the receipt's id is not stored.
MergedForgettingReceipt(row, i, p) ==
    [row EXCEPT !.trip = Patched(@, p),
                !.source = "gps+receipt",
                !.from = (IF Kind[i] = "gmail"
                          THEN {j \in @ : Kind[j] # "gmail"} ELSE @) \cup {i}]

\* A merged receipt replaces one the row had.
Merged(row, i, p) ==
    [row EXCEPT !.trip = Patched(@, p),
                !.source = "gps+receipt",
                !.receipt = IF Kind[i] = "gmail" THEN i ELSE @,
                !.from = (IF Kind[i] = "gmail"
                          THEN {j \in @ : Kind[j] # "gmail"} ELSE @) \cup {i}]

\* Mutant: no unique index on receipt_id.
KeyConflicts(a, row) == \E b \in Live \ {a} : rows[b].key = row.key

\* The two unique indexes, idempotency_key and receipt_id, of another row.
Conflicts(a, row) ==
    \E b \in Live \ {a} :
        \/ rows[b].key = row.key
        \/ row.receipt # None /\ rows[b].receipt = row.receipt

\* EnrichFromReceipt: UPDATE ... WHERE id, an error if the receipt is in
\* another row, no effect if the row is gone.
Enrich(r) ==
    LET j == req[r]
        row == Merged(rows[j.act], j.in, j.patch)
    IN  /\ j.pc = "enrich"
        /\ IF j.act \in Live /\ Conflicts(j.act, row)
           THEN Goto(r, Idle) /\ UNCHANGED rows
           ELSE /\ Goto(r, [pc |-> "refetch", in |-> j.in, act |-> j.act])
                /\ rows' = IF j.act \in Live THEN [rows EXCEPT ![j.act] = row] ELSE rows
        /\ UNCHANGED <<born, accepted>>

\* The merged row is read back and answered, or an error if it is gone.
Refetch(r) ==
    /\ req[r].pc = "refetch"
    /\ accepted' = IF req[r].act \in Live THEN accepted \cup {req[r].in} ELSE accepted
    /\ Goto(r, Idle)
    /\ UNCHANGED <<rows, born>>

NewRow(i, review) ==
    [trip |-> TripOf[i], source |-> Kind[i], key |-> i,
     receipt |-> IF Kind[i] = "gmail" THEN i ELSE None,
     review |-> review, from |-> {i}]

Create(r, a) ==
    LET row == NewRow(req[r].in, req[r].review) IN
    /\ req[r].pc = "create"
    /\ born[a] = None
    /\ Goto(r, Idle)
    /\ IF Conflicts(a, row)
       THEN UNCHANGED <<rows, born, accepted>>
       ELSE /\ rows' = [rows EXCEPT ![a] = row]
            /\ born' = [born EXCEPT ![a] = req[r].in]
            /\ accepted' = accepted \cup {req[r].in}

-----------------------------------------------------------------------------
(* What else changes rows, and what ends requests *)

\* UpdateActivity reads the row and saves all its columns; the end of the trip
\* is not among those a client can change.
FindForUpdate(r, a) ==
    /\ req[r] = Idle
    /\ a \in Live
    /\ \E s \in NewStart \cup {rows[a].trip.start} :
          Goto(r, [pc |-> "save", act |-> a, row |-> [rows[a] EXCEPT !.trip.start = s]])
    /\ UNCHANGED <<rows, born, accepted>>

Save(r) ==
    LET j == req[r] IN
    /\ j.pc = "save"
    /\ Goto(r, Idle)
    /\ rows' = IF Conflicts(j.act, j.row) THEN rows ELSE [rows EXCEPT ![j.act] = j.row]
    /\ UNCHANGED <<born, accepted>>

\* DeleteActivity: its first read only serves the event.
DeleteActivity(r, a) ==
    /\ req[r] = Idle
    /\ a \in Live
    /\ accepted' = accepted \ rows[a].from
    /\ rows' = [rows EXCEPT ![a] = None]
    /\ UNCHANGED <<born, req>>

\* A statement fails, or the process crashes.
Abort(r) ==
    /\ req[r] # Idle
    /\ Goto(r, Idle)
    /\ UNCHANGED <<rows, born, accepted>>

Next ==
    \E r \in Request :
        \/ \E i \in Input : Receive(r, i)
        \/ CheckReceipt(r)
        \/ CheckKey(r)
        \/ Match(r)
        \/ Enrich(r)
        \/ Refetch(r)
        \/ \E a \in Id : Create(r, a) \/ FindForUpdate(r, a) \/ DeleteActivity(r, a)
        \/ Save(r)
        \/ Abort(r)

Spec == Init /\ [][Next]_vars

-----------------------------------------------------------------------------
(* Properties *)

(* Redelivery is recognised, whatever overlaps: a row's idempotency key is   *)
(* that of an input it holds, so ErrDuplicate is answered only for stored    *)
(* inputs; and a receipt in a row is that row's receipt_id, also after       *)
(* merges, stale saves and replaced receipts.                                *)
DuplicatesAreStored ==
    \A a \in Live :
        /\ rows[a].key \in rows[a].from
        /\ rows[a].receipt # None => rows[a].receipt \in rows[a].from
        /\ \A i \in rows[a].from : Kind[i] = "gmail" => rows[a].receipt = i

(* No two rows ever hold the same receipt, whatever overlaps: no ride is     *)
(* counted twice because its message was processed twice.                    *)
ReceiptsInOneRow ==
    \A a, b \in Live : \A i \in rows[a].from \cap rows[b].from :
        Kind[i] = "gmail" => a = b

(* A ride that was answered as stored stays in some row until the user       *)
(* deletes it.                                                               *)
RidesAreKept == \A i \in accepted : \E a \in Id : Holds(a, i)

(* No GPS trip is left beside the receipt of its journey: of two rows that   *)
(* the matcher would merge automatically there is only one                   *)
(* (activity_service.go 77-78 and 129-136).                                  *)
OneRowPerJourney ==
    \A a, b \in Live :
        rows[a].source = "gps" /\ rows[b].source = "gmail"
            => ~SameTrip(rows[a].trip, rows[b].trip)

(* An input that some row holds never gets a row of its own: GPS trips that  *)
(* were merged are merged again (activity_service.go 509-512).               *)
RetriesAddNoRow ==
    [][\A i \in Input, a \in Id \ Live :
          (\E b \in Id : Holds(b, i)) /\ rows'[a] # None => rows'[a].key # i]_vars

(* The rows divide the stored inputs into journeys.                          *)
Partition == INSTANCE TripPartition
    WITH Receipts <- {i \in Input : Kind[i] = "gmail"},
         journeys <- {rows[a].from : a \in Live}

(* The rows implement that partition. *)
ImplementsPartition == Partition!Spec
-----------------------------------------------------------------------------
(* When the properties hold: conditions on what is delivered that the        *)
(* program does not enforce (each is needed; MCTripIngest has examples of    *)
(* what happens without).                                                    *)

(* The requests of the user do not overlap. *)
Serial == \A r, s \in Request : r = s

Matchable(i) == Kind[i] \in {"gps", "gmail", "posted"}

Finished(t) == HasKnownEnd(t) /\ (t.dur # None => t.dur <= OpenSession)

(* Every trip that takes part in matching has an end, within a day, and a    *)
(* destination.                                                              *)
Located == \A i \in Input : Matchable(i) => Finished(TripOf[i]) /\ TripOf[i].to # None

(* The inputs that belong into a row with k. *)
Together(Journey, k) == {l \in Input : Matchable(l) /\ Journey[l] = Journey[k]}

(* What the trip of a row of key k can become by merging inputs of its      *)
(* journey.                                                                  *)
Blend(Journey, k) ==
    LET own == TripOf[k]
        given(column) == {TripOf[l][column] : l \in Together(Journey, k)} \ {None}
    IN  [start : {own.start}, end : {own.end}, mode : {own.mode},
         dur   : {own.dur} \cup given("dur"),
         from  : {own.from} \cup given("from"),
         to    : {own.to} \cup given("to")]

(* The scores tell the journeys of the user apart: a journey has one receipt *)
(* at most, and a GPS trip matches every row that its journey can have, and  *)
(* is below the lower threshold for the rows of other journeys.              *)
Recognisable(Journey) ==
    /\ \A k, l \in Input :
          /\ Kind[k] \in {"gmail", "posted"} /\ Kind[l] \in {"gmail", "posted"}
          /\ Journey[k] = Journey[l]
          => k = l
    /\ \A i \in Input : Matchable(i) => Finished(TripOf[i])
    /\ \A i, k \in Input : Kind[i] = "gps" /\ Matchable(k) /\ k # i =>
          \A t \in Blend(Journey, k) :
             IF Journey[i] = Journey[k] THEN SameTrip(TripOf[i], t)
                                        ELSE Score(TripOf[i], t).conf < 650
=============================================================================
