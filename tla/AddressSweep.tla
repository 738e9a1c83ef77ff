---------------------------- MODULE AddressSweep ----------------------------
(***************************************************************************)
(* Short display addresses of activities.  Every 15 minutes the worker     *)
(* sweeps the oldest activities that have coordinates and no address       *)
(* (activity_service.go: BackfillDisplayAddressSweep); the resolver        *)
(* (internal/shortaddress) asks its cache, then Google.  cron starts a     *)
(* tick beside one that still runs, so sweeps overlap.  Meanwhile receipts *)
(* are merged into rows and the user's edits save rows whole.              *)
(*                                                                         *)
(* Activities are numbered as they were created.  A coordinate stands for  *)
(* the cell of about 11 m that the cache rounds to, and for its address.   *)
(***************************************************************************)
EXTENDS Integers, Sequences, FiniteSets, FiniteSetsExt

CONSTANTS
    Place,          \* Place[a]: the coordinates of both ends, Null if unknown
    Known,          \* coordinates for which Google has an address
    Sweep,          \* sweeps that may overlap
    Limit,          \* displayBackfillBatchSize
    MaxWrites,      \* bound on receipts and edits
    MaxFaults,      \* bound on the statements and calls that fail
    Null

Activity == DOMAIN Place
Ends == {"origin", "destination"}
Coord == {Place[a][e] : a \in Activity, e \in Ends} \ {Null}

ASSUME AddressAssumption ==
    /\ Activity = 1..Cardinality(Activity) /\ IsFiniteSet(Activity)
    /\ Limit \in Nat \ {0} /\ MaxWrites \in Nat /\ MaxFaults \in Nat
    /\ Known \subseteq Coord /\ Null \notin Known

VARIABLES
    disp,       \* display_origin and display_destination of each activity
    cache,      \* rows of geocode_cache
    sweep,      \* sweeps in progress
    edit,       \* an UpdateActivity between read and save, or Null
    writes, faults,
    calls,      \* history: answers of Google for a coordinate
    receipt,    \* history: addresses the receipts gave
    clash       \* history: an edit overlapped a write, lookups overlapped

sweepVars == <<disp, cache, sweep, edit, writes, faults, calls, receipt, clash>>

Needs(a, e) == disp[a][e] = Null /\ Place[a][e] # Null
(* Mutant: only the origin counts. *)
NeedingOrigin == {a \in Activity : Needs(a, "origin")}
(* FindNeedingDisplayBackfill: oldest first, at most Limit. *)
Needing == {a \in Activity : \E e \in Ends : Needs(a, e)}
Batch == {a \in Needing : Cardinality(Needing \cap 1..a) <= Limit}

(* A sweep: the rest of its batch, the row it is at as it was read, the      *)
(* statement to come and the end it is about, and the addresses found.     *)
Nothing == [e \in Ends |-> Null]
NoSweep == [todo |-> {}, row |-> Null, at |-> "idle", end |-> "origin", got |-> Nothing]
Resting(s) == sweep[s].at = "idle"
Sweeping(s, step, e) == sweep[s].at = step /\ sweep[s].end = e

(* What is done with a row: the ends that were missing when it was read are *)
(* looked up, then those that were found are written.                      *)
Stages == << [at |-> "look", end |-> "origin"], [at |-> "look", end |-> "destination"],
             [at |-> "write", end |-> "origin"], [at |-> "write", end |-> "destination"] >>
Left(w, k) ==
    {i \in k..4 : IF i <= 2 THEN Stages[i].end \in w.row.missing
                            ELSE w.got[Stages[i].end] # Null}
Start(w, i) ==
    [todo |-> w.todo, row |-> w.row, at |-> Stages[i].at, end |-> Stages[i].end, got |-> w.got]
Leave(todo) ==
    IF todo = {} THEN NoSweep
    ELSE LET row == CHOOSE r \in todo : \A q \in todo : r.id <= q.id IN
         Start([todo |-> todo \ {row}, row |-> row, got |-> Nothing],
               IF "origin" \in row.missing THEN 1 ELSE 2)
Onward(w, k) == IF Left(w, k) = {} THEN Leave(w.todo) ELSE Start(w, Min(Left(w, k)))
StageOf(verb, e) == (IF verb = "look" THEN 0 ELSE 2) + (IF e = "origin" THEN 1 ELSE 2)
Past(w, verb, e) == Onward(w, StageOf(verb, e) + 1)

SweepInit ==
    /\ disp = [a \in Activity |-> Nothing]
    /\ cache = {} /\ sweep = [s \in Sweep |-> NoSweep] /\ edit = Null
    /\ writes = 0 /\ faults = 0
    /\ calls = [c \in Coord |-> 0] /\ receipt = [a \in Activity |-> Nothing]
    /\ clash = {}

(* A tick of cron.  The copies of the rows hold what is missing. *)
Copy(a) == [id |-> a, missing |-> {e \in Ends : Needs(a, e)}]
Tick(s) ==
    /\ Resting(s) /\ Needing # {}
    /\ \E rows \in {{Copy(a) : a \in Batch}} : sweep' = [sweep EXCEPT ![s] = Leave(rows)]
    /\ UNCHANGED <<disp, cache, edit, writes, faults, calls, receipt, clash>>

PlaceOf(s, e) == Place[sweep[s].row.id][e]

(* Get *)
Cached(c) == c \in cache

(* Resolve, first part: the cache has the address, or Google must be asked. *)
Lookup(s, e) ==
    /\ Sweeping(s, "look", e)
    /\ sweep' = [sweep EXCEPT ![s] =
         IF Cached(PlaceOf(s, e))
         THEN Past([@ EXCEPT !.got[e] = PlaceOf(s, e)], "look", e)
         ELSE [@ EXCEPT !.at = "ask"]]
    /\ UNCHANGED <<disp, cache, edit, writes, faults, calls, receipt, clash>>

(* Resolve, second part: reverseGeocode and placeDetails, and the answer    *)
(* into the cache; a place without an address is asked for again next time *)
(* (ErrUnavailable).                                                       *)
Answered(s, e, stored) ==
    LET c == PlaceOf(s, e) IN
    /\ Sweeping(s, "ask", e)
    /\ IF c \in Known
       THEN /\ sweep' = [sweep EXCEPT ![s] = Past([@ EXCEPT !.got[e] = c], "look", e)]
            /\ cache' = cache \cup stored
            /\ calls' = [calls EXCEPT ![c] = @ + 1]
            /\ clash' = IF \E t \in Sweep \ {s}, f \in Ends :
                              Sweeping(t, "ask", f) /\ PlaceOf(t, f) = c
                        THEN clash \cup {"lookups"} ELSE clash
       ELSE /\ sweep' = [sweep EXCEPT ![s] = Past(@, "look", e)]
            /\ UNCHANGED <<cache, calls, clash>>
    /\ UNCHANGED <<disp, edit, writes, receipt>>
(* Mutant: the answer is not kept. *)
AskWithoutPut(s, e) == Answered(s, e, {}) /\ UNCHANGED faults
Ask(s, e) == Answered(s, e, {PlaceOf(s, e)}) /\ UNCHANGED faults

(* BackfillDisplayAddress: a conditional UPDATE for each end. *)
Written(s, e, free) ==
    LET a == sweep[s].row.id IN
    /\ Sweeping(s, "write", e)
    /\ disp' = IF free THEN [disp EXCEPT ![a][e] = sweep[s].got[e]] ELSE disp
    /\ sweep' = [sweep EXCEPT ![s] = Past(@, "write", e)]
    /\ clash' = IF edit # Null /\ edit.id = a /\ disp' # disp
                THEN clash \cup {"edits"} ELSE clash
    /\ UNCHANGED <<cache, edit, writes, faults, calls, receipt>>
(* Mutant: the UPDATE does not ask whether the column is NULL. *)
WriteAnyway(s, e) == Written(s, e, TRUE)
Write(s, e) == Written(s, e, disp[sweep[s].row.id][e] = Null)
-----------------------------------------------------------------------------
(* The other writers. *)

Writes == writes < MaxWrites /\ writes' = writes + 1
During(a) == clash' = IF edit # Null /\ edit.id = a THEN clash \cup {"edits"} ELSE clash

(* EnrichFromReceipt: the addresses that the receipt has replace what the   *)
(* row has.                                                                *)
EnrichFromReceipt(a) ==
    /\ Writes /\ During(a)
    /\ \E given \in SUBSET Ends :
         /\ given # {}
         /\ disp' = [disp EXCEPT ![a] = [e \in Ends |-> IF e \in given THEN "receipt" ELSE @[e]]]
         /\ receipt' = [receipt EXCEPT ![a] =
                          [e \in Ends |-> IF e \in given THEN "receipt" ELSE @[e]]]
    /\ UNCHANGED <<cache, sweep, edit, faults, calls>>

(* UpdateActivity: FindByID, then Save of every column. *)
UpdateActivity(a) ==
    /\ edit = Null /\ Writes
    /\ edit' = [id |-> a, disp |-> disp[a]]
    /\ UNCHANGED <<disp, cache, sweep, faults, calls, receipt, clash>>
SaveEdit ==
    /\ edit # Null /\ edit' = Null
    /\ disp' = [disp EXCEPT ![edit.id] = edit.disp]
    /\ UNCHANGED <<cache, sweep, writes, faults, calls, receipt, clash>>

(* The cache cannot be read (a miss), Google fails, an UPDATE fails and the *)
(* rest of the row is left for the next sweep, or the process restarts.    *)
Fail(s) ==
    /\ faults < MaxFaults /\ faults' = faults + 1
    /\ \/ \E e \in Ends :
            \/ /\ Sweeping(s, "look", e)
               /\ sweep' = [sweep EXCEPT ![s].at = "ask"]
            \/ /\ Sweeping(s, "ask", e)
               /\ sweep' = [sweep EXCEPT ![s] = Past(@, "look", e)]
            \/ /\ Sweeping(s, "write", e)
               /\ sweep' = [sweep EXCEPT ![s] = Leave(@.todo)]
       \/ ~Resting(s) /\ sweep' = [sweep EXCEPT ![s] = NoSweep]
    /\ UNCHANGED <<disp, cache, edit, writes, calls, receipt, clash>>

(* The answer is used although the cache could not be written. *)
PutFails(s) ==
    /\ faults < MaxFaults /\ faults' = faults + 1
    /\ \E e \in Ends : Answered(s, e, {}) /\ PlaceOf(s, e) \in Known

Work(s) == Tick(s) \/ \E e \in Ends : Lookup(s, e) \/ Ask(s, e) \/ Write(s, e)
SweepNext ==
    \/ \E s \in Sweep : Work(s) \/ Fail(s) \/ PutFails(s)
    \/ \E a \in Activity :
         EnrichFromReceipt(a) \/ UpdateActivity(a)
    \/ SaveEdit

SweepSpec == SweepInit /\ [][SweepNext]_sweepVars
(* cron ticks for ever and some sweep goes on; an edit reaches its save. *)
FairSpec == SweepSpec /\ WF_sweepVars(\E s \in Sweep : Work(s)) /\ WF_sweepVars(SaveEdit)
-----------------------------------------------------------------------------
(* Rows for which Google has no address stay needing for ever. *)
Hopeless ==
    {a \in Activity : \E e \in Ends : Place[a][e] \notin Known \cup {Null}}
Resolved ==
    \A a \in Activity, e \in Ends : Place[a][e] \in Known => disp[a][e] # Null

(* An address that a receipt gave is never replaced by a looked-up one,    *)
(* "without overwriting a value set since the row was last loaded", and    *)
(* never lost, unless an edit that had read the row before saved it.       *)
ReceiptsPrevail ==
    "edits" \notin clash =>
        \A a \in Activity, e \in Ends :
            receipt[a][e] # Null => disp[a][e] = receipt[a][e]

(* Repeated trips to one place do not pay Google again: a place with an     *)
(* address is asked for once, unless two sweeps looked it up together or   *)
(* the cache failed.                                                       *)
PaidOnce ==
    "lookups" \notin clash /\ faults = 0 => \A c \in Coord : calls[c] <= 1

(* Every known place gets its address in the end, whatever is edited or     *)
(* fails meanwhile, as long as fewer rows than a batch holds are without   *)
(* one for ever: the oldest come first in every sweep.                     *)
SweepsReachAll == Cardinality(Hopeless) < Limit => <>[]Resolved

=============================================================================
