------------------------------ MODULE GmailSync ------------------------------
(***************************************************************************)
(* The import of ride receipts from a mailbox: syncs started by users and  *)
(* by the crons of several processes, the connection row that holds the    *)
(* grant, the cursor (history_id) and the outcome of the last sync, and    *)
(* the ingestion log that remembers which messages were handled.           *)
(*                                                                         *)
(* Messages are numbered in the order of their arrival, so the history id  *)
(* of a moment is the number of messages that have arrived; 0 is none.     *)
(* Every database statement and every call of Google is one step, and the  *)
(* messages of one sync are handled by concurrent workers.  Ingestion is   *)
(* reduced to its two outcomes, stored and duplicate (see TripIngest).     *)
(*                                                                         *)
(* Left out: the access token, which only saves a refresh; the addresses   *)
(* added to rides of earlier syncs; and the mailbox of a second account.   *)
(* How a message is read, and the enrichment of messages that are logged   *)
(* as unrecognised, is in Receipts.  The syncs of users share nothing: one *)
(* user is modelled.                                                       *)
(***************************************************************************)
EXTENDS Naturals, Sequences, FiniteSetsExt

CONSTANTS
    Mail,          \* what each message is, in order of arrival
    Batch,         \* batchSize: messages listed by a call
    Sync,          \* syncs that can be in progress
    Cron,          \* those that SyncAll starts
    MaxRequests,   \* bound: what the user does, at Google and here
    MaxFaults,     \* bound: crashes, and statements and calls that fail
    None           \* no row

ASSUME MailAssumption ==
    /\ Mail \in Seq({"ride", "cancelled", "unreadable", "foreign"})
    /\ Batch \in Nat \ {0}
    /\ Cron \subseteq Sync
    /\ MaxRequests \in Nat
    /\ MaxFaults \in Nat

VARIABLES
    arrived,       \* the mailbox holds messages 1 .. arrived
    requests,      \* what the user did so far; grants are numbered with it
    revoked,       \* those up to this one were revoked at Google
    conn,          \* the user's row of gmail_connections
    reset,         \* the copy a ResetSync in progress is going to save
    log,           \* email_ingestion_logs: the status of each message
    rides,         \* the activity of each message, named by its sync
    sync,          \* where each sync is
    deleted,       \* history: rides the user deleted
    passed,        \* history: messages a sync did not handle
    faults         \* faults so far

user == <<requests, revoked>>
tables == <<log, rides>>
history == <<deleted, passed>>

vars == <<arrived, user, conn, reset, tables, sync, history, faults>>

-----------------------------------------------------------------------------
(* Types *)

Message == DOMAIN Mail

HistoryId == 0 .. Len(Mail)

Grant == 1 .. MaxRequests

Connection ==
    [id : Grant, grant : Grant, history : HistoryId, recent : BOOLEAN, error : BOOLEAN]

Outcome == {"parsed", "skipped", "failed"}

ASSUME NoneIsNoValue == None \notin Sync \cup Outcome

\* The stages of a message: "queued" until a worker takes it, then before the
\* search for a duplicate and the insert; an outcome is to be logged.
Stage == {"queued", "ingest", "insert", "done"} \cup Outcome

Jobs == UNION {[page -> Stage] : page \in SUBSET Message}

Job ==
    [pc : {"idle", "begin"}]
        \cup [pc : {"google"}, id : Grant, grant : Grant, from : HistoryId]
        \cup [pc : {"revoked", "unlisted"}, id : Grant]
        \cup [pc : {"process"}, id : Grant, next : HistoryId, jobs : Jobs]

(* Every variable holds a value of its type. *)
GmailTypeOK ==
    /\ arrived \in HistoryId
    /\ requests \in 0 .. MaxRequests
    /\ revoked \in 0 .. requests
    /\ conn \in Connection \cup {None}
    /\ reset \in Connection \cup {None}
    /\ log \in [Message -> Outcome \cup {None}]
    /\ rides \in [Message -> Sync \cup {None}]
    /\ sync \in [Sync -> Job]
    /\ deleted \subseteq Message
    /\ passed \subseteq Message
    /\ faults \in 0 .. MaxFaults

-----------------------------------------------------------------------------
(* The mailbox, the grant and the clock *)

Idle == [pc |-> "idle"]

Init ==
    /\ arrived = 0
    /\ requests = 0
    /\ revoked = 0
    /\ conn = None
    /\ reset = None
    /\ log = [m \in Message |-> None]
    /\ rides = [m \in Message |-> None]
    /\ sync = [s \in Sync |-> Idle]
    /\ deleted = {}
    /\ passed = {}
    /\ faults = 0

Request == requests < MaxRequests /\ requests' = requests + 1

Arrive ==
    /\ arrived < Len(Mail)
    /\ arrived' = arrived + 1
    /\ UNCHANGED <<user, conn, reset, tables, sync, history, faults>>

\* The user withdraws the grant in the Google account.
Revoke ==
    /\ Request
    /\ revoked' = requests
    /\ UNCHANGED <<arrived, conn, reset, tables, sync, history, faults>>

\* last_sync_at becomes older than syncCooldown.
CooldownEnds ==
    /\ conn # None
    /\ conn.recent
    /\ conn' = [conn EXCEPT !.recent = FALSE]
    /\ UNCHANGED <<arrived, user, reset, tables, sync, history, faults>>

-----------------------------------------------------------------------------
(* What the user does *)

\* HandleCallback: a new grant; the upsert leaves cursor and error as they are.
Connect ==
    /\ Request
    /\ conn' = IF conn = None
               THEN [id |-> requests', grant |-> requests', history |-> 0,
                     recent |-> FALSE, error |-> FALSE]
               ELSE [conn EXCEPT !.grant = requests']
    /\ UNCHANGED <<arrived, revoked, reset, tables, sync, history, faults>>

Disconnect ==
    /\ Request
    /\ conn # None
    /\ conn' = None
    /\ UNCHANGED <<arrived, revoked, reset, tables, sync, history, faults>>

\* ResetSync reads the row and drops the cursor of its copy ...
FindForReset ==
    /\ Request
    /\ reset = None
    /\ conn # None
    /\ reset' = [conn EXCEPT !.history = 0]
    /\ UNCHANGED <<arrived, revoked, conn, tables, sync, history, faults>>

\* ... and saves all of it: Save inserts a row that is gone, unless the user
\* has another one by then (user_id is unique).
SaveReset ==
    /\ reset # None
    /\ reset' = None
    /\ conn' = IF conn = None \/ conn.id = reset.id THEN reset ELSE conn
    /\ UNCHANGED <<arrived, user, tables, sync, history, faults>>

\* The log keeps the message, its activity_id is set to NULL.
DeleteRide(m) ==
    /\ Request
    /\ rides[m] # None
    /\ rides' = [rides EXCEPT ![m] = None]
    /\ deleted' = deleted \cup {m}
    /\ UNCHANGED <<arrived, revoked, conn, reset, log, sync, passed, faults>>

-----------------------------------------------------------------------------
(* A sync up to its list of messages *)

Goto(s, j) == sync' = [sync EXCEPT ![s] = j]

\* UpdateFields: UPDATE ... WHERE id, of some columns.
UpdateFields(id, row) == conn' = IF conn # None /\ conn.id = id THEN row ELSE conn

\* SyncAll looks at last_sync_at before it calls Sync for the user.
StartSyncAll(s) ==
    /\ s \in Cron
    /\ sync[s] = Idle
    /\ conn # None
    /\ ~conn.recent
    /\ Goto(s, [pc |-> "begin"])
    /\ UNCHANGED <<arrived, user, conn, reset, tables, history, faults>>

AtGoogle(row) == [pc |-> "google", id |-> row.id, grant |-> row.grant, from |-> row.history]

\* Mutant: connections with an error are left alone.
BeginWithoutError(s) ==
    /\ IF s \in Cron THEN sync[s].pc = "begin" ELSE sync[s] = Idle /\ conn # None
    /\ Goto(s, IF conn = None \/ conn.error THEN Idle
               ELSE AtGoogle(conn))
    /\ UNCHANGED <<arrived, user, conn, reset, tables, history, faults>>

\* Sync reads the row (again).
Begin(s) ==
    /\ IF s \in Cron THEN sync[s].pc = "begin" ELSE sync[s] = Idle /\ conn # None
    /\ Goto(s, IF conn = None THEN Idle ELSE AtGoogle(conn))
    /\ UNCHANGED <<arrived, user, conn, reset, tables, history, faults>>

\* gmailClient: Google answers invalid_grant, or gives an access token.
RevokedGrant(s) ==
    /\ sync[s].pc = "google"
    /\ sync[s].grant <= revoked
    /\ Goto(s, [pc |-> "revoked", id |-> sync[s].id])
    /\ UNCHANGED <<arrived, user, conn, reset, tables, history, faults>>

Granted(s) == sync[s].pc = "google" /\ sync[s].grant > revoked

\* The user is to be asked to connect again.
MarkRevoked(s) ==
    /\ sync[s].pc = "revoked"
    /\ UpdateFields(sync[s].id, [conn EXCEPT !.error = TRUE])
    /\ Goto(s, Idle)
    /\ UNCHANGED <<arrived, user, reset, tables, history, faults>>

\* The messages that were listed are queued for the workers, and the cursor of
\* the next sync kept; skipped are those behind it that were not listed.
Process(s, page, next, skipped) ==
    /\ Goto(s, [pc |-> "process", id |-> sync[s].id, next |-> next,
                jobs |-> [m \in page |-> "queued"]])
    /\ passed' = passed \cup skipped
    /\ UNCHANGED <<arrived, user, conn, reset, tables, deleted>>

\* listViaHistory: the oldest messages since the cursor, one page of them; the
\* next cursor is the history id of the mailbox.
ListHistory(s) ==
    LET from == sync[s].from
        page == {m \in from + 1 .. arrived : m <= from + Batch}
    IN  /\ Granted(s)
        /\ from # 0
        /\ Process(s, page, arrived, (from + 1 .. arrived) \ page)
        /\ UNCHANGED faults

\* The newest messages of known senders in the window, one page of them.  The
\* window is 90 days, in which all messages are, or seven days if there was a
\* cursor, and then messages up to old may be older than that.
Listed(old) ==
    LET found == {m \in old + 1 .. arrived : Mail[m] # "foreign"}
    IN  {m \in found : Cardinality({n \in found : n > m}) < Batch}

Old(s) == IF sync[s].from = 0 THEN {0} ELSE 0 .. arrived

\* listViaQuery: used without a cursor, and when the history call fails (the
\* cursor expired).  The next cursor is the history id of the newest message.
ListWindow(s) ==
    /\ Granted(s)
    /\ \E old \in Old(s) :
          LET page == Listed(old)
              next == IF page = {} THEN 0 ELSE Max(page)
          IN  Process(s, page, next, (sync[s].from + 1 .. Max({old, next})) \ page)
    /\ UNCHANGED faults

\* A list call that fails clears the error: the grant was valid.
ClearError(s) ==
    /\ sync[s].pc = "unlisted"
    /\ UpdateFields(sync[s].id, [conn EXCEPT !.error = FALSE])
    /\ Goto(s, Idle)
    /\ UNCHANGED <<arrived, user, reset, tables, history, faults>>

-----------------------------------------------------------------------------
(* handleMessage, and the collection of its outcomes *)

At(s, m, stage) ==
    /\ sync[s].pc = "process"
    /\ m \in DOMAIN sync[s].jobs
    /\ sync[s].jobs[m] = stage

Move(s, m, stage) == sync' = [sync EXCEPT ![s].jobs[m] = stage]

\* What a fetched message turns out to be.
Found(m) ==
    CASE Mail[m] = "ride"       -> "ingest"
      [] Mail[m] = "cancelled"  -> "skipped"
      [] Mail[m] = "unreadable" -> "failed"
      [] Mail[m] = "foreign"    -> "done"

\* Layer 1: a message with a log is done, any other is fetched and parsed.
LookUp(s, m) ==
    /\ At(s, m, "queued")
    /\ Move(s, m, IF log[m] = None THEN Found(m) ELSE "done")
    /\ UNCHANGED <<arrived, user, conn, reset, tables, history, faults>>

\* Layer 2, in IngestWithDedup: ErrDuplicate.
FindDuplicate(s, m) ==
    /\ At(s, m, "ingest")
    /\ Move(s, m, IF rides[m] = None THEN "insert" ELSE "skipped")
    /\ UNCHANGED <<arrived, user, conn, reset, tables, history, faults>>

\* The unique key makes the second of two inserts an error.
Insert(s, m) ==
    /\ At(s, m, "insert")
    /\ IF rides[m] = None
       THEN Move(s, m, "parsed") /\ rides' = [rides EXCEPT ![m] = s]
       ELSE Move(s, m, "failed") /\ UNCHANGED rides
    /\ UNCHANGED <<arrived, user, conn, reset, log, history, faults>>

\* The log is written unless there is one, or its activity is gone.
WriteLog(s, m) ==
    \E o \in Outcome :
        /\ At(s, m, o)
        /\ Move(s, m, "done")
        /\ log' = IF log[m] = None /\ (o = "parsed" => rides[m] = s)
                  THEN [log EXCEPT ![m] = o] ELSE log
        /\ UNCHANGED <<arrived, user, conn, reset, rides, history, faults>>

\* Mutant: the error stays.
SyncedKeepingError(row, next) ==
    [row EXCEPT !.recent = TRUE, !.history = IF next = 0 THEN @ ELSE next]

\* The row after a sync.
Synced(row, next) ==
    [row EXCEPT !.recent = TRUE, !.error = FALSE,
                !.history = IF next = 0 THEN @ ELSE next]

\* Mutant: the sync does not wait for its workers.
FinishAtOnce(s) ==
    /\ sync[s].pc = "process"
    /\ UpdateFields(sync[s].id, Synced(conn, sync[s].next))
    /\ Goto(s, Idle)
    /\ UNCHANGED <<arrived, user, reset, tables, history, faults>>

\* Once all messages are handled, the new cursor is stored.
Finish(s) ==
    LET j == sync[s] IN
    /\ j.pc = "process"
    /\ \A m \in DOMAIN j.jobs : j.jobs[m] = "done"
    /\ UpdateFields(j.id, Synced(conn, j.next))
    /\ Goto(s, Idle)
    /\ UNCHANGED <<arrived, user, reset, tables, history, faults>>
-----------------------------------------------------------------------------
(* Faults *)

Fault == faults < MaxFaults /\ faults' = faults + 1

\* The process crashes, or a statement or call outside the handling of messages
\* fails: the sync ends without a trace.
Abort(s) ==
    /\ Fault
    /\ sync[s] # Idle
    /\ Goto(s, Idle)
    /\ UNCHANGED <<arrived, user, conn, reset, tables, history>>

\* Neither list call succeeds.
ListFails(s) ==
    /\ Fault
    /\ Granted(s)
    /\ Goto(s, [pc |-> "unlisted", id |-> sync[s].id])
    /\ UNCHANGED <<arrived, user, conn, reset, tables, history>>

\* The history id of the newest message cannot be read: the cursor stays.
CursorFails(s) ==
    /\ Fault
    /\ Granted(s)
    /\ \E old \in Old(s) : Process(s, Listed(old), 0, sync[s].from + 1 .. old)

\* Mutant: any error of the ingestion is taken for a duplicate.
AfterErrorSkipped(stage) ==
    CASE stage = "queued" -> {"done", "failed"}
      [] stage \in {"ingest", "insert"} -> {"skipped"}
      [] stage \in Outcome -> {"done"}

\* The message cannot be fetched or ingested: failed.  The log cannot be read
\* or written: done.
AfterError(stage) ==
    CASE stage = "queued" -> {"done", "failed"}
      [] stage \in {"ingest", "insert"} -> {"failed"}
      [] stage \in Outcome -> {"done"}

\* A message that leaves no log without having been stored was passed.
MessageFails(s, m) ==
    \E stage \in Stage \ {"done"} : \E next \in AfterError(stage) :
        /\ Fault
        /\ At(s, m, stage)
        /\ Move(s, m, next)
        /\ passed' = IF next = "done" /\ stage \in {"queued", "failed"}
                     THEN passed \cup {m} ELSE passed
        /\ UNCHANGED <<arrived, user, conn, reset, tables, deleted>>

-----------------------------------------------------------------------------
(* The specification *)

HandleMessage(s, m) ==
    \/ LookUp(s, m)
    \/ FindDuplicate(s, m)
    \/ Insert(s, m)
    \/ WriteLog(s, m)

Proceed(s) ==
    \/ RevokedGrant(s)
    \/ MarkRevoked(s)
    \/ ListHistory(s)
    \/ ListWindow(s)
    \/ ClearError(s)
    \/ \E m \in Message : HandleMessage(s, m)
    \/ Finish(s)

Fail(s) ==
    \/ Abort(s)
    \/ ListFails(s)
    \/ CursorFails(s)
    \/ \E m \in Message : MessageFails(s, m)

Next ==
    \/ Arrive
    \/ Revoke
    \/ CooldownEnds
    \/ Connect
    \/ Disconnect
    \/ FindForReset
    \/ SaveReset
    \/ \E m \in Message : DeleteRide(m)
    \/ \E s \in Sync : StartSyncAll(s) \/ Begin(s) \/ Proceed(s) \/ Fail(s)

Spec == Init /\ [][Next]_vars

\* The crons run several times a day for ever, and a started sync goes on until
\* it ends; users need not do anything.
Fairness ==
    /\ WF_vars(CooldownEnds)
    /\ \A s \in Cron : WF_vars(StartSyncAll(s) \/ Begin(s))
    /\ \A s \in Sync : WF_vars(Proceed(s))

FairSpec == Spec /\ Fairness

-----------------------------------------------------------------------------
(* Properties *)

Rides == {m \in Message : Mail[m] = "ride"}

WasStored(m) == rides[m] # None \/ m \in deleted

(* Behind the cursor nothing is left undone, whatever syncs, resets,         *)
(* reconnections and faults overlap: every ride behind the stored history id *)
(* was stored or logged as failed, unless a sync passed it (beyond the first *)
(* page, older than the fallback window, or its log could not be read or     *)
(* written).                                                                 *)
CursorCoversMail ==
    conn # None => \A m \in Rides :
        m <= conn.history => WasStored(m) \/ log[m] = "failed" \/ m \in passed

(* The log does not hide a ride: one that is logged as parsed or as skipped  *)
(* (a duplicate) has been stored, so it is right never to look at it again   *)
(* (log.go 18-20), also when another sync or an error came in between.       *)
LoggedRidesWereStored ==
    \A m \in Rides : log[m] \in {"parsed", "skipped"} => WasStored(m)

(* SyncAll's "real once per day guarantee" (gmail_service.go 299-302): no    *)
(* cron completes a sync of a user who was synced within the cooldown.       *)
CooldownIsKept ==
    [][\A s \in Cron : Finish(s) => conn = None \/ ~conn.recent]_vars

Connected == conn # None /\ conn.grant > revoked

(* Every ride that arrives is stored or logged as failed in the end, unless  *)
(* a sync passed it, as long as the user stays connected.                    *)
RidesArrive ==
    \A m \in Rides :
        (arrived >= m)
            ~> (WasStored(m) \/ log[m] = "failed" \/ m \in passed \/ ~Connected)

(* The prompt to connect again does not stay once the grant is valid, also   *)
(* when a sync that began under the old grant sets it late.                  *)
PromptIsCleared ==
    (Connected /\ conn.error) ~> (~Connected \/ ~conn.error)
=============================================================================
