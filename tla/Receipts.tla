------------------------------ MODULE Receipts ------------------------------
(***************************************************************************)
(* How a ride is read from a message (handleMessage and what it calls):    *)
(* the workers of a sync take the listed messages, drop cancellations and  *)
(* strangers, ask Groq, one call at a time and with retries, fall back to  *)
(* the regular expressions of the provider's parser, locate the ends of    *)
(* the ride, hand it to IngestWithDedup and log the outcome.  Beside them  *)
(* an enrichment (enrichUser) works off the messages that are logged as    *)
(* unrecognised, with the same calls but without the parsers.              *)
(*                                                                         *)
(* GmailSync has the sync around this and TripIngest the ingestion; here a *)
(* ride is stored, a duplicate because another sync of the mailbox was     *)
(* faster, or fails.  A message is abstracted to what the code can tell    *)
(* apart in it.  The ride it is about, with its true times and places, is  *)
(* part of it, so that what is read can be compared with what happened.    *)
(* Times and places are those of TripMatcher.                              *)
(***************************************************************************)
EXTENDS TripMatcher

CONSTANTS
    Message,        \* the messages a sync has listed
    Mailboxes,      \* what they may be (MailAssumption)
    Workers,        \* workerCount
    Slots,          \* capacity of the semaphore, 1 in NewGmailService
    MaxAttempts,    \* llmMaxRetries
    Reply,          \* sets of fields Groq may find in a receipt
    Tracked,        \* trips the phone may have tracked
    Now,            \* when the messages are read
    MaxFaults,      \* bound on the statements and fetches that fail
    Elsewhere       \* the ride was stored by another sync

End == {"from", "to"}
Field == {"start", "minutes", "mode"} \cup End

ASSUME MailAssumption ==
    /\ IsFiniteSet(Message)
    /\ \A mailbox \in Mailboxes : \A m \in Message :
         /\ mailbox[m].left \in BOOLEAN      \* in the log, as unrecognised
         /\ mailbox[m].sender \in {"uber", "rapido", "other"}
         /\ mailbox[m].invoice \in BOOLEAN              \* the subject
         /\ mailbox[m].cancelled \in {"no", "head", "body"}
         /\ mailbox[m].km \subseteq {"snippet", "body"} \* where the distance is
         /\ mailbox[m].date \in {"day first", "month first", None}
         /\ mailbox[m].named \in BOOLEAN              \* the text names the vehicle
         /\ mailbox[m].header \in Int \cup {None}       \* the Date: header
         /\ mailbox[m].labels \subseteq End             \* addresses on a line of their own
         /\ mailbox[m].pins \in {{}, {"from"}, End}     \* links to the map
Ride == [start : Int, end : {None}, dur : Nat, mode : STRING, from : Int, to : Int]
TrackedTrip ==
    [start : Int, end : Int \cup {None}, dur : Nat \cup {None}, mode : STRING,
     from : Int \cup {None}, to : Int \cup {None}]
ASSUME TripAssumption ==
    /\ \A mailbox \in Mailboxes : \A m \in Message : mailbox[m].trip \in Ride
    /\ Tracked \subseteq TrackedTrip /\ Now \in Int
ASSUME ReadingAssumption ==
    /\ {Workers, Slots, MaxAttempts} \subseteq Nat \ {0} /\ MaxFaults \in Nat
    /\ Reply \subseteq SUBSET Field
Verdict == [kind : {"ride", "no receipt", "refused"}, found : SUBSET Field]
ASSUME VerdictAssumption == None \notin Verdict \cup {"skipped", "failed", "unrecognised"}

VARIABLES
    mail,       \* the messages
    groq,       \* GROQ_API_KEY is set
    job,        \* where each message is
    slots,      \* free slots of the semaphore
    log,        \* email_ingestion_logs: the status of each message
    rides,      \* the activity of each message
    stopping,   \* the server shuts down: the context of a request is cancelled
    verdict,    \* history: what Groq said of each message
    hit,        \* history: messages that a fault hit
    faults

vars == <<mail, groq, job, slots, log, rides, stopping, verdict, hit, faults>>

(* The queue of the enrichment: today's syncs log no message as             *)
(* unrecognised, but those of earlier versions did.                        *)
Left(m) == mail[m].left

Job(at) == [at |-> at, tries |-> 0, read |-> None, out |-> None]
At(m, stage) == job[m].at = stage
InHand == {m \in Message : ~At(m, "queued") /\ ~At(m, "done")}
Busy == {m \in InHand : ~Left(m)}

Init ==
    /\ mail \in Mailboxes /\ groq \in BOOLEAN
    /\ job = [m \in Message |-> Job("queued")]
    /\ slots = Slots
    /\ log = [m \in Message |-> IF Left(m) THEN "unrecognised" ELSE None]
    /\ rides = [m \in Message |-> None]
    /\ stopping = FALSE
    /\ verdict = [m \in Message |-> None] /\ hit = {} /\ faults = 0

Goto(m, stage) == job' = [job EXCEPT ![m].at = stage]
Outcome(m, status) == job' = [job EXCEPT ![m].at = "log", ![m].out = status]
Found(m, ride) == job' = [job EXCEPT ![m].at = "place", ![m].read = ride]
Fault(m) == faults < MaxFaults /\ faults' = faults + 1 /\ hit' = hit \cup {m}
NoFault == UNCHANGED <<faults, hit>>
-----------------------------------------------------------------------------
(* From the queue to the readers *)

(* BuildRoutingMap and filterBySubject: the active types of the sender whose *)
(* pattern the subject matches; Uber has none.                             *)
IsCancellation(m) == mail[m].cancelled = "head"
KnownSender(m) == mail[m].sender # "other"
Candidate(m) ==
    \/ mail[m].sender = "uber"
    \/ mail[m].sender = "rapido" /\ mail[m].invoice

(* A worker takes a message that is not in the log and fetches it.  When   *)
(* the log or the message cannot be read, also because the context is      *)
(* cancelled, the message is passed over or has failed.                    *)
Take(m) ==
    /\ At(m, "queued") /\ ~Left(m) /\ Cardinality(Busy) < Workers
    /\ \/ /\ log[m] # None \/ stopping
          /\ Goto(m, "done") /\ NoFault
       \/ /\ log[m] = None /\ ~stopping /\ NoFault
          /\ \/ IsCancellation(m) /\ Outcome(m, "skipped")
             \/ ~IsCancellation(m) /\ ~KnownSender(m) /\ Goto(m, "done")
             \/ /\ ~IsCancellation(m) /\ KnownSender(m) /\ ~Candidate(m)
                /\ Outcome(m, "skipped")
             \/ /\ ~IsCancellation(m) /\ Candidate(m)
                /\ Goto(m, IF groq THEN "slot" ELSE "text")
       \/ Fault(m) /\ (Goto(m, "done") \/ Outcome(m, "failed"))
    /\ UNCHANGED <<mail, groq, slots, log, rides, stopping, verdict>>

(* enrichUser: one message after the other, from ListUnrecognised.  One     *)
(* that cannot be fetched is left; without a key for Groq all are put      *)
(* aside, as ParseWithContext then answers what it does for no receipt.    *)
Enrich(m) ==
    /\ At(m, "queued") /\ log[m] = "unrecognised" /\ ~\E o \in InHand : Left(o)
    /\ \/ stopping /\ Goto(m, "done") /\ NoFault
       \/ ~stopping /\ groq /\ Goto(m, "slot") /\ NoFault
       \/ ~stopping /\ ~groq /\ Outcome(m, "skipped") /\ NoFault
       \/ Fault(m) /\ Goto(m, "done")
    /\ UNCHANGED <<mail, groq, slots, log, rides, stopping, verdict>>
(* Another enrichment was faster. *)
EnrichedElsewhere(m) ==
    /\ At(m, "queued") /\ Left(m) /\ log[m] # "unrecognised" /\ Goto(m, "done")
    /\ UNCHANGED <<mail, groq, slots, log, rides, stopping, verdict>> /\ NoFault
-----------------------------------------------------------------------------
(* Groq *)

(* ParseWithContext: a slot, kept until invokeWithRetry returns. *)
Acquire(m) ==
    /\ At(m, "slot") /\ ~stopping /\ slots > 0
    /\ slots' = slots - 1 /\ Goto(m, "call")
    /\ UNCHANGED <<mail, groq, log, rides, stopping, verdict>> /\ NoFault

(* A ride as Groq reads it: what it finds is right, what it does not find   *)
(* is null, and an empty mode becomes a cab.                               *)
LLMRide(m, found) ==
    LET truth == mail[m].trip IN
    [start |-> IF "start" \in found THEN truth.start ELSE None,
     dur   |-> IF "minutes" \in found THEN truth.dur ELSE None,
     mode  |-> IF "mode" \in found THEN truth.mode ELSE "cab",
     ends  |-> found \cap End]

(* Mutant: an enrichment without an answer has failed. *)
FailUnanswered(m) == IF Left(m) THEN [Job("log") EXCEPT !.out = "failed"] ELSE [job[m] EXCEPT !.at = "text"]
(* Without an answer: the parsers read the text, or it stays in the queue.  *)
Unanswered(m) == [job[m] EXCEPT !.at = IF Left(m) THEN "done" ELSE "text"]

Answered(m, kind, found) ==
    /\ At(m, "call")
    /\ verdict' = [verdict EXCEPT ![m] = [kind |-> kind, found |-> found]]
    /\ slots' = slots + 1
    /\ UNCHANGED <<mail, groq, log, rides, stopping>> /\ NoFault
AnswerRide(m) ==
    \E found \in Reply : Answered(m, "ride", found) /\ Found(m, LLMRide(m, found))
(* not_a_receipt: the message is put aside without asking the parsers. *)
AnswerNoReceipt(m) == Answered(m, "no receipt", {}) /\ Outcome(m, "skipped")

(* 4xx but 429: no retry. *)
Refused(m) == Answered(m, "refused", {}) /\ job' = [job EXCEPT ![m] = Unanswered(m)]

(* No connection, 429, 5xx, no JSON: again after a pause, MaxAttempts times. *)
GiveUp(m, free) ==
    /\ At(m, "call") /\ job[m].tries + 1 = MaxAttempts
    /\ job' = [job EXCEPT ![m] = [Unanswered(m) EXCEPT !.tries = @ + 1]]
    /\ slots' = slots + free
    /\ UNCHANGED <<mail, groq, log, rides, stopping, verdict>> /\ NoFault
(* Mutant: the slot is lost. *)
ExhaustedKeepingSlot(m) == GiveUp(m, 0)
Exhausted(m) == GiveUp(m, 1)

Paused(m, free) ==
    /\ At(m, "call") /\ job[m].tries + 1 < MaxAttempts
    /\ job' = [job EXCEPT ![m].at = "pause", ![m].tries = @ + 1]
    /\ slots' = slots + free
    /\ UNCHANGED <<mail, groq, log, rides, stopping, verdict>> /\ NoFault
(* Mutant: the slot is given back for the pause and not taken again. *)
PauseWithoutSlot(m) == Paused(m, 1)
Pause(m) == Paused(m, 0)

Resume(m) ==
    /\ At(m, "pause") /\ ~stopping /\ Goto(m, "call")
    /\ UNCHANGED <<mail, groq, slots, log, rides, stopping, verdict>> /\ NoFault

(* The context is cancelled while the message waits or a call is on. *)
Interrupt(m) ==
    /\ stopping /\ job[m].at \in {"slot", "call", "pause"}
    /\ slots' = slots + (IF At(m, "slot") THEN 0 ELSE 1)
    /\ job' = [job EXCEPT ![m] = Unanswered(m)]
    /\ UNCHANGED <<mail, groq, log, rides, stopping, verdict>> /\ NoFault
-----------------------------------------------------------------------------
(* The parsers *)

Day == 24 * 60
Midnight(t) == Day * (t \div Day)

(* Only a distance is required.  The text has a day, which each parser finds *)
(* in one notation, and no time of day.                                    *)
BodyIsRead(m) == "body" \in mail[m].km /\ mail[m].cancelled # "body"
DayIn(m, notation) == IF mail[m].date = notation THEN Midnight(mail[m].trip.start) ELSE None
Vehicle(m, default) == IF mail[m].named THEN mail[m].trip.mode ELSE default

UberRide(m) ==
    [start |-> DayIn(m, "month first"), dur |-> mail[m].trip.dur,
     mode |-> Vehicle(m, "cab"), ends |-> mail[m].labels]
RapidoRide(m) ==
    [start |-> DayIn(m, "day first"), dur |-> mail[m].trip.dur,
     mode |-> Vehicle(m, "two_wheeler"), ends |-> mail[m].labels]
Parsed(m) == IF mail[m].sender = "uber" THEN UberRide(m) ELSE RapidoRide(m)

(* TrySnippet; Rapido's snippets have no distance. *)
SnippetIsRead(m) == mail[m].sender = "uber" /\ "snippet" \in mail[m].km
SnippetRide(m, ends) ==
    [start |-> None, dur |-> mail[m].trip.dur, mode |-> Vehicle(m, "cab"), ends |-> ends]

(* The snippet of an Uber receipt is enough: the body only adds addresses,  *)
(* so a cancellation in it does not count.                                 *)
ReadText(m) ==
    /\ At(m, "text")
    /\ \/ /\ SnippetIsRead(m)
          /\ Found(m, SnippetRide(m, IF BodyIsRead(m) THEN Parsed(m).ends ELSE {}))
       \/ ~SnippetIsRead(m) /\ BodyIsRead(m) /\ Found(m, Parsed(m))
       \/ ~SnippetIsRead(m) /\ mail[m].cancelled = "body" /\ Outcome(m, "skipped")
       \/ /\ ~SnippetIsRead(m) /\ mail[m].cancelled # "body" /\ "body" \notin mail[m].km
          /\ Outcome(m, "failed")
    /\ UNCHANGED <<mail, groq, slots, log, rides, stopping, verdict>> /\ NoFault
-----------------------------------------------------------------------------
(* The activity and the log *)

(* When the mail was sent, by a header that may be missing or unreadable.   *)
ParseEmailDate(m) == mail[m].header
(* Mutant: the header is trusted before what was read. *)
MailedAt(m) ==
    IF ParseEmailDate(m) # None THEN ParseEmailDate(m)
    ELSE IF job[m].read.start # None THEN job[m].read.start ELSE Now
StartedAt(m) ==
    IF job[m].read.start # None THEN job[m].read.start
    ELSE IF ParseEmailDate(m) # None THEN ParseEmailDate(m) ELSE Now

(* A link to the map, else what the geocoder makes of the address: the      *)
(* place, or nothing without a key, an answer or an address.               *)
Geocode(m, e) == {mail[m].trip[e], None}
Pinned(m, e) == e \in mail[m].pins
Located(m, e) ==
    IF Pinned(m, e) THEN {mail[m].trip[e]}
    ELSE IF e \in job[m].read.ends THEN Geocode(m, e) ELSE {None}

Built(m, from, to) ==
    LET start == StartedAt(m)
        dur == job[m].read.dur
    IN  [start |-> start, dur |-> dur, mode |-> job[m].read.mode, from |-> from, to |-> to,
         end |-> IF dur = None THEN None ELSE start + dur]
Place(m) ==
    /\ At(m, "place")
    /\ \E from \in Located(m, "from"), to \in Located(m, "to") :
         job' = [job EXCEPT ![m].at = "insert", ![m].read = Built(m, from, to)]
    /\ UNCHANGED <<mail, groq, slots, log, rides, stopping, verdict>> /\ NoFault

(* IngestWithDedup: the receipt id is the message. *)
Insert(m) ==
    /\ At(m, "insert")
    /\ \/ stopping /\ Outcome(m, "failed") /\ UNCHANGED rides /\ NoFault
       \/ ~stopping /\ rides[m] # None /\ Outcome(m, "skipped") /\ UNCHANGED rides /\ NoFault
       \/ /\ ~stopping /\ rides[m] = None
          /\ rides' = [rides EXCEPT ![m] = job[m].read]
          /\ Outcome(m, "parsed") /\ NoFault
       \/ Fault(m) /\ Outcome(m, "failed") /\ UNCHANGED rides
    /\ UNCHANGED <<mail, groq, slots, log, stopping, verdict>>

Logged(m, writes) ==
    /\ At(m, "log") /\ ~Left(m) /\ job' = [job EXCEPT ![m] = Job("done")]
    /\ \/ /\ log' = IF writes /\ log[m] = None THEN [log EXCEPT ![m] = job[m].out] ELSE log
          /\ NoFault
       \/ Fault(m) /\ UNCHANGED log
    /\ UNCHANGED <<mail, groq, slots, rides, stopping, verdict>>
(* Mutant: the log outlives the request. *)
WriteLogAnyway(m) == Logged(m, TRUE)
(* processMessages: Create, of one row for a message; a cancelled context   *)
(* writes nothing.                                                         *)
WriteLog(m) == Logged(m, ~stopping)

(* updateLog: without the context of the request. *)
UpdateLog(m) ==
    /\ At(m, "log") /\ Left(m) /\ job' = [job EXCEPT ![m] = Job("done")]
    /\ \/ log' = [log EXCEPT ![m] = job[m].out] /\ NoFault
       \/ Fault(m) /\ UNCHANGED log
    /\ UNCHANGED <<mail, groq, slots, rides, stopping, verdict>>
-----------------------------------------------------------------------------
(* Outside *)

(* Another sync or enrichment, in the other process, stores and logs it. *)
OtherSync(m) ==
    /\ Candidate(m) /\ mail[m].cancelled = "no"
    /\ \/ rides[m] = None /\ rides' = [rides EXCEPT ![m] = Elsewhere] /\ UNCHANGED log
       \/ /\ rides[m] = Elsewhere /\ log[m] \in {None, "unrecognised"}
          /\ log' = [log EXCEPT ![m] = "parsed"] /\ UNCHANGED rides
    /\ UNCHANGED <<mail, groq, job, slots, stopping, verdict, hit, faults>>

Shutdown ==
    /\ ~stopping /\ stopping' = TRUE
    /\ UNCHANGED <<mail, groq, job, slots, log, rides, verdict, hit, faults>>

Ask(m) ==
    \/ Acquire(m) \/ AnswerRide(m) \/ AnswerNoReceipt(m) \/ Refused(m)
    \/ Exhausted(m) \/ Pause(m) \/ Resume(m) \/ Interrupt(m)
Handle(m) ==
    \/ Take(m) \/ Enrich(m) \/ EnrichedElsewhere(m) \/ Ask(m) \/ ReadText(m)
    \/ Place(m) \/ Insert(m) \/ WriteLog(m) \/ UpdateLog(m)
Next == Shutdown \/ \E m \in Message : Handle(m) \/ OtherSync(m)

Spec == Init /\ [][Next]_vars
(* A worker goes on: calls and pauses have a time limit. *)
FairSpec == Spec /\ \A m \in Message : WF_vars(Handle(m))
-----------------------------------------------------------------------------
(* A receipt that the parsers can read. *)
Readable(m) ==
    /\ Candidate(m) /\ mail[m].cancelled = "no"
    /\ mail[m].km # {} /\ (mail[m].sender = "uber" \/ "body" \in mail[m].km)

(* A receipt that can be read is only put aside for good, that is logged    *)
(* without a ride, because Groq took it for something else, another sync   *)
(* stored it or a statement failed: neither Groq's errors and retries nor  *)
(* a shutdown in the middle hide a ride from the next sync.                *)
ReadableRidesAreRead ==
    \A m \in Message :
        /\ ~Left(m) /\ Readable(m) /\ log[m] \in {"skipped", "failed"}
        => \/ rides[m] # None \/ m \in hit
           \/ verdict[m] # None /\ verdict[m].kind = "no receipt"

(* The queue of the enrichment is tried again: a message leaves it with a   *)
(* ride, or with Groq's word that it is none, not because Groq, Google or  *)
(* the log failed; only a ride whose ingestion fails, also by the shutdown *)
(* of the server, is given up, and all of them when Groq has no key.       *)
QueueIsRetried ==
    \A m \in Message :
        /\ Left(m) /\ log[m] \in {"skipped", "failed"}
        => \/ rides[m] # None
           \/ verdict[m] # None /\ verdict[m].kind = "no receipt"
           \/ verdict[m] # None /\ verdict[m].kind = "ride" /\ (stopping \/ m \in hit)
           \/ ~groq

(* "maxConcurrent caps parallel in-flight HTTP requests", also over pauses  *)
(* and however a call ends, and a message costs MaxAttempts calls at most. *)
GroqIsSpared ==
    /\ Cardinality({m \in Message : At(m, "call")}) <= Slots
    /\ \A m \in Message : job[m].tries + (IF At(m, "call") THEN 1 ELSE 0) <= MaxAttempts

(* A sync ends: no message waits for ever for a worker or a slot. *)
ReadingEnds == \A m \in Message : <>At(m, "done")

(* Rides take longer than the phone takes to notice them, and what it tracks *)
(* is over within a day.                                                   *)
Late == {0, 4}
Trackable ==
    /\ \A mailbox \in Mailboxes : \A m \in Message, late \in Late : late < mailbox[m].trip.dur
    /\ \A trip \in Tracked :
         trip.end = None /\ trip.dur # None => trip.dur <= OpenSession

(* Groq gave what the comparison with a tracked trip needs. *)
WellRead(m) ==
    /\ rides[m] \notin {None, Elsewhere} /\ verdict[m] # None
    /\ {"start", "minutes", "mode"} \subseteq verdict[m].found

(* The trip of a message as the phone saw it: it noticed the start late.    *)
GPSTrip(m, late) ==
    LET trip == mail[m].trip IN
    [trip EXCEPT !.start = @ + late, !.end = trip.start + trip.dur, !.dur = @ - late]

Pairs == {rides[m] : m \in Message} \ {None, Elsewhere}

(* A ride that was well read is recognised as the trip that the phone       *)
(* tracked, up to a few minutes: stored in either order, each is a         *)
(* candidate for the other and the score asks at least for a review.  And  *)
(* whatever was read, the query for candidates misses no tracked trip that *)
(* the score would match, whichever of the two is stored first.            *)
TrackedRidesAreFound ==
    /\ \A m \in Message, late \in Late : WellRead(m) =>
          LET trip == GPSTrip(m, late) IN
          /\ InWindow(trip, rides[m]) /\ InWindow(rides[m], trip)
          /\ Score(rides[m], trip).conf >= ThresholdReview
    /\ \A ride \in Pairs, trip \in Tracked :
          WindowFinds(ride, trip) /\ WindowFinds(trip, ride)
=============================================================================
