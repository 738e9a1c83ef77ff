--------------------------- MODULE GmailSyncProofs ---------------------------
(***************************************************************************)
(* Theorems about GmailSync, for every mailbox, page size and number of    *)
(* overlapping syncs, whatever users do and whatever fails.                *)
(***************************************************************************)
EXTENDS GmailSync, TLAPS, WellFoundedInduction,
        SequenceTheorems

-----------------------------------------------------------------------------
(* The largest element *)

(* A set of message numbers that is not empty has a largest element. *)
LEMMA MaxOfMessages ==
    ASSUME NEW n \in Nat, NEW S \in SUBSET (0 .. n), S # {}
    PROVE  Max(S) \in S /\ \A x \in S : x <= Max(S)
<1> DEFINE T == {n - x : x \in S}
<1>1. T \subseteq Nat /\ T # {}
  <2>1. \A x \in S : x \in 0 .. n
    OBVIOUS
  <2>2. \A x \in 0 .. n : n - x \in Nat
    OBVIOUS
  <2> QED
    BY <2>1, <2>2
<1>2. PICK t \in T : \A u \in T : ~ (<<u, t>> \in OpToRel(<, Nat))
  <2> HIDE DEF T
  <2> QED
    BY <1>1, NatLessThanWellFounded, WFMin
<1>3. \A u \in T : ~ (u < t)
  BY <1>1, <1>2 DEF OpToRel
<1>4. PICK x \in S : t = n - x
  OBVIOUS
<1>5. \A y \in S : x >= y
  <2> TAKE y \in S
  <2>1. n - y \in T /\ ~ (n - y < n - x)
    BY <1>3, <1>4
  <2> QED
    BY <2>1
<1>6. Max(S) \in S /\ \A y \in S : Max(S) >= y
  BY <1>4, <1>5 DEF Max
<1> QED
  BY <1>6

-----------------------------------------------------------------------------
(* Typing *)

(* What a sync holds at each program counter. *)
LEMMA JobFields ==
    ASSUME NEW j \in Job
    PROVE  /\ j.pc = "google" => /\ j.id \in Grant
                                 /\ j.grant \in Grant
                                 /\ j.from \in HistoryId
           /\ j.pc \in {"revoked", "unlisted"} => j.id \in Grant
           /\ j.pc = "process" => /\ j.id \in Grant
                                  /\ j.next \in HistoryId
                                  /\ DOMAIN j.jobs \subseteq Message
                                  /\ j.jobs \in [DOMAIN j.jobs -> Stage]
<1>1. j.pc = "process" => j.jobs \in Jobs
  BY DEF Job
<1>2. j.jobs \in Jobs => DOMAIN j.jobs \subseteq Message
                          /\ j.jobs \in [DOMAIN j.jobs -> Stage]
  BY DEF Jobs
<1> QED
  BY <1>1, <1>2 DEF Job

(* A sync that processes some messages is a job. *)
LEMMA ProcessType ==
    ASSUME NEW id \in Grant, NEW next \in HistoryId,
           NEW page \in SUBSET Message, NEW jobs \in [page -> Stage]
    PROVE  [pc |-> "process", id |-> id, next |-> next, jobs |-> jobs] \in Job
<1>1. jobs \in Jobs
  BY DEF Jobs
<1> QED
  BY <1>1 DEF Job

(* Messages and history ids are numbers. *)
LEMMA Numbers ==
    /\ Len(Mail) \in Nat
    /\ Message = 1 .. Len(Mail)
    /\ HistoryId = 0 .. Len(Mail)
BY MailAssumption, LenProperties DEF Message, HistoryId

(* What lies behind a history id, up to another one. *)
LEMMA Between ==
    ASSUME NEW a \in HistoryId, NEW b \in HistoryId, NEW S
    PROVE  /\ a + 1 .. b \in SUBSET Message
           /\ (a + 1 .. b) \ S \in SUBSET Message
BY Numbers

(* A message of a sync moves on. *)
LEMMA MoveType ==
    ASSUME GmailTypeOK, NEW s \in Sync, NEW m \in Message,
           NEW stage, At(s, m, stage), NEW next \in Stage, Move(s, m, next)
    PROVE  sync' \in [Sync -> Job]
<1>1. sync[s] \in Job /\ sync[s].pc = "process"
  BY DEF GmailTypeOK, At
<1>2. [sync[s].jobs EXCEPT ![m] = next] \in [DOMAIN sync[s].jobs -> Stage]
  BY <1>1, JobFields
<1>3. [sync[s] EXCEPT !.jobs[m] = next] \in Job
  BY <1>1, <1>2, JobFields, ProcessType DEF Job
<1> QED
  BY <1>3 DEF Move, GmailTypeOK

(* A listed page becomes the jobs of the sync. *)
LEMMA ProcessKeepsTypes ==
    ASSUME GmailTypeOK, NEW s \in Sync, sync[s].pc = "google",
           NEW page \in SUBSET Message, NEW next \in HistoryId,
           NEW skipped \in SUBSET Message, Process(s, page, next, skipped)
    PROVE  sync' \in [Sync -> Job] /\ passed' \subseteq Message
<1>1. sync[s].id \in Grant
  BY JobFields DEF GmailTypeOK
<1>2. [m \in page |-> "queued"] \in [page -> Stage]
  BY DEF Stage
<1>3. [pc |-> "process", id |-> sync[s].id, next |-> next,
       jobs |-> [m \in page |-> "queued"]] \in Job
  BY <1>1, <1>2, ProcessType
<1> QED
  BY <1>3 DEF Process, Goto, GmailTypeOK

NextOf(page) == IF page = {} THEN 0 ELSE Max(page)

(* What a call of listViaQuery lists, and how far. *)
LEMMA WindowTypes ==
    ASSUME GmailTypeOK, NEW s \in Sync, NEW old \in Old(s)
    PROVE  /\ old \in HistoryId
           /\ Listed(old) \in SUBSET Message
           /\ NextOf(Listed(old)) \in HistoryId
           /\ Max({old, NextOf(Listed(old))}) \in HistoryId
           /\ NextOf(Listed(old)) <= Max({old, NextOf(Listed(old))})
<1> USE Numbers
<1> DEFINE page == Listed(old)
           next == NextOf(page)
<1>1. old \in HistoryId
  BY DEF Old, GmailTypeOK
<1>2. page \in SUBSET Message
  BY <1>1 DEF Listed, GmailTypeOK
<1>3. next \in HistoryId
  <2> HIDE DEF page
  <2>1. CASE page = {}
    BY <2>1 DEF NextOf
  <2>2. CASE page # {}
    <3>1. page \in SUBSET (0 .. Len(Mail))
      BY <1>2
    <3> QED
      BY <2>2, <3>1, MaxOfMessages DEF NextOf
  <2> QED
    BY <2>1, <2>2
<1>4. Max({old, next}) \in {old, next} /\ \A x \in {old, next} : x <= Max({old, next})
  <2> HIDE DEF next
  <2>1. {old, next} \in SUBSET (0 .. Len(Mail)) /\ {old, next} # {}
    BY <1>1, <1>3
  <2> QED
    BY <2>1, MaxOfMessages
<1> QED
  BY <1>1, <1>2, <1>3, <1>4

(* Storing columns of a row keeps the table well typed. *)
LEMMA UpdateType ==
    ASSUME GmailTypeOK, NEW id, NEW row, UpdateFields(id, row),
           conn # None => row \in Connection
    PROVE  conn' \in Connection \cup {None}
BY DEF UpdateFields, GmailTypeOK

(* Every step keeps the state well typed. *)
LEMMA TypeStep ==
    ASSUME GmailTypeOK, [Next]_vars
    PROVE  GmailTypeOK'
<1> USE MailAssumption, Numbers
<1> USE DEF GmailTypeOK
<1>1. CASE Arrive
  BY <1>1 DEF Arrive, user, tables, history
<1>2. CASE Revoke
  BY <1>2 DEF Revoke, Request, tables, history
<1>3. CASE CooldownEnds
  BY <1>3 DEF CooldownEnds, Connection, user, tables, history
<1>4. CASE Connect
  <2>1. /\ requests' \in 1 .. MaxRequests
        /\ requests' \in 0 .. MaxRequests
        /\ revoked \in 0 .. requests'
    BY <1>4 DEF Connect, Request
  <2>2. conn' \in Connection
    <3>1. requests' \in Grant
      BY <2>1 DEF Grant
    <3>2. CASE conn = None
      BY <1>4, <3>1, <3>2 DEF Connect, Connection
    <3>3. CASE conn # None
      BY <1>4, <3>1, <3>3 DEF Connect, Connection
    <3> QED
      BY <3>2, <3>3
  <2> QED
    BY <1>4, <2>1, <2>2 DEF Connect, tables, history
<1>5. CASE Disconnect
  BY <1>5 DEF Disconnect, Request, tables, history
<1>6. CASE FindForReset
  <2>1. [conn EXCEPT !.history = 0] \in Connection
    <3>1. 0 \in HistoryId /\ conn \in Connection
      BY <1>6 DEF FindForReset
    <3> QED
      BY <3>1 DEF Connection
  <2> QED
    BY <1>6, <2>1 DEF FindForReset, Request, tables, history
<1>7. CASE SaveReset
  BY <1>7 DEF SaveReset, user, tables, history
<1>8. ASSUME NEW m \in Message, DeleteRide(m)
      PROVE  GmailTypeOK'
  BY <1>8 DEF DeleteRide, Request
<1>9. ASSUME NEW s \in Sync, StartSyncAll(s) \/ Begin(s) \/ RevokedGrant(s)
      PROVE  GmailTypeOK'
  <2>1. PICK j \in Job : Goto(s, j)
    <3>1. sync[s].pc = "google" => sync[s].id \in Grant
      BY JobFields
    <3>2. conn # None => AtGoogle(conn) \in Job
      BY DEF AtGoogle, Connection, Job
    <3> QED
      BY <1>9, <3>1, <3>2 DEF StartSyncAll, Begin, RevokedGrant, Idle, Job
  <2>2. UNCHANGED <<arrived, user, conn, reset, tables, history, faults>>
    BY <1>9 DEF StartSyncAll, Begin, RevokedGrant
  <2> QED
    BY <2>1, <2>2 DEF Goto, user, tables, history
<1>10. ASSUME NEW s \in Sync, MarkRevoked(s) \/ ClearError(s) \/ Finish(s)
       PROVE  GmailTypeOK'
  <2>1. conn' \in Connection \cup {None}
    <3>1. sync[s].pc = "process" => sync[s].next \in HistoryId
      BY JobFields
    <3>2. conn # None => /\ [conn EXCEPT !.error = TRUE] \in Connection
                         /\ [conn EXCEPT !.error = FALSE] \in Connection
      BY DEF Connection
    <3>3. sync[s].pc = "process" /\ conn # None
            => Synced(conn, sync[s].next) \in Connection
      BY <3>1 DEF Synced, Connection
    <3> QED
      BY <1>10, <3>2, <3>3, UpdateType DEF MarkRevoked, ClearError, Finish
  <2>2. Goto(s, Idle) /\ UNCHANGED <<arrived, user, reset, tables, history, faults>>
    BY <1>10 DEF MarkRevoked, ClearError, Finish
  <2>3. Idle \in Job
    BY DEF Idle, Job
  <2> QED
    BY <2>1, <2>2, <2>3 DEF Goto, user, tables, history
<1>11. ASSUME NEW s \in Sync, ListHistory(s)
       PROVE  GmailTypeOK'
  <2> DEFINE page == {m \in sync[s].from + 1 .. arrived : m <= sync[s].from + Batch}
             skipped == (sync[s].from + 1 .. arrived) \ page
  <2>1. sync[s].pc = "google" /\ sync[s].from \in HistoryId
    BY <1>11, JobFields DEF ListHistory, Granted
  <2>2. page \in SUBSET Message /\ skipped \in SUBSET Message
    <3>1. page \subseteq sync[s].from + 1 .. arrived
      OBVIOUS
    <3> QED
      BY <2>1, <3>1, Between
  <2>3. Process(s, page, arrived, skipped) /\ faults' = faults
    BY <1>11 DEF ListHistory
  <2>4. sync' \in [Sync -> Job] /\ passed' \subseteq Message
    <3> HIDE DEF page, skipped
    <3> QED
      BY <2>1, <2>2, <2>3, ProcessKeepsTypes
  <2> QED
    BY <2>3, <2>4 DEF Process, user, tables
<1>12. ASSUME NEW s \in Sync, ListWindow(s)
       PROVE  GmailTypeOK'
  <2>1. sync[s].pc = "google" /\ sync[s].from \in HistoryId
    BY <1>12, JobFields DEF ListWindow, Granted
  <2>2. PICK old \in Old(s) :
          Process(s, Listed(old), NextOf(Listed(old)),
                  (sync[s].from + 1 .. Max({old, NextOf(Listed(old))})) \ Listed(old))
    BY <1>12 DEF ListWindow, NextOf
  <2> DEFINE skipped == (sync[s].from + 1 .. Max({old, NextOf(Listed(old))})) \ Listed(old)
  <2>3. /\ Listed(old) \in SUBSET Message
        /\ NextOf(Listed(old)) \in HistoryId
        /\ skipped \in SUBSET Message
    BY <2>1, WindowTypes, Between
  <2>4. sync' \in [Sync -> Job] /\ passed' \subseteq Message
    <3>1. Process(s, Listed(old), NextOf(Listed(old)), skipped)
      BY <2>2
    <3> HIDE DEF skipped
    <3> QED
      BY <2>1, <2>3, <3>1, ProcessKeepsTypes
  <2> QED
    BY <1>12, <2>2, <2>4 DEF ListWindow, Process, user, tables
<1>13. ASSUME NEW s \in Sync, NEW m \in Message, HandleMessage(s, m)
       PROVE  GmailTypeOK'
  <2>1. PICK stage, next \in Stage : At(s, m, stage) /\ Move(s, m, next)
    BY <1>13 DEF HandleMessage, LookUp, FindDuplicate, Insert, WriteLog, Found,
                 Stage, Outcome, Message
  <2>2. sync' \in [Sync -> Job]
    BY <2>1, MoveType
  <2>3. /\ log' \in [Message -> Outcome \cup {None}]
        /\ rides' \in [Message -> Sync \cup {None}]
    BY <1>13 DEF HandleMessage, LookUp, FindDuplicate, Insert, WriteLog, tables
  <2>4. UNCHANGED <<arrived, user, conn, reset, history, faults>>
    BY <1>13 DEF HandleMessage, LookUp, FindDuplicate, Insert, WriteLog
  <2> QED
    BY <2>2, <2>3, <2>4 DEF user, history
<1>14. ASSUME NEW s \in Sync, Abort(s) \/ ListFails(s)
       PROVE  GmailTypeOK'
  <2>1. PICK j \in Job : Goto(s, j)
    <3>1. sync[s].pc = "google" => sync[s].id \in Grant
      BY JobFields
    <3> QED
      BY <1>14, <3>1 DEF Abort, ListFails, Granted, Idle, Job
  <2>2. Fault /\ UNCHANGED <<arrived, user, conn, reset, tables, history>>
    BY <1>14 DEF Abort, ListFails
  <2> QED
    BY <2>1, <2>2 DEF Goto, Fault, user, tables, history
<1>15. ASSUME NEW s \in Sync, CursorFails(s)
       PROVE  GmailTypeOK'
  <2>1. sync[s].pc = "google" /\ sync[s].from \in HistoryId
    BY <1>15, JobFields DEF CursorFails, Granted
  <2>2. PICK old \in Old(s) : Process(s, Listed(old), 0, sync[s].from + 1 .. old)
    BY <1>15 DEF CursorFails
  <2>3. /\ Listed(old) \in SUBSET Message
        /\ 0 \in HistoryId
        /\ old \in HistoryId
    <3>1. 0 \in HistoryId
      OBVIOUS
    <3>2. Listed(old) \in SUBSET Message
      BY WindowTypes
    <3>3. old \in HistoryId
      BY WindowTypes
    <3> QED
      BY <3>1, <3>2, <3>3
  <2> DEFINE skipped == sync[s].from + 1 .. old
  <2>4. skipped \in SUBSET Message
    <3>1. \A a, b \in HistoryId : a + 1 .. b \in SUBSET Message
      BY Between
    <3> QED
      BY <2>1, <2>3, <3>1
  <2>5. sync' \in [Sync -> Job] /\ passed' \subseteq Message
    <3>1. Process(s, Listed(old), 0, skipped)
      BY <2>2
    <3> HIDE DEF skipped
    <3> QED
      BY <2>1, <2>3, <2>4, <3>1, ProcessKeepsTypes
  <2> QED
    BY <1>15, <2>2, <2>5 DEF CursorFails, Fault, Process, user, tables
<1>16. ASSUME NEW s \in Sync, NEW m \in Message, MessageFails(s, m)
       PROVE  GmailTypeOK'
  <2>1. PICK stage, next :
           /\ next \in AfterError(stage)
           /\ stage \in Stage \ {"done"}
           /\ Fault
           /\ At(s, m, stage)
           /\ Move(s, m, next)
           /\ passed' \in {passed, passed \cup {m}}
           /\ UNCHANGED <<arrived, user, conn, reset, tables, deleted>>
    BY <1>16 DEF MessageFails
  <2>2. next \in Stage
    BY <2>1 DEF AfterError, Stage, Outcome
  <2>3. sync' \in [Sync -> Job]
    BY <2>1, <2>2, MoveType
  <2> QED
    BY <2>1, <2>3 DEF Fault, user, tables
<1>17. CASE UNCHANGED vars
  BY <1>17 DEF vars, user, tables, history
<1> QED
  BY <1>1, <1>2, <1>3, <1>4, <1>5, <1>6, <1>7, <1>8, <1>9, <1>10, <1>11, <1>12,
     <1>13, <1>14, <1>15, <1>16, <1>17
  DEF Next, Proceed, Fail

(* The state has the declared types. *)
THEOREM GmailTypeCorrect == Spec => []GmailTypeOK
<1>1. Init => GmailTypeOK
  BY MailAssumption, Numbers DEF Init, GmailTypeOK, Idle, Job
<1> QED
  BY <1>1, TypeStep, PTL DEF Spec

-----------------------------------------------------------------------------
(* The cursor and the log *)

Covered(m) == WasStored(m) \/ log[m] = "failed" \/ m \in passed

Underway(s, m) == m \in DOMAIN sync[s].jobs /\ sync[s].jobs[m] # "done"

\* A ride that a worker is about to log as stored or as a duplicate is stored.
OutcomesAreTrue ==
    \A s \in Sync, m \in Rides : \A o \in {"parsed", "skipped"} :
        At(s, m, o) => WasStored(m)

\* A sync takes its cursor from the row, so nothing is open behind it ...
ReadCursorCovers ==
    \A s \in Sync, m \in Rides :
        sync[s].pc = "google" /\ m <= sync[s].from => Covered(m)

\* ... and before the cursor it will store, only what its workers still have.
NextCursorCovers ==
    \A s \in Sync, m \in Rides :
        sync[s].pc = "process" /\ m <= sync[s].next => Covered(m) \/ Underway(s, m)

ResetForgets == reset # None => reset.history = 0

LogInv == LoggedRidesWereStored /\ OutcomesAreTrue

CursorInv == CursorCoversMail /\ ReadCursorCovers /\ NextCursorCovers /\ ResetForgets

(* What a move of one message changes. *)
LEMMA MoveEffect ==
    ASSUME GmailTypeOK, NEW s \in Sync, NEW m \in Message,
           NEW stage, At(s, m, stage), NEW next, Move(s, m, next)
    PROVE  /\ \A q \in Sync \ {s} : sync'[q] = sync[q]
           /\ sync'[s].pc = "process"
           /\ sync'[s].next = sync[s].next
           /\ DOMAIN sync'[s].jobs = DOMAIN sync[s].jobs
           /\ sync'[s].jobs[m] = next
           /\ \A k \in DOMAIN sync[s].jobs \ {m} : sync'[s].jobs[k] = sync[s].jobs[k]
<1>1. sync[s] \in Job /\ sync[s].pc = "process" /\ m \in DOMAIN sync[s].jobs
  BY DEF GmailTypeOK, At
<1>2. sync[s] = [pc |-> "process", id |-> sync[s].id, next |-> sync[s].next,
                 jobs |-> sync[s].jobs]
  BY <1>1 DEF Job
<1>3. /\ sync'[s] = [sync[s] EXCEPT !.jobs[m] = next]
      /\ \A q \in Sync \ {s} : sync'[q] = sync[q]
  BY DEF Move, GmailTypeOK
<1>4. [sync[s] EXCEPT !.jobs[m] = next]
        = [pc |-> "process", id |-> sync[s].id, next |-> sync[s].next,
           jobs |-> [sync[s].jobs EXCEPT ![m] = next]]
  BY <1>2
<1>5. sync'[s].jobs = [sync[s].jobs EXCEPT ![m] = next]
  BY <1>3, <1>4
<1>6. DOMAIN sync'[s].jobs = DOMAIN sync[s].jobs
  BY <1>5
<1>7. sync'[s].jobs[m] = next
  BY <1>1, <1>5, JobFields
<1>8. \A k \in DOMAIN sync[s].jobs \ {m} : sync'[s].jobs[k] = sync[s].jobs[k]
  BY <1>1, <1>5, JobFields
<1> QED
  BY <1>3, <1>4, <1>6, <1>7, <1>8

(* What the tables and the history say of a message stays true of it. *)
LEMMA Kept ==
    ASSUME GmailTypeOK, [Next]_vars, NEW m \in Message
    PROVE  /\ WasStored(m) => WasStored(m)'
           /\ log[m] # None => log'[m] = log[m]
           /\ Covered(m) => Covered(m)'
<1>1. /\ rides[m] # None => rides'[m] # None \/ m \in deleted'
      /\ log[m] # None => log'[m] = log[m]
      /\ deleted \subseteq deleted'
      /\ passed \subseteq passed'
  <2>1. ASSUME NEW k \in Message, DeleteRide(k)
        PROVE  <1>1
    BY <2>1 DEF DeleteRide, GmailTypeOK
  <2>2. ASSUME NEW s \in Sync, NEW k \in Message, Insert(s, k)
        PROVE  <1>1
    BY <2>2 DEF Insert, GmailTypeOK, history
  <2>3. ASSUME NEW s \in Sync, NEW k \in Message, WriteLog(s, k)
        PROVE  <1>1
    BY <2>3 DEF WriteLog, GmailTypeOK, history
  <2>4. CASE UNCHANGED <<tables, deleted>> /\ passed \subseteq passed'
    BY <2>4 DEF tables
  <2> QED
    BY <2>1, <2>2, <2>3, <2>4
    DEF Next, vars, Arrive, Revoke, CooldownEnds, Connect, Disconnect, FindForReset,
        SaveReset, StartSyncAll, Begin, Proceed, Fail, RevokedGrant, MarkRevoked,
        ListHistory, ListWindow, ClearError, HandleMessage, LookUp, FindDuplicate,
        Finish, Abort, ListFails, CursorFails, MessageFails, Process, history
<1>2. None # "failed"
  BY NoneIsNoValue DEF Outcome
<1> QED
  BY <1>1, <1>2 DEF WasStored, Covered

(* A ride whose handling ends is stored, logged as failed or passed. *)
LEMMA MessageStep ==
    ASSUME GmailTypeOK, LogInv, [Next]_vars, NEW s \in Sync, NEW m \in Message,
           HandleMessage(s, m) \/ MessageFails(s, m)
    PROVE  /\ conn' = conn /\ reset' = reset
           /\ \E stage, next \in Stage :
                 /\ At(s, m, stage)
                 /\ Move(s, m, next)
                 /\ m \in Rides /\ next \in {"parsed", "skipped"} => WasStored(m)'
                 /\ m \in Rides /\ next = "done" => Covered(m)'
<1>1. conn' = conn /\ reset' = reset
  BY DEF HandleMessage, LookUp, FindDuplicate, Insert, WriteLog, MessageFails
<1>2. log[m] # None /\ m \in Rides => Covered(m)'
  <2>1. log[m] # None /\ m \in Rides => Covered(m)
    BY DEF Covered, LogInv, LoggedRidesWereStored, GmailTypeOK, Outcome, Rides
  <2> QED
    BY <2>1, Kept DEF Rides
<1>3. CASE LookUp(s, m)
  <2>1. m \in Rides => Found(m) = "ingest"
    BY DEF Rides, Found
  <2>2. Found(m) \in Stage
    BY MailAssumption, Numbers, ElementOfSeq DEF Found, Stage, Outcome
  <2>3. CASE log[m] = None
    BY <1>1, <1>3, <2>1, <2>2, <2>3 DEF LookUp, Stage, Outcome
  <2>4. CASE log[m] # None
    BY <1>1, <1>2, <1>3, <2>4 DEF LookUp, Stage, Outcome
  <2> QED
    BY <2>3, <2>4
<1>4. CASE FindDuplicate(s, m)
  <2>1. rides[m] # None => WasStored(m)'
    BY Kept DEF WasStored
  <2> QED
    BY <1>1, <1>4, <2>1 DEF FindDuplicate, Stage, Outcome
<1>5. CASE Insert(s, m)
  <2>1. CASE rides[m] = None
    <3>1. rides'[m] # None
      BY <1>5, <2>1, NoneIsNoValue DEF Insert, GmailTypeOK
    <3>2. At(s, m, "insert") /\ Move(s, m, "parsed") /\ WasStored(m)'
      BY <1>5, <2>1, <3>1 DEF Insert, WasStored
    <3> QED
      BY <1>1, <3>2 DEF Stage, Outcome
  <2>2. CASE rides[m] # None
    BY <1>1, <1>5, <2>2 DEF Insert, Stage, Outcome
  <2> QED
    BY <2>1, <2>2
<1>6. CASE WriteLog(s, m)
  <2>1. PICK o \in Outcome :
           /\ At(s, m, o)
           /\ Move(s, m, "done")
           /\ log' = IF log[m] = None /\ (o = "parsed" => rides[m] = s)
                     THEN [log EXCEPT ![m] = o] ELSE log
    BY <1>6 DEF WriteLog
  <2>2. m \in Rides /\ o \in {"parsed", "skipped"} => Covered(m)'
    BY <2>1, Kept DEF LogInv, OutcomesAreTrue, Covered
  <2>3. o = "failed" /\ log[m] = None => Covered(m)'
    BY <2>1 DEF Covered, GmailTypeOK
  <2>4. m \in Rides => Covered(m)'
    BY <1>2, <2>2, <2>3 DEF Outcome
  <2> QED
    BY <1>1, <2>1, <2>4 DEF Stage
<1>7. CASE MessageFails(s, m)
  <2>1. PICK stage, next :
           /\ stage \in Stage \ {"done"}
           /\ next \in AfterError(stage)
           /\ At(s, m, stage)
           /\ Move(s, m, next)
           /\ passed' = IF next = "done" /\ stage \in {"queued", "failed"}
                        THEN passed \cup {m} ELSE passed
    BY <1>7 DEF MessageFails
  <2>2. next \in {"done", "failed"}
    BY <2>1 DEF AfterError, Stage, Outcome
  <2>3. next = "done" => stage \in {"queued", "failed", "parsed", "skipped"}
    BY <2>1 DEF AfterError, Stage, Outcome
  <2>4. stage \in {"parsed", "skipped"} /\ m \in Rides => Covered(m)'
    BY <2>1, Kept DEF LogInv, OutcomesAreTrue, Covered
  <2>5. stage \in {"queued", "failed"} /\ next = "done" => Covered(m)'
    BY <2>1 DEF Covered
  <2> QED
    BY <1>1, <2>1, <2>2, <2>3, <2>4, <2>5 DEF Stage, Outcome
<1> QED
  BY <1>3, <1>4, <1>5, <1>6, <1>7 DEF HandleMessage

\* A step that takes sync s to another place, without handling a message.
Leaves(s) ==
    \E j : /\ Goto(s, j)
           /\ j.pc = "process" => j.jobs = [m \in DOMAIN j.jobs |-> "queued"]

(* The outcomes that workers hold are true, and so is the log. *)
LEMMA LogStep ==
    ASSUME GmailTypeOK, LogInv, [Next]_vars
    PROVE  LogInv'
<1>1. ASSUME NEW s \in Sync, NEW m \in Message,
             HandleMessage(s, m) \/ MessageFails(s, m)
      PROVE  LogInv'
  <2>1. PICK stage, next \in Stage :
           /\ At(s, m, stage)
           /\ Move(s, m, next)
           /\ m \in Rides /\ next \in {"parsed", "skipped"} => WasStored(m)'
    BY <1>1, MessageStep
  <2>2. OutcomesAreTrue'
    <3> SUFFICES ASSUME NEW q \in Sync, NEW k \in Rides, NEW o \in {"parsed", "skipped"},
                        At(q, k, o)'
                 PROVE  WasStored(k)'
      BY DEF OutcomesAreTrue, Rides, Message
    <3>1. At(q, k, o) => WasStored(k)'
      BY Kept DEF LogInv, OutcomesAreTrue, Rides
    <3>2. CASE q # s
      BY <2>1, <3>1, <3>2, MoveEffect DEF At
    <3>3. CASE q = s /\ k # m
      BY <2>1, <3>1, <3>3, MoveEffect DEF At
    <3>4. CASE q = s /\ k = m
      BY <2>1, <3>4, MoveEffect DEF At
    <3> QED
      BY <3>2, <3>3, <3>4
  <2>3. LoggedRidesWereStored'
    <3> SUFFICES ASSUME NEW k \in Rides, log'[k] \in {"parsed", "skipped"}
                 PROVE  WasStored(k)'
      BY DEF LoggedRidesWereStored, Rides, Message
    <3>1. CASE log'[k] = log[k]
      BY <3>1, Kept DEF LogInv, LoggedRidesWereStored, Rides
    <3>2. CASE log'[k] # log[k]
      <4>1. WriteLog(s, m)
        BY <1>1, <3>2 DEF HandleMessage, LookUp, FindDuplicate, Insert, MessageFails, tables
      <4>2. PICK o \in Outcome : At(s, m, o) /\ log' \in {log, [log EXCEPT ![m] = o]}
        BY <4>1 DEF WriteLog
      <4>3. k = m /\ log'[k] = o
        BY <3>2, <4>2 DEF GmailTypeOK, Rides
      <4> QED
        BY <4>2, <4>3, Kept DEF LogInv, OutcomesAreTrue, Rides
    <3> QED
      BY <3>1, <3>2
  <2> QED
    BY <2>2, <2>3 DEF LogInv
<1>2. ASSUME log' = log,
             \A q \in Sync, k \in Message : \A o \in {"parsed", "skipped"} :
                 At(q, k, o)' => At(q, k, o)
      PROVE  LogInv'
  BY <1>2, Kept DEF LogInv, LoggedRidesWereStored, OutcomesAreTrue, Rides, Message
<1>3. ASSUME NEW s \in Sync, Leaves(s), log' = log
      PROVE  LogInv'
  <2>1. \A q \in Sync, k \in Message : \A o \in {"parsed", "skipped"} :
            At(q, k, o)' => At(q, k, o)
    BY <1>3 DEF Leaves, Goto, At, GmailTypeOK
  <2> QED
    BY <1>2, <1>3, <2>1
<1>4. CASE UNCHANGED <<sync, log>>
  BY <1>2, <1>4 DEF At
<1>5. ASSUME NEW s \in Sync,
             \/ StartSyncAll(s) \/ Begin(s) \/ RevokedGrant(s) \/ MarkRevoked(s)
             \/ ClearError(s) \/ Finish(s) \/ Abort(s) \/ ListFails(s)
      PROVE  LogInv'
  <2>1. Leaves(s) /\ log' = log
    BY <1>5 DEF StartSyncAll, Begin, RevokedGrant, MarkRevoked, ClearError, Finish,
                Abort, ListFails, Leaves, Idle, AtGoogle, tables
  <2> QED
    BY <1>3, <2>1
<1>6. ASSUME NEW s \in Sync, ListHistory(s) \/ ListWindow(s) \/ CursorFails(s)
      PROVE  LogInv'
  <2>1. \E page, next, skipped : Process(s, page, next, skipped)
    BY <1>6 DEF ListHistory, ListWindow, CursorFails
  <2>2. Leaves(s) /\ log' = log
    BY <2>1 DEF Process, Leaves, tables
  <2> QED
    BY <1>3, <2>2
<1> QED
  BY <1>1, <1>4, <1>5, <1>6
  DEF Next, vars, tables, Arrive, Revoke, CooldownEnds, Connect, Disconnect, FindForReset,
      SaveReset, DeleteRide, Proceed, Fail

(* The log never hides a ride that was not stored. *)
THEOREM LogIsTrue == Spec => []LoggedRidesWereStored
<1>1. Init => LogInv
  BY NoneIsNoValue DEF Init, LogInv, LoggedRidesWereStored, OutcomesAreTrue, Idle, At,
                       Rides, Outcome
<1>2. GmailTypeOK /\ LogInv /\ [Next]_vars => LogInv'
  BY LogStep
<1>3. LogInv => LoggedRidesWereStored
  BY DEF LogInv
<1> QED
  BY <1>1, <1>2, <1>3, GmailTypeCorrect, PTL DEF Spec

(* A listed page keeps what lies between the old cursor and the new one: as    *)
(* a job of the sync, or passed.                                               *)
LEMMA ProcessStep ==
    ASSUME GmailTypeOK, CursorInv, [Next]_vars, NEW s \in Sync, sync[s].pc = "google",
           NEW page, NEW next, NEW skipped, Process(s, page, next, skipped),
           \A m \in Rides : sync[s].from < m /\ m <= next => m \in page \cup skipped
    PROVE  CursorInv'
<1>1. /\ \A q \in Sync \ {s} : sync'[q] = sync[q]
      /\ sync'[s].pc = "process"
      /\ sync'[s].next = next
      /\ sync'[s].jobs = [m \in page |-> "queued"]
  BY DEF Process, Goto, GmailTypeOK
<1>2. UNCHANGED <<conn, reset>> /\ passed' = passed \cup skipped
  BY DEF Process
<1>3. \A m \in Rides : Covered(m) => Covered(m)'
  BY Kept DEF Rides
<1>4. CursorCoversMail' /\ ResetForgets'
  BY <1>2, <1>3 DEF CursorInv, CursorCoversMail, ResetForgets, Covered, Rides, Message
<1>5. ReadCursorCovers'
  BY <1>1, <1>3 DEF CursorInv, ReadCursorCovers, Rides, Message
<1>6. NextCursorCovers'
  <2> SUFFICES ASSUME NEW q \in Sync, NEW m \in Rides,
                      sync'[q].pc = "process", m <= sync'[q].next
               PROVE  Covered(m)' \/ Underway(q, m)'
    BY DEF NextCursorCovers, Rides, Message
  <2>1. CASE q # s
    BY <1>1, <1>3, <2>1 DEF CursorInv, NextCursorCovers, Underway
  <2>2. CASE q = s /\ m <= sync[s].from
    BY <1>3, <2>2 DEF CursorInv, ReadCursorCovers
  <2>3. CASE q = s /\ sync[s].from < m
    <3>1. m \in page \cup skipped
      BY <1>1, <2>3
    <3>2. m \in page => Underway(s, m)'
      BY <1>1 DEF Underway
    <3>3. m \in skipped => Covered(m)'
      BY <1>2 DEF Covered
    <3> QED
      BY <2>3, <3>1, <3>2, <3>3
  <2>4. sync[s].from \in HistoryId /\ m \in Message
    BY JobFields DEF GmailTypeOK, Rides
  <2> QED
    BY <2>1, <2>2, <2>3, <2>4, Numbers
<1> QED
  BY <1>4, <1>5, <1>6 DEF CursorInv

(* Every step keeps the cursors honest. *)
LEMMA CursorStep ==
    ASSUME GmailTypeOK, LogInv, CursorInv, [Next]_vars
    PROVE  CursorInv'
<1>1. \A m \in Rides : Covered(m) => Covered(m)'
  BY Kept DEF Rides
<1>2. ASSUME CursorCoversMail', ResetForgets',
             \A q \in Sync : sync'[q] = sync[q] \/ sync'[q].pc \notin {"google", "process"}
      PROVE  CursorInv'
  BY <1>1, <1>2 DEF CursorInv, ReadCursorCovers, NextCursorCovers, Underway, Rides, Message
<1>3. ASSUME sync' = sync,
             conn' # None => \/ conn # None /\ conn'.history = conn.history
                             \/ conn'.history = 0,
             ResetForgets'
      PROVE  CursorInv'
  <2>1. CursorCoversMail'
    <3> SUFFICES ASSUME conn' # None, NEW m \in Rides, m <= conn'.history
                 PROVE  Covered(m)'
      BY DEF CursorCoversMail, Covered, Rides, Message
    <3>1. conn'.history # 0
      BY Numbers DEF Rides
    <3> QED
      BY <1>1, <1>3, <3>1 DEF CursorInv, CursorCoversMail, Covered
  <2> QED
    BY <1>2, <1>3, <2>1
<1>4. CASE Arrive \/ Revoke \/ Disconnect \/ UNCHANGED vars
  BY <1>3, <1>4 DEF Arrive, Revoke, Disconnect, vars, CursorInv, ResetForgets
<1>5. CASE CooldownEnds \/ Connect
  BY <1>3, <1>5 DEF CooldownEnds, Connect, CursorInv, ResetForgets, GmailTypeOK, Connection
<1>6. CASE FindForReset \/ SaveReset
  BY <1>3, <1>6 DEF FindForReset, SaveReset, CursorInv, ResetForgets, GmailTypeOK, Connection
<1>7. ASSUME NEW m \in Message, DeleteRide(m)
      PROVE  CursorInv'
  BY <1>3, <1>7 DEF DeleteRide, CursorInv, ResetForgets
<1>8. ASSUME NEW s \in Sync, Begin(s)
      PROVE  CursorInv'
  <2>1. UNCHANGED <<conn, reset>> /\ \A q \in Sync \ {s} : sync'[q] = sync[q]
    BY <1>8 DEF Begin, Goto, GmailTypeOK
  <2>2. sync'[s] = IF conn = None THEN Idle ELSE AtGoogle(conn)
    BY <1>8 DEF Begin, Goto, GmailTypeOK
  <2>3. CursorCoversMail' /\ ResetForgets'
    BY <1>1, <2>1 DEF CursorInv, CursorCoversMail, ResetForgets, Covered, Rides, Message
  <2>4. ReadCursorCovers'
    <3> SUFFICES ASSUME NEW q \in Sync, NEW m \in Rides,
                        sync'[q].pc = "google", m <= sync'[q].from
                 PROVE  Covered(m)'
      BY DEF ReadCursorCovers, Rides, Message
    <3>1. CASE q # s
      BY <1>1, <2>1, <3>1 DEF CursorInv, ReadCursorCovers
    <3>2. CASE q = s
      <4>1. conn # None /\ m <= conn.history
        BY <2>2, <3>2 DEF Idle, AtGoogle
      <4> QED
        BY <1>1, <4>1 DEF CursorInv, CursorCoversMail, Covered
    <3> QED
      BY <3>1, <3>2
  <2>5. NextCursorCovers'
    BY <1>1, <2>1, <2>2 DEF CursorInv, NextCursorCovers, Underway, Idle, AtGoogle, Rides, Message
  <2> QED
    BY <2>3, <2>4, <2>5 DEF CursorInv
<1>9. ASSUME NEW s \in Sync, Finish(s)
      PROVE  CursorInv'
  <2>1. /\ reset' = reset
        /\ \A q \in Sync : sync'[q] = sync[q] \/ sync'[q].pc \notin {"google", "process"}
    BY <1>9 DEF Finish, Goto, Idle, GmailTypeOK
  <2>2. \A m \in Rides : m <= sync[s].next => Covered(m)
    BY <1>9 DEF CursorInv, NextCursorCovers, Underway, Finish
  <2>3. conn' # None => /\ conn # None
                        /\ conn'.history \in {conn.history, sync[s].next}
    BY <1>9 DEF Finish, UpdateFields, Synced, GmailTypeOK, Connection
  <2>4. CursorCoversMail'
    BY <1>1, <2>2, <2>3 DEF CursorInv, CursorCoversMail, Covered, Rides, Message
  <2>5. ResetForgets'
    BY <2>1 DEF CursorInv, ResetForgets
  <2> QED
    BY <1>2, <2>1, <2>4, <2>5
<1>10. ASSUME NEW s \in Sync,
              \/ StartSyncAll(s) \/ RevokedGrant(s) \/ MarkRevoked(s)
              \/ ClearError(s) \/ Abort(s) \/ ListFails(s)
       PROVE  CursorInv'
  <2>1. /\ reset' = reset
        /\ \A q \in Sync : sync'[q] = sync[q] \/ sync'[q].pc \notin {"google", "process"}
    BY <1>10 DEF StartSyncAll, RevokedGrant, MarkRevoked, ClearError, Abort, ListFails,
                 Goto, Idle, GmailTypeOK
  <2>2. conn' # None => conn # None /\ conn'.history = conn.history
    BY <1>10 DEF StartSyncAll, RevokedGrant, MarkRevoked, ClearError, Abort, ListFails,
                 UpdateFields, GmailTypeOK, Connection
  <2>3. CursorCoversMail'
    BY <1>1, <2>2 DEF CursorInv, CursorCoversMail, Covered, Rides, Message
  <2>4. ResetForgets'
    BY <2>1 DEF CursorInv, ResetForgets
  <2> QED
    BY <1>2, <2>1, <2>3, <2>4
<1>11. ASSUME NEW s \in Sync, ListHistory(s)
       PROVE  CursorInv'
  <2> DEFINE page == {m \in sync[s].from + 1 .. arrived : m <= sync[s].from + Batch}
             skipped == (sync[s].from + 1 .. arrived) \ page
  <2>1. sync[s].pc = "google" /\ Process(s, page, arrived, skipped)
    BY <1>11 DEF ListHistory, Granted
  <2>2. sync[s].from \in HistoryId /\ arrived \in HistoryId
    BY <2>1, JobFields DEF GmailTypeOK
  <2>3. \A m \in Rides : sync[s].from < m /\ m <= arrived => m \in page \cup skipped
    <3>1. \A m \in Message : sync[s].from < m /\ m <= arrived => m \in sync[s].from + 1 .. arrived
      BY <2>2, Numbers
    <3> QED
      BY <3>1 DEF Rides
  <2> HIDE DEF page, skipped
  <2> QED
    BY <2>1, <2>3, ProcessStep
<1>12. ASSUME NEW s \in Sync, ListWindow(s)
       PROVE  CursorInv'
  <2>1. PICK old \in Old(s) :
          Process(s, Listed(old), NextOf(Listed(old)),
                  (sync[s].from + 1 .. Max({old, NextOf(Listed(old))})) \ Listed(old))
    BY <1>12 DEF ListWindow, NextOf
  <2> DEFINE next == NextOf(Listed(old))
             skipped == (sync[s].from + 1 .. Max({old, next})) \ Listed(old)
  <2>2. sync[s].pc = "google" /\ Process(s, Listed(old), next, skipped)
    BY <1>12, <2>1 DEF ListWindow, Granted
  <2>3. /\ sync[s].from \in HistoryId
        /\ next \in HistoryId
        /\ Max({old, next}) \in HistoryId
        /\ next <= Max({old, next})
    BY <2>2, JobFields, WindowTypes DEF GmailTypeOK
  <2>4. \A m \in Rides : sync[s].from < m /\ m <= next => m \in Listed(old) \cup skipped
    <3>1. \A top \in HistoryId, m \in Message :
             next <= top /\ sync[s].from < m /\ m <= next => m \in sync[s].from + 1 .. top
      <4> HIDE DEF next
      <4> QED
        BY <2>3, Numbers
    <3> QED
      BY <2>3, <3>1 DEF Rides
  <2> HIDE DEF next, skipped
  <2> QED
    BY <2>2, <2>4, ProcessStep
<1>13. ASSUME NEW s \in Sync, CursorFails(s)
       PROVE  CursorInv'
  <2>1. PICK old \in Old(s) : Process(s, Listed(old), 0, sync[s].from + 1 .. old)
    BY <1>13 DEF CursorFails
  <2>2. sync[s].pc = "google"
    BY <1>13 DEF CursorFails, Granted
  <2>3. \A m \in Rides : ~ (m <= 0)
    BY Numbers DEF Rides
  <2> QED
    BY <2>1, <2>2, <2>3, ProcessStep
<1>14. ASSUME NEW s \in Sync, NEW m \in Message,
              HandleMessage(s, m) \/ MessageFails(s, m)
       PROVE  CursorInv'
  <2>1. PICK stage, next \in Stage :
           /\ At(s, m, stage)
           /\ Move(s, m, next)
           /\ m \in Rides /\ next = "done" => Covered(m)'
    BY <1>14, MessageStep
  <2>2. conn' = conn /\ reset' = reset
    BY <1>14, MessageStep
  <2>3. CursorCoversMail' /\ ResetForgets'
    BY <1>1, <2>2 DEF CursorInv, CursorCoversMail, ResetForgets, Covered, Rides, Message
  <2>4. ReadCursorCovers'
    BY <1>1, <2>1, MoveEffect DEF CursorInv, ReadCursorCovers, Rides, Message
  <2>5. NextCursorCovers'
    <3> SUFFICES ASSUME NEW q \in Sync, NEW k \in Rides,
                        sync'[q].pc = "process", k <= sync'[q].next
                 PROVE  Covered(k)' \/ Underway(q, k)'
      BY DEF NextCursorCovers, Rides, Message
    <3>1. CASE q # s
      BY <1>1, <2>1, <3>1, MoveEffect DEF CursorInv, NextCursorCovers, Underway
    <3>2. CASE q = s
      <4>1. Covered(k) \/ Underway(s, k)
        BY <2>1, <3>2, MoveEffect DEF CursorInv, NextCursorCovers, At
      <4>2. CASE k # m
        BY <1>1, <2>1, <3>2, <4>1, <4>2, MoveEffect DEF Underway
      <4>3. CASE k = m
        BY <2>1, <3>2, <4>3, MoveEffect DEF Underway, At
      <4> QED
        BY <4>2, <4>3
    <3> QED
      BY <3>1, <3>2
  <2> QED
    BY <2>3, <2>4, <2>5 DEF CursorInv
<1> QED
  BY <1>4, <1>5, <1>6, <1>7, <1>8, <1>9, <1>10, <1>11, <1>12, <1>13, <1>14
  DEF Next, Proceed, Fail

(* Behind the stored cursor nothing is left undone. *)
THEOREM CursorIsHonest == Spec => []CursorCoversMail
<1>1. Init => LogInv /\ CursorInv
  BY NoneIsNoValue
  DEF Init, LogInv, LoggedRidesWereStored, OutcomesAreTrue, CursorInv, CursorCoversMail,
      ReadCursorCovers, NextCursorCovers, ResetForgets, Idle, At, Rides, Outcome
<1>2. GmailTypeOK /\ LogInv /\ CursorInv /\ [Next]_vars => LogInv' /\ CursorInv'
  BY LogStep, CursorStep
<1>3. CursorInv => CursorCoversMail
  BY DEF CursorInv
<1> QED
  BY <1>1, <1>2, <1>3, GmailTypeCorrect, PTL DEF Spec

=============================================================================
