--------------------------- MODULE ReceiptsProofs ---------------------------
(***************************************************************************)
(* Proofs about Receipts: the calls to Groq that run at one time and that  *)
(* a message costs, which messages a sync or an enrichment puts aside for   *)
(* good, and that rides are recognised as the trips that were tracked.     *)
(***************************************************************************)
EXTENDS Receipts, FiniteSetTheorems, TLAPS

Stage == {"queued", "slot", "call", "pause", "text", "place", "insert", "log", "done"}
JobOf(read) ==
    [at : Stage, tries : Nat, read : {read}, out : {None, "parsed", "skipped", "failed"}]
IsJob(j) == j \in JobOf(j.read)
TypeInv ==
    /\ mail \in Mailboxes
    /\ job = [m \in Message |-> job[m]]
    /\ \A m \in Message : IsJob(job[m])
    /\ slots \in Nat
    /\ log = [m \in Message |-> log[m]] /\ rides = [m \in Message |-> rides[m]]
    /\ verdict \in [Message -> Verdict \cup {None}]

LEMMA InitTypes == Init => TypeInv
BY ReadingAssumption DEF Init, TypeInv, IsJob, JobOf, Job, Stage

(* What the steps do to the message they are about, and to no other. *)
Others(m) == \A o \in Message \ {m} : job'[o] = job[o]
Moves(m, at, tries) ==
    /\ IsJob(job'[m]) /\ job'[m].at = at /\ job'[m].tries = tries
    /\ job' = [o \in Message |-> job'[o]] /\ Others(m)

LEMMA GotoMoves ==
    ASSUME TypeInv, NEW m \in Message, NEW stage \in Stage, Goto(m, stage)
    PROVE  Moves(m, stage, job[m].tries) /\ job'[m].out = job[m].out
BY DEF Goto, TypeInv, IsJob, JobOf, Moves, Others

LEMMA OutcomeMoves ==
    ASSUME TypeInv, NEW m \in Message, 
           NEW status \in {"parsed", "skipped", "failed"}, Outcome(m, status)
    PROVE  Moves(m, "log", job[m].tries) /\ job'[m].out = status
<1> DEFINE j == [job[m] EXCEPT !.at = "log", !.out = status]
<1>0. IsJob(job[m])
  BY DEF TypeInv
<1>1. job' = [job EXCEPT ![m] = j]
  BY DEF Outcome, TypeInv
<1>2. IsJob(j) /\ j.at = "log" /\ j.tries = job[m].tries /\ j.out = status
  BY <1>0 DEF IsJob, JobOf, Stage
<1> HIDE DEF j
<1> QED
  BY <1>1, <1>2 DEF TypeInv, Moves, Others

LEMMA FoundMoves ==
    ASSUME TypeInv, NEW m \in Message, NEW ride, Found(m, ride)
    PROVE  Moves(m, "place", job[m].tries)
<1> DEFINE j == [job[m] EXCEPT !.at = "place", !.read = ride]
<1>0. IsJob(job[m])
  BY DEF TypeInv
<1>1. job' = [job EXCEPT ![m] = j]
  BY DEF Found, TypeInv
<1>2. IsJob(j) /\ j.at = "place" /\ j.tries = job[m].tries
  BY <1>0 DEF IsJob, JobOf, Stage
<1> HIDE DEF j
<1> QED
  BY <1>1, <1>2 DEF TypeInv, Moves, Others

LEMMA UnansweredMoves ==
    ASSUME TypeInv, NEW m \in Message, job' = [job EXCEPT ![m] = Unanswered(m)]
    PROVE  Moves(m, IF Left(m) THEN "done" ELSE "text", job[m].tries)
<1> DEFINE stage == IF Left(m) THEN "done" ELSE "text"
           j == [job[m] EXCEPT !.at = stage]
<1>0. IsJob(job[m]) /\ stage \in Stage
  BY DEF TypeInv, Stage
<1>1. job' = [job EXCEPT ![m] = j]
  BY DEF Unanswered
<1> HIDE DEF stage
<1>2. IsJob(j) /\ j.at = stage /\ j.tries = job[m].tries
  BY <1>0 DEF IsJob, JobOf
<1> HIDE DEF j
<1>3. Moves(m, stage, job[m].tries)
  BY <1>1, <1>2 DEF TypeInv, Moves, Others
<1> QED
  BY <1>3 DEF stage

LEMMA GiveUpMoves ==
    ASSUME TypeInv, NEW m \in Message, NEW free, GiveUp(m, free)
    PROVE  Moves(m, IF Left(m) THEN "done" ELSE "text", job[m].tries + 1)
<1> DEFINE stage == IF Left(m) THEN "done" ELSE "text"
           n == job[m].tries + 1
           j == [job[m] EXCEPT !.at = stage, !.tries = n]
<1>0. IsJob(job[m]) /\ stage \in Stage /\ job[m].tries \in Nat
  BY DEF TypeInv, Stage, IsJob, JobOf
<1>1. job' = [job EXCEPT ![m] = j]
  <2>1. [Unanswered(m) EXCEPT !.tries = Unanswered(m).tries + 1] = j
    BY <1>0 DEF Unanswered, IsJob, JobOf
  <2> QED
    BY <2>1 DEF GiveUp
<1>2. n \in Nat
  BY <1>0
<1> HIDE DEF stage, n
<1>3. IsJob(j) /\ j.at = stage /\ j.tries = n
  BY <1>0, <1>2 DEF IsJob, JobOf
<1> HIDE DEF j
<1>4. Moves(m, stage, n)
  BY <1>1, <1>3 DEF TypeInv, Moves, Others
<1> QED
  BY <1>4 DEF stage, n

LEMMA PausedMoves ==
    ASSUME TypeInv, NEW m \in Message, NEW free, Paused(m, free)
    PROVE  Moves(m, "pause", job[m].tries + 1)
<1> DEFINE n == job[m].tries + 1
           j == [job[m] EXCEPT !.at = "pause", !.tries = n]
<1>0. IsJob(job[m]) /\ job[m].tries \in Nat
  BY DEF TypeInv, IsJob, JobOf
<1>1. job' = [job EXCEPT ![m] = j]
  BY DEF Paused, TypeInv
<1>2. n \in Nat
  BY <1>0
<1> HIDE DEF n
<1>3. IsJob(j) /\ j.at = "pause" /\ j.tries = n
  BY <1>0, <1>2 DEF IsJob, JobOf, Stage
<1> HIDE DEF j
<1>4. Moves(m, "pause", n)
  BY <1>1, <1>3 DEF TypeInv, Moves, Others
<1> QED
  BY <1>4 DEF n

LEMMA PlaceMoves ==
    ASSUME TypeInv, NEW m \in Message, Place(m)
    PROVE  Moves(m, "insert", job[m].tries)
<1>1. PICK ride : job' = [job EXCEPT ![m].at = "insert", ![m].read = ride]
  BY DEF Place
<1> DEFINE j == [job[m] EXCEPT !.at = "insert", !.read = ride]
<1>0. IsJob(job[m])
  BY DEF TypeInv
<1>2. job' = [job EXCEPT ![m] = j]
  BY <1>1 DEF TypeInv
<1>3. IsJob(j) /\ j.at = "insert" /\ j.tries = job[m].tries
  BY <1>0 DEF IsJob, JobOf, Stage
<1> HIDE DEF j
<1> QED
  BY <1>2, <1>3 DEF TypeInv, Moves, Others

LEMMA DoneMoves ==
    ASSUME TypeInv, NEW m \in Message, job' = [job EXCEPT ![m] = Job("done")]
    PROVE  Moves(m, "done", 0)
<1>1. IsJob(Job("done")) /\ Job("done").at = "done" /\ Job("done").tries = 0
  BY DEF IsJob, JobOf, Job, Stage
<1> QED
  BY <1>1 DEF TypeInv, Moves, Others

-----------------------------------------------------------------------------
(* Groq *)

InCall(stage) == stage \in {"call", "pause"}
Calling(j) == {m \in Message : InCall(j[m].at)}

(* The calls that run or will be tried again hold a slot each; and a call   *)
(* is never the one after the last.                                        *)
TriesOK(stage, tries) ==
    /\ tries <= MaxAttempts
    /\ InCall(stage) => tries < MaxAttempts
    /\ stage \in {"queued", "slot"} => tries = 0
GroqInv ==
    /\ slots + Cardinality(Calling(job)) = Slots
    /\ \A m \in Message : TriesOK(job[m].at, job[m].tries)

(* What a step of a message may do with its slot and its tries. *)
KeepsSlots(m) ==
    \E stage \in Stage, n \in Nat :
        /\ Moves(m, stage, n) /\ TriesOK(stage, n) /\ slots' \in Nat
        /\ slots' = slots + (IF InCall(job[m].at) THEN 1 ELSE 0)
                          - (IF InCall(stage) THEN 1 ELSE 0)

LEMMA JobFields ==
    ASSUME TypeInv, GroqInv, NEW m \in Message
    PROVE  /\ job[m].tries \in Nat /\ job[m].at \in Stage /\ slots \in Nat
           /\ TriesOK(job[m].at, job[m].tries) /\ MaxAttempts \in Nat \ {0}
BY ReadingAssumption DEF TypeInv, IsJob, JobOf, GroqInv

LEMMA SlotsAreKept ==
    ASSUME TypeInv, GroqInv, NEW m \in Message, Handle(m)
    PROVE  KeepsSlots(m)
<1>0. /\ job[m].tries \in Nat /\ job[m].at \in Stage /\ slots \in Nat
      /\ TriesOK(job[m].at, job[m].tries) /\ MaxAttempts \in Nat \ {0}
  BY JobFields
<1>1. ASSUME NEW stage \in Stage \ {"queued", "slot"}, Moves(m, stage, job[m].tries),
             slots' = slots, InCall(job[m].at) = InCall(stage)
      PROVE  KeepsSlots(m)
  BY <1>0, <1>1 DEF KeepsSlots, TriesOK
<1>2. CASE Take(m)
  <2>1. job[m].at = "queued" /\ slots' = slots
    BY <1>2 DEF Take, At
  <2>2. \/ Goto(m, "done") \/ Goto(m, "slot") \/ Goto(m, "text")
        \/ Outcome(m, "skipped") \/ Outcome(m, "failed")
    BY <1>2 DEF Take
  <2>3. PICK stage \in {"done", "slot", "text", "log"} : Moves(m, stage, job[m].tries)
    BY <2>2, GotoMoves, OutcomeMoves DEF Stage
  <2> QED
    BY <1>0, <2>1, <2>3 DEF KeepsSlots, TriesOK, InCall, Stage
<1>3. CASE Enrich(m)
  <2>1. job[m].at = "queued" /\ slots' = slots
    BY <1>3 DEF Enrich, At
  <2>2. \/ Goto(m, "done") \/ Goto(m, "slot") \/ Outcome(m, "skipped")
    BY <1>3 DEF Enrich
  <2>3. PICK stage \in {"done", "slot", "log"} : Moves(m, stage, job[m].tries)
    BY <2>2, GotoMoves, OutcomeMoves DEF Stage
  <2> QED
    BY <1>0, <2>1, <2>3 DEF KeepsSlots, TriesOK, InCall, Stage
<1>4. CASE EnrichedElsewhere(m)
  <2>1. job[m].at = "queued" /\ slots' = slots /\ Moves(m, "done", job[m].tries)
    BY <1>4, GotoMoves DEF EnrichedElsewhere, At, Stage
  <2> QED
    BY <1>0, <2>1 DEF KeepsSlots, TriesOK, InCall, Stage
<1>5. CASE Acquire(m)
  <2>1. /\ job[m].at = "slot" /\ slots > 0 /\ slots' = slots - 1
        /\ Moves(m, "call", job[m].tries)
    BY <1>5, GotoMoves DEF Acquire, At, Stage
  <2> QED
    BY <1>0, <2>1 DEF KeepsSlots, TriesOK, InCall, Stage
<1>6. CASE AnswerRide(m) \/ AnswerNoReceipt(m) \/ Refused(m)
  <2>1. job[m].at = "call" /\ slots' = slots + 1
    BY <1>6 DEF AnswerRide, AnswerNoReceipt, Refused, Answered, At
  <2>2. PICK stage \in {"place", "log", "text", "done"} : Moves(m, stage, job[m].tries)
    BY <1>6, FoundMoves, OutcomeMoves, UnansweredMoves
    DEF AnswerRide, AnswerNoReceipt, Refused
  <2> QED
    BY <1>0, <2>1, <2>2 DEF KeepsSlots, TriesOK, InCall, Stage
<1>7. CASE Exhausted(m)
  <2>1. job[m].at = "call" /\ slots' = slots + 1 /\ job[m].tries + 1 = MaxAttempts
    BY <1>7 DEF Exhausted, GiveUp, At
  <2>2. PICK stage \in {"text", "done"} : Moves(m, stage, job[m].tries + 1)
    BY <1>7, GiveUpMoves DEF Exhausted
  <2> QED
    BY <1>0, <2>1, <2>2 DEF KeepsSlots, TriesOK, InCall, Stage
<1>8. CASE Pause(m)
  <2>1. job[m].at = "call" /\ slots' = slots + 0 /\ job[m].tries + 1 < MaxAttempts
    BY <1>8 DEF Pause, Paused, At
  <2>2. Moves(m, "pause", job[m].tries + 1)
    BY <1>8, PausedMoves DEF Pause
  <2> QED
    BY <1>0, <2>1, <2>2 DEF KeepsSlots, TriesOK, InCall, Stage
<1>9. CASE Resume(m)
  <2>1. job[m].at = "pause" /\ slots' = slots /\ Moves(m, "call", job[m].tries)
    BY <1>9, GotoMoves DEF Resume, At, Stage
  <2> QED
    BY <1>0, <2>1 DEF KeepsSlots, TriesOK, InCall, Stage
<1>10. CASE Interrupt(m)
  <2>1. /\ job[m].at \in {"slot", "call", "pause"}
        /\ slots' = slots + (IF job[m].at = "slot" THEN 0 ELSE 1)
    BY <1>10 DEF Interrupt, At
  <2>2. PICK stage \in {"text", "done"} : Moves(m, stage, job[m].tries)
    BY <1>10, UnansweredMoves DEF Interrupt
  <2> QED
    BY <1>0, <2>1, <2>2 DEF KeepsSlots, TriesOK, InCall, Stage
<1>11. CASE ReadText(m)
  <2>1. job[m].at = "text" /\ slots' = slots
    BY <1>11 DEF ReadText, At
  <2>2. (\E ride : Found(m, ride)) \/ Outcome(m, "skipped") \/ Outcome(m, "failed")
    BY <1>11 DEF ReadText
  <2>3. PICK stage \in {"place", "log"} : Moves(m, stage, job[m].tries)
    BY <2>2, FoundMoves, OutcomeMoves
  <2> QED
    BY <1>1, <2>1, <2>3 DEF InCall, Stage
<1>12. CASE Place(m)
  <2>1. job[m].at = "place" /\ slots' = slots /\ Moves(m, "insert", job[m].tries)
    BY <1>12, PlaceMoves DEF Place, At
  <2> QED
    BY <1>1, <2>1 DEF InCall, Stage
<1>13. CASE Insert(m)
  <2>1. job[m].at = "insert" /\ slots' = slots
    BY <1>13 DEF Insert, At
  <2>2. Moves(m, "log", job[m].tries)
    BY <1>13, OutcomeMoves DEF Insert
  <2> QED
    BY <1>1, <2>1, <2>2 DEF InCall, Stage
<1>14. CASE WriteLog(m) \/ UpdateLog(m)
  <2>1. job[m].at = "log" /\ slots' = slots /\ job' = [job EXCEPT ![m] = Job("done")]
    BY <1>14 DEF WriteLog, Logged, UpdateLog, At
  <2>2. Moves(m, "done", 0)
    BY <2>1, DoneMoves
  <2> QED
    BY <1>0, <2>1, <2>2 DEF KeepsSlots, TriesOK, InCall, Stage
<1> QED
  BY <1>2, <1>3, <1>4, <1>5, <1>6, <1>7, <1>8, <1>9, <1>10, <1>11, <1>12, <1>13, <1>14
  DEF Handle, Ask

(* A step of a message changes nothing of the others; shutdowns, faults and *)
(* the outcomes of other syncs are never undone.                           *)
Aside(m) ==
    /\ mail' = mail /\ groq' = groq /\ hit \subseteq hit'
    /\ log' = [o \in Message |-> log'[o]] /\ rides' = [o \in Message |-> rides'[o]]
    /\ verdict' \in [Message -> Verdict \cup {None}]
    /\ \A o \in Message \ {m} :
         log'[o] = log[o] /\ rides'[o] = rides[o] /\ verdict'[o] = verdict[o]

LEMMA HandleAside ==
    ASSUME TypeInv, NEW m \in Message, Handle(m)
    PROVE  Aside(m) /\ stopping' = stopping
<1>0. /\ log = [o \in Message |-> log[o]] /\ rides = [o \in Message |-> rides[o]]
      /\ verdict \in [Message -> Verdict \cup {None}]
  BY DEF TypeInv
<1>1. /\ mail' = mail /\ groq' = groq /\ stopping' = stopping /\ hit \subseteq hit'
  BY DEF Handle, Take, Enrich, EnrichedElsewhere, Ask, Acquire, AnswerRide, AnswerNoReceipt,
     Refused, Answered, Exhausted, GiveUp, Pause, Paused, Resume, Interrupt, ReadText, Place,
     Insert, WriteLog, Logged, UpdateLog, NoFault, Fault
<1>2. log' = log \/ \E status : log' = [log EXCEPT ![m] = status]
  BY DEF Handle, Take, Enrich, EnrichedElsewhere, Ask, Acquire, AnswerRide, AnswerNoReceipt,
     Refused, Answered, Exhausted, GiveUp, Pause, Paused, Resume, Interrupt, ReadText, Place,
     Insert, WriteLog, Logged, UpdateLog
<1>3. rides' = rides \/ rides' = [rides EXCEPT ![m] = job[m].read]
  BY DEF Handle, Take, Enrich, EnrichedElsewhere, Ask, Acquire, AnswerRide, AnswerNoReceipt,
     Refused, Answered, Exhausted, GiveUp, Pause, Paused, Resume, Interrupt, ReadText, Place,
     Insert, WriteLog, Logged, UpdateLog
<1>4. \/ verdict' = verdict
      \/ \E kind \in {"ride", "no receipt", "refused"}, found \in SUBSET Field :
           verdict' = [verdict EXCEPT ![m] = [kind |-> kind, found |-> found]]
  <2>1. CASE AnswerRide(m) \/ AnswerNoReceipt(m) \/ Refused(m)
    BY <2>1, ReadingAssumption DEF AnswerRide, AnswerNoReceipt, Refused, Answered
  <2>2. CASE ~(AnswerRide(m) \/ AnswerNoReceipt(m) \/ Refused(m))
    BY <2>2 DEF Handle, Take, Enrich, EnrichedElsewhere, Ask, Acquire,
       Exhausted, GiveUp, Pause, Paused, Resume, Interrupt, ReadText, Place,
       Insert, WriteLog, Logged, UpdateLog
  <2> QED
    BY <2>1, <2>2
<1>5. verdict' \in [Message -> Verdict \cup {None}] /\ \A o \in Message \ {m} : verdict'[o] = verdict[o]
  <2>1. CASE verdict' = verdict
    BY <1>0, <2>1
  <2>2. ASSUME NEW kind \in {"ride", "no receipt", "refused"}, NEW found \in SUBSET Field,
               verdict' = [verdict EXCEPT ![m] = [kind |-> kind, found |-> found]]
        PROVE  /\ verdict' \in [Message -> Verdict \cup {None}]
               /\ \A o \in Message \ {m} : verdict'[o] = verdict[o]
    <3>1. [kind |-> kind, found |-> found] \in Verdict
      BY DEF Verdict
    <3> QED
      BY <1>0, <2>2, <3>1
  <2> QED
    BY <1>4, <2>1, <2>2
<1>6. log' = [o \in Message |-> log'[o]] /\ \A o \in Message \ {m} : log'[o] = log[o]
  BY <1>0, <1>2
<1>7. rides' = [o \in Message |-> rides'[o]] /\ \A o \in Message \ {m} : rides'[o] = rides[o]
  BY <1>0, <1>3
<1> QED
  BY <1>1, <1>5, <1>6, <1>7 DEF Aside

LEMMA CallingChanges ==
    ASSUME TypeInv, NEW m \in Message, NEW stage, NEW n, Moves(m, stage, n)
    PROVE  Cardinality(Calling(job')) + (IF InCall(job[m].at) THEN 1 ELSE 0)
             = Cardinality(Calling(job)) + (IF InCall(stage) THEN 1 ELSE 0)
<1>0. IsFiniteSet(Calling(job)) /\ Cardinality(Calling(job)) \in Nat
  <2>1. Calling(job) \subseteq Message
    BY DEF Calling
  <2> QED
    BY <2>1, MailAssumption, FS_Subset, FS_CardinalityType
<1>1. m \in Calling(job) <=> InCall(job[m].at)
  BY DEF Calling
<1>2. CASE InCall(stage)
  <2>1. Calling(job') = Calling(job) \cup {m}
    BY <1>2 DEF Moves, Others, Calling
  <2>2. CASE InCall(job[m].at)
    <3>1. Calling(job') = Calling(job)
      BY <1>1, <2>1, <2>2
    <3> QED
      BY <1>2, <2>2, <3>1
  <2>3. CASE ~InCall(job[m].at)
    <3>1. Cardinality(Calling(job) \cup {m}) = Cardinality(Calling(job)) + 1
      BY <1>0, <1>1, <2>3, FS_AddElement
    <3> QED
      BY <1>0, <1>2, <2>1, <2>3, <3>1
  <2> QED
    BY <2>2, <2>3
<1>3. CASE ~InCall(stage)
  <2>1. Calling(job') = Calling(job) \ {m}
    BY <1>3 DEF Moves, Others, Calling
  <2>2. CASE InCall(job[m].at)
    <3>1. Cardinality(Calling(job) \ {m}) = Cardinality(Calling(job)) - 1
      BY <1>0, <1>1, <2>2, FS_RemoveElement
    <3> QED
      BY <1>0, <1>3, <2>1, <2>2, <3>1
  <2>3. CASE ~InCall(job[m].at)
    <3>1. Calling(job') = Calling(job)
      BY <1>1, <2>1, <2>3
    <3> QED
      BY <1>3, <2>3, <3>1
  <2> QED
    BY <2>2, <2>3
<1> QED
  BY <1>2, <1>3

LEMMA InitGroq == Init => GroqInv
<1> SUFFICES ASSUME Init PROVE GroqInv
  OBVIOUS
<1>1. \A m \in Message : job[m].at = "queued" /\ job[m].tries = 0
  BY DEF Init, Job
<1>2. Calling(job) = {}
  BY <1>1 DEF Calling, InCall
<1>3. slots + Cardinality(Calling(job)) = Slots
  <2>1. Cardinality(Calling(job)) = 0
    BY <1>2, FS_EmptySet
  <2> QED
    BY <2>1, ReadingAssumption DEF Init
<1> QED
  BY <1>1, <1>3, ReadingAssumption DEF GroqInv, TriesOK, InCall

LEMMA StepGroq ==
    ASSUME TypeInv, GroqInv, [Next]_vars
    PROVE  TypeInv' /\ GroqInv'
<1>1. CASE UNCHANGED vars
  BY <1>1 DEF vars, TypeInv, GroqInv, Calling
<1>2. CASE Shutdown
  BY <1>2 DEF Shutdown, TypeInv, GroqInv, Calling
<1>3. ASSUME NEW m \in Message, OtherSync(m)
      PROVE  TypeInv' /\ GroqInv'
  <2>1. /\ mail' = mail /\ job' = job /\ slots' = slots /\ verdict' = verdict
        /\ log' = log \/ log' = [log EXCEPT ![m] = "parsed"]
        /\ rides' = rides \/ rides' = [rides EXCEPT ![m] = Elsewhere]
    BY <1>3 DEF OtherSync
  <2>2. log' = [o \in Message |-> log'[o]] /\ rides' = [o \in Message |-> rides'[o]]
    BY <2>1 DEF TypeInv
  <2> QED
    BY <2>1, <2>2 DEF TypeInv, GroqInv, Calling
<1>4. ASSUME NEW m \in Message, Handle(m)
      PROVE  TypeInv' /\ GroqInv'
  <2>1. PICK stage \in Stage, n \in Nat :
          /\ Moves(m, stage, n) /\ TriesOK(stage, n) /\ slots' \in Nat
          /\ slots' = slots + (IF InCall(job[m].at) THEN 1 ELSE 0)
                            - (IF InCall(stage) THEN 1 ELSE 0)
    BY <1>4, SlotsAreKept DEF KeepsSlots
  <2>2. Aside(m)
    BY <1>4, HandleAside
  <2>3. TypeInv'
    BY <2>1, <2>2 DEF TypeInv, Moves, Others, Aside
  <2>4. slots' + Cardinality(Calling(job')) = Slots
    <3>1. Cardinality(Calling(job)) \in Nat /\ Cardinality(Calling(job')) \in Nat
      <4>1. Calling(job) \subseteq Message /\ Calling(job') \subseteq Message
        BY DEF Calling
      <4> QED
        BY <4>1, MailAssumption, FS_Subset, FS_CardinalityType
    <3>2. Cardinality(Calling(job')) + (IF InCall(job[m].at) THEN 1 ELSE 0)
             = Cardinality(Calling(job)) + (IF InCall(stage) THEN 1 ELSE 0)
      BY <2>1, CallingChanges
    <3>3. slots \in Nat /\ slots + Cardinality(Calling(job)) = Slots
      BY DEF TypeInv, GroqInv
    <3> QED
      BY <2>1, <3>1, <3>2, <3>3
  <2>5. \A o \in Message : TriesOK(job'[o].at, job'[o].tries)
    BY <2>1 DEF Moves, Others, GroqInv
  <2> QED
    BY <2>3, <2>4, <2>5 DEF GroqInv, Calling
<1> QED
  BY <1>1, <1>2, <1>3, <1>4 DEF Next

LEMMA GroqInvHolds == Spec => [](TypeInv /\ GroqInv)
BY InitTypes, InitGroq, StepGroq, PTL DEF Spec

(* Theorem: for any number of workers and messages, no more calls to Groq   *)
(* run at one time than there are slots, and none is made too often        *)
(* (llm.go, "maxConcurrent caps parallel in-flight HTTP requests").        *)
THEOREM CallsAreLimited == Spec => []GroqIsSpared
<1>1. TypeInv /\ GroqInv => GroqIsSpared
  <2> SUFFICES ASSUME TypeInv, GroqInv PROVE GroqIsSpared
    OBVIOUS
  <2>1. Cardinality({m \in Message : At(m, "call")}) <= Slots
    <3>1. {m \in Message : At(m, "call")} \subseteq Calling(job) /\ Calling(job) \subseteq Message
      BY DEF Calling, At, InCall
    <3>2. /\ Cardinality({m \in Message : At(m, "call")}) <= Cardinality(Calling(job))
          /\ Cardinality({m \in Message : At(m, "call")}) \in Nat
          /\ Cardinality(Calling(job)) \in Nat
      BY <3>1, MailAssumption, FS_Subset, FS_CardinalityType
    <3>3. slots \in Nat /\ slots + Cardinality(Calling(job)) = Slots
      BY DEF TypeInv, GroqInv
    <3> QED
      BY <3>2, <3>3
  <2>2. ASSUME NEW m \in Message
        PROVE  job[m].tries + (IF At(m, "call") THEN 1 ELSE 0) <= MaxAttempts
    BY JobFields DEF At, TriesOK, InCall
  <2> QED
    BY <2>1, <2>2 DEF GroqIsSpared
<1> QED
  BY <1>1, GroqInvHolds, PTL

-----------------------------------------------------------------------------
(* Messages that are put aside *)

(* Why a message may be logged without a ride. *)
Excused(m) ==
    \/ rides[m] # None
    \/ verdict[m] # None /\ verdict[m].kind = "no receipt"
    \/ /\ Left(m)
       /\ \/ ~groq
          \/ verdict[m] # None /\ verdict[m].kind = "ride" /\ (stopping \/ m \in hit)
    \/ ~Left(m) /\ m \in hit
Counts(m) == Left(m) \/ Readable(m)
PutAside == {"skipped", "failed"}

(* A message has its excuse when it is logged; what a shutdown interrupts   *)
(* is not logged, unless it was left.  What was left is not parsed, and is *)
(* a ride only by Groq's word.                                             *)
LoggedOK(m) ==
    /\ log[m] \in PutAside => At(m, "done") /\ (Counts(m) => Excused(m))
    /\ log[m] = "unrecognised" => Left(m)
OutcomeOK(m) ==
    At(m, "log") /\ job[m].out \in PutAside /\ Counts(m) =>
        Excused(m) \/ (~Left(m) /\ stopping)
LeftOK(m) ==
    Left(m) => /\ ~At(m, "text")
               /\ At(m, "place") \/ At(m, "insert") =>
                    verdict[m] # None /\ verdict[m].kind = "ride"
MessageOK(m) == LoggedOK(m) /\ OutcomeOK(m) /\ LeftOK(m)
MessagesInv == \A m \in Message : MessageOK(m)

LEMMA InitMessages == Init => MessagesInv
<1> SUFFICES ASSUME Init, NEW m \in Message PROVE MessageOK(m)
  BY DEF MessagesInv
<1>1. /\ job[m].at = "queued"
      /\ log[m] = IF Left(m) THEN "unrecognised" ELSE None
  BY DEF Init, Job
<1> QED
  BY <1>1, VerdictAssumption DEF MessageOK, LoggedOK, OutcomeOK, LeftOK, PutAside, At

(* A message that others' steps leave alone keeps its excuse. *)
LEMMA ExcuseStays ==
    ASSUME NEW m \in Message, Excused(m), mail' = mail, groq' = groq, hit \subseteq hit',
           stopping => stopping', rides[m] = None \/ rides'[m] = rides[m], verdict'[m] = verdict[m]
    PROVE  Excused(m)'
<1>1. Left(m)' = Left(m)
  BY DEF Left
<1>2. rides[m] # None => rides'[m] # None
  OBVIOUS
<1> QED
  BY <1>1, <1>2 DEF Excused

LEMMA MessageUntouched ==
    ASSUME NEW m \in Message, MessageOK(m), mail' = mail, groq' = groq, hit \subseteq hit',
           stopping => stopping', rides[m] = None \/ rides'[m] = rides[m], verdict'[m] = verdict[m],
           job'[m] = job[m], log'[m] \in {log[m], "parsed"}
    PROVE  MessageOK(m)'
<1>1. (Left(m)' <=> Left(m)) /\ (Counts(m)' <=> Counts(m))
  BY DEF Left, Counts, Readable, Candidate
<1>2. Excused(m) => Excused(m)'
  BY ExcuseStays
<1>3. LoggedOK(m)'
  BY <1>1, <1>2 DEF MessageOK, LoggedOK, PutAside, At
<1>4. OutcomeOK(m)'
  BY <1>1, <1>2 DEF MessageOK, OutcomeOK, At
<1>5. LeftOK(m)'
  BY <1>1 DEF MessageOK, LeftOK, At
<1> QED
  BY <1>3, <1>4, <1>5 DEF MessageOK

(* A receipt that can be read passes the filters and is read. *)
LEMMA ReadablePasses ==
    ASSUME TypeInv, NEW m \in Message, Readable(m)
    PROVE  /\ ~IsCancellation(m) /\ KnownSender(m) /\ Candidate(m)
           /\ mail[m].cancelled # "body" /\ (SnippetIsRead(m) \/ "body" \in mail[m].km)
<1>1. mail[m].km \subseteq {"snippet", "body"}
  BY MailAssumption DEF TypeInv
<1> QED
  BY <1>1 DEF Readable, IsCancellation, KnownSender, Candidate, SnippetIsRead

(* A step that does not log: the message goes to another stage. *)
LEMMA StageReached ==
    ASSUME NEW m \in Message, MessageOK(m), ~At(m, "done"), log' = log, mail' = mail,
           NEW stage, NEW n, Moves(m, stage, n), stage \notin {"text", "place", "insert", "log"}
    PROVE  MessageOK(m)'
BY DEF MessageOK, LoggedOK, OutcomeOK, LeftOK, Left, At, Moves

LEMMA StageRead ==
    ASSUME NEW m \in Message, MessageOK(m), ~At(m, "done"), log' = log, mail' = mail,
           NEW stage \in {"text", "place", "insert"}, NEW n, Moves(m, stage, n),
           Left(m) => /\ stage # "text"
                      /\ verdict'[m] # None /\ verdict'[m].kind = "ride"
    PROVE  MessageOK(m)'
BY DEF MessageOK, LoggedOK, OutcomeOK, LeftOK, Left, At, Moves

(* A step that ends the reading with an outcome. *)
LEMMA OutcomeReached ==
    ASSUME NEW m \in Message, MessageOK(m), ~At(m, "done"), log' = log, mail' = mail,
           stopping' = stopping, NEW n, Moves(m, "log", n),
           job'[m].out \in PutAside /\ Counts(m) => Excused(m)' \/ (~Left(m) /\ stopping)
    PROVE  MessageOK(m)'
<1>1. (Left(m)' <=> Left(m)) /\ (Counts(m)' <=> Counts(m))
  BY DEF Left, Counts, Readable, Candidate
<1>2. LoggedOK(m)'
  BY <1>1 DEF MessageOK, LoggedOK, At
<1>3. OutcomeOK(m)'
  BY <1>1 DEF OutcomeOK, At
<1>4. LeftOK(m)'
  BY DEF LeftOK, At, Moves
<1> QED
  BY <1>2, <1>3, <1>4 DEF MessageOK

LEMMA TakeKeeps ==
    ASSUME TypeInv, NEW m \in Message, MessageOK(m), Take(m)
    PROVE  MessageOK(m)'
<1>0. /\ job[m].at = "queued" /\ ~At(m, "done") /\ ~Left(m) /\ ~Left(m)'
      /\ log' = log /\ mail' = mail /\ stopping' = stopping
  BY DEF Take, At, Left
<1>1. CASE \E stage \in {"done", "slot"} : Goto(m, stage)
  BY <1>0, <1>1, GotoMoves, StageReached DEF Stage
<1>2. CASE Goto(m, "text")
  BY <1>0, <1>2, GotoMoves, StageRead DEF Stage
<1>3. CASE Outcome(m, "skipped") /\ ~Readable(m)
  <2>1. ~Counts(m)
    BY <1>0, <1>3 DEF Counts
  <2>2. Moves(m, "log", job[m].tries)
    BY <1>3, OutcomeMoves
  <2> QED
    BY <1>0, <2>1, <2>2, OutcomeReached
<1>4. CASE Outcome(m, "failed") /\ m \in hit'
  <2>1. Excused(m)'
    BY <1>0, <1>4 DEF Excused
  <2>2. Moves(m, "log", job[m].tries)
    BY <1>4, OutcomeMoves
  <2> QED
    BY <1>0, <2>1, <2>2, OutcomeReached
<1>5. \/ \E stage \in {"done", "slot"} : Goto(m, stage)
      \/ Goto(m, "text")
      \/ Outcome(m, "skipped") /\ ~Readable(m)
      \/ Outcome(m, "failed") /\ m \in hit'
  BY ReadablePasses DEF Take, Fault
<1> QED
  BY <1>1, <1>2, <1>3, <1>4, <1>5

LEMMA EnrichKeeps ==
    ASSUME TypeInv, NEW m \in Message, MessageOK(m), Enrich(m)
    PROVE  MessageOK(m)'
<1>0. /\ job[m].at = "queued" /\ ~At(m, "done") /\ Left(m) /\ Left(m)'
      /\ log' = log /\ mail' = mail /\ stopping' = stopping /\ groq' = groq
  BY DEF Enrich, At, Left, MessageOK, LoggedOK
<1>1. CASE \E stage \in {"done", "slot"} : Goto(m, stage)
  BY <1>0, <1>1, GotoMoves, StageReached DEF Stage
<1>2. CASE Outcome(m, "skipped") /\ ~groq
  <2>1. Excused(m)'
    BY <1>0, <1>2 DEF Excused
  <2>2. Moves(m, "log", job[m].tries)
    BY <1>2, OutcomeMoves
  <2> QED
    BY <1>0, <2>1, <2>2, OutcomeReached
<1> QED
  BY <1>1, <1>2 DEF Enrich

LEMMA AskKeeps ==
    ASSUME TypeInv, NEW m \in Message, MessageOK(m), Ask(m)
    PROVE  MessageOK(m)'
<1>0. /\ ~At(m, "done") /\ log' = log /\ mail' = mail /\ stopping' = stopping
      /\ groq' = groq /\ (Left(m)' <=> Left(m))
  BY DEF Ask, Acquire, AnswerRide, AnswerNoReceipt, Refused, Answered, Exhausted, GiveUp,
     Pause, Paused, Resume, Interrupt, At, Left
<1>1. CASE Acquire(m) \/ Resume(m)
  <2>1. Moves(m, "call", job[m].tries)
    BY <1>1, GotoMoves DEF Acquire, Resume, Stage
  <2> QED
    BY <1>0, <2>1, StageReached
<1>2. CASE Pause(m)
  <2>1. Moves(m, "pause", job[m].tries + 1)
    BY <1>2, PausedMoves DEF Pause
  <2> QED
    BY <1>0, <2>1, StageReached
<1>3. CASE Refused(m) \/ Exhausted(m) \/ Interrupt(m)
  <2>1. PICK n : Moves(m, IF Left(m) THEN "done" ELSE "text", n)
    BY <1>3, UnansweredMoves, GiveUpMoves DEF Refused, Exhausted, Interrupt
  <2>2. CASE Left(m)
    BY <1>0, <2>1, <2>2, StageReached
  <2>3. CASE ~Left(m)
    BY <1>0, <2>1, <2>3, StageRead
  <2> QED
    BY <2>2, <2>3
<1>4. CASE AnswerRide(m)
  <2>1. PICK found \in Reply : Answered(m, "ride", found) /\ Found(m, LLMRide(m, found))
    BY <1>4 DEF AnswerRide
  <2>2. verdict'[m] = [kind |-> "ride", found |-> found] /\ found \in SUBSET Field
    BY <2>1, ReadingAssumption DEF Answered, TypeInv
  <2>3. verdict'[m] # None /\ verdict'[m].kind = "ride"
    <3>1. [kind |-> "ride", found |-> found] \in Verdict
      BY <2>2 DEF Verdict
    <3>2. verdict'[m] # None
      BY <2>2, <3>1, VerdictAssumption
    <3> QED
      BY <2>2, <3>2
  <2>4. Moves(m, "place", job[m].tries)
    BY <2>1, FoundMoves
  <2> QED
    BY <1>0, <2>3, <2>4, StageRead
<1>5. CASE AnswerNoReceipt(m)
  <2>1. verdict'[m] = [kind |-> "no receipt", found |-> {}]
    BY <1>5 DEF AnswerNoReceipt, Answered, TypeInv
  <2>2. verdict'[m] # None /\ verdict'[m].kind = "no receipt"
    <3>1. [kind |-> "no receipt", found |-> {}] \in Verdict
      BY DEF Verdict
    <3>2. verdict'[m] # None
      BY <2>1, <3>1, VerdictAssumption
    <3>3. \A kind, found : [kind |-> kind, found |-> found].kind = kind
      OBVIOUS
    <3>4. verdict'[m].kind = "no receipt"
      BY <2>1, <3>3, Zenon
    <3> QED
      BY <3>2, <3>4
  <2>3. Excused(m)'
    BY <2>2 DEF Excused
  <2>4. Moves(m, "log", job[m].tries)
    BY <1>5, OutcomeMoves DEF AnswerNoReceipt
  <2> QED
    BY <1>0, <2>3, <2>4, OutcomeReached
<1> QED
  BY <1>1, <1>2, <1>3, <1>4, <1>5 DEF Ask

LEMMA ReadTextKeeps ==
    ASSUME TypeInv, NEW m \in Message, MessageOK(m), ReadText(m)
    PROVE  MessageOK(m)'
<1>0. /\ job[m].at = "text" /\ ~At(m, "done") /\ ~Left(m) /\ ~Left(m)'
      /\ log' = log /\ mail' = mail /\ stopping' = stopping
  BY DEF ReadText, At, Left, MessageOK, LeftOK
<1>1. CASE \E ride : Found(m, ride)
  BY <1>0, <1>1, FoundMoves, StageRead
<1>2. CASE ~Readable(m) /\ \E status \in PutAside : Outcome(m, status)
  <2>1. ~Counts(m)
    BY <1>0, <1>2 DEF Counts
  <2>2. Moves(m, "log", job[m].tries)
    BY <1>2, OutcomeMoves DEF PutAside
  <2> QED
    BY <1>0, <2>1, <2>2, OutcomeReached
<1> QED
  BY <1>1, <1>2, ReadablePasses DEF ReadText, PutAside

LEMMA PlaceKeeps ==
    ASSUME TypeInv, NEW m \in Message, MessageOK(m), Place(m)
    PROVE  MessageOK(m)'
<1>1. /\ ~At(m, "done") /\ log' = log /\ mail' = mail /\ verdict' = verdict
      /\ Left(m) => verdict[m] # None /\ verdict[m].kind = "ride"
  BY DEF Place, At, MessageOK, LeftOK
<1>2. Moves(m, "insert", job[m].tries)
  BY PlaceMoves
<1> QED
  BY <1>1, <1>2, StageRead

LEMMA InsertKeeps ==
    ASSUME TypeInv, NEW m \in Message, MessageOK(m), Insert(m)
    PROVE  MessageOK(m)'
<1>1. /\ ~At(m, "done") /\ log' = log /\ mail' = mail /\ stopping' = stopping
      /\ verdict' = verdict /\ (Left(m)' <=> Left(m))
      /\ Left(m) => verdict[m] # None /\ verdict[m].kind = "ride"
  BY DEF Insert, At, MessageOK, LeftOK, Left
<1>2. Moves(m, "log", job[m].tries)
  BY OutcomeMoves DEF Insert
<1>3. \/ job'[m].out = "parsed"
      \/ stopping
      \/ rides'[m] # None
      \/ m \in hit'
  BY OutcomeMoves DEF Insert, Fault
<1>4. job'[m].out \in PutAside => Excused(m)' \/ (~Left(m) /\ stopping)
  BY <1>1, <1>3 DEF Excused, PutAside
<1> QED
  BY <1>1, <1>2, <1>4, OutcomeReached

(* The outcome becomes the status in the log. *)
LEMMA LogKeeps ==
    ASSUME TypeInv, NEW m \in Message, MessageOK(m), WriteLog(m) \/ UpdateLog(m)
    PROVE  MessageOK(m)'
<1>1. /\ job[m].at = "log" /\ mail' = mail /\ groq' = groq /\ hit \subseteq hit'
      /\ stopping' = stopping /\ rides' = rides /\ verdict' = verdict
      /\ job' = [job EXCEPT ![m] = Job("done")]
  BY DEF WriteLog, Logged, UpdateLog, At, NoFault, Fault
<1>2. job'[m].at = "done"
  BY <1>1 DEF TypeInv, Job
<1>3. (Left(m)' <=> Left(m)) /\ (Counts(m)' <=> Counts(m)) /\ (Excused(m) => Excused(m)')
  BY <1>1, ExcuseStays DEF Left, Counts, Readable, Candidate
<1>4. job[m].out \in {None, "parsed", "skipped", "failed"}
  BY DEF TypeInv, IsJob, JobOf
<1>5. \/ log'[m] = log[m]
      \/ log'[m] = job[m].out /\ (Left(m) \/ ~stopping)
  BY DEF WriteLog, Logged, UpdateLog, TypeInv
<1>6. LoggedOK(m)'
  BY <1>1, <1>2, <1>3, <1>4, <1>5, VerdictAssumption
  DEF MessageOK, LoggedOK, OutcomeOK, PutAside, At
<1>7. OutcomeOK(m)' /\ LeftOK(m)'
  BY <1>2 DEF OutcomeOK, LeftOK, At
<1> QED
  BY <1>6, <1>7 DEF MessageOK

LEMMA HandleKeeps ==
    ASSUME TypeInv, NEW m \in Message, MessageOK(m), Handle(m)
    PROVE  MessageOK(m)'
<1>1. CASE EnrichedElsewhere(m)
  <2>1. ~At(m, "done") /\ log' = log /\ mail' = mail /\ Moves(m, "done", job[m].tries)
    BY <1>1, GotoMoves DEF EnrichedElsewhere, At, Stage
  <2> QED
    BY <2>1, StageReached
<1> QED
  BY <1>1, TakeKeeps, EnrichKeeps, AskKeeps, ReadTextKeeps, PlaceKeeps, InsertKeeps, LogKeeps
  DEF Handle

LEMMA StepMessages ==
    ASSUME TypeInv, GroqInv, MessagesInv, [Next]_vars
    PROVE  MessagesInv'
<1> SUFFICES ASSUME NEW o \in Message PROVE MessageOK(o)'
  BY DEF MessagesInv
<1>0. MessageOK(o)
  BY DEF MessagesInv
<1>1. CASE UNCHANGED vars
  BY <1>0, <1>1, MessageUntouched DEF vars
<1>2. CASE Shutdown
  BY <1>0, <1>2, MessageUntouched DEF Shutdown
<1>3. ASSUME NEW m \in Message, OtherSync(m)
      PROVE  MessageOK(o)'
  <2>1. /\ mail' = mail /\ groq' = groq /\ job' = job /\ stopping' = stopping
        /\ verdict' = verdict /\ hit' = hit
    BY <1>3 DEF OtherSync
  <2>2. rides[o] = None \/ rides'[o] = rides[o]
    BY <1>3 DEF OtherSync, TypeInv
  <2>3. log'[o] \in {log[o], "parsed"}
    BY <1>3 DEF OtherSync, TypeInv
  <2> QED
    BY <1>0, <2>1, <2>2, <2>3, MessageUntouched
<1>4. ASSUME NEW m \in Message, Handle(m)
      PROVE  MessageOK(o)'
  <2>1. CASE o = m
    BY <1>0, <1>4, <2>1, HandleKeeps
  <2>2. CASE o # m
    <3>1. Aside(m) /\ stopping' = stopping
      BY <1>4, HandleAside
    <3>2. job'[o] = job[o]
      BY <1>4, <2>2, SlotsAreKept DEF KeepsSlots, Moves, Others
    <3> QED
      BY <1>0, <2>2, <3>1, <3>2, MessageUntouched DEF Aside
  <2> QED
    BY <2>1, <2>2
<1> QED
  BY <1>1, <1>2, <1>3, <1>4 DEF Next

LEMMA MessagesInvHolds == Spec => []MessagesInv
BY InitTypes, InitGroq, InitMessages, StepGroq, StepMessages, PTL DEF Spec

(* Theorem: whatever else happens, a receipt that the parsers can read is   *)
(* logged without a ride only when Groq took it for something else or a    *)
(* statement failed (gmail_service.go, handleMessage).                     *)
THEOREM ReadableRidesAreNotLost == Spec => []ReadableRidesAreRead
<1>1. MessagesInv => ReadableRidesAreRead
  BY DEF MessagesInv, MessageOK, LoggedOK, Counts, Excused, PutAside, ReadableRidesAreRead
<1> QED
  BY <1>1, MessagesInvHolds, PTL

(* Theorem: an enrichment gives up a message only for Groq's word, a ride   *)
(* that could not be ingested or the missing key (gmail_service.go,        *)
(* enrichUser).                                                            *)
THEOREM QueueIsOnlyGivenUpWithReason == Spec => []QueueIsRetried
<1>1. MessagesInv => QueueIsRetried
  BY DEF MessagesInv, MessageOK, LoggedOK, Counts, Excused, PutAside, QueueIsRetried
<1> QED
  BY <1>1, MessagesInvHolds, PTL
-----------------------------------------------------------------------------
(* Rides and tracked trips *)

\* Groq has found all that the comparison with a tracked trip needs.
Told(m) == verdict[m] # None /\ {"start", "minutes", "mode"} \subseteq verdict[m].found

AsTold(m, ride) ==
    LET truth == mail[m].trip IN
    Told(m) => ride.start = truth.start /\ ride.dur = truth.dur /\ ride.mode = truth.mode

\* What was read of a ride, and what is made of it.
ReadOK(m, ride) ==
    ride.start \in Int \cup {None} /\ ride.dur \in Nat \cup {None} /\ AsTold(m, ride)
BuiltOK(m, ride) ==
    /\ ride.start \in Int /\ ride.dur \in Nat \cup {None}
    /\ ride.end = IF ride.dur = None THEN None ELSE ride.start + ride.dur
    /\ ride.from \in {None, mail[m].trip.from} /\ ride.to \in {None, mail[m].trip.to}
    /\ AsTold(m, ride)

\* Groq speaks once, and what is stored is what was read after that.
TracksOK(m) ==
    /\ job[m].at \in {"queued", "slot", "call", "pause"} => verdict[m] = None
    /\ job[m].at = "text" => ~Told(m)
    /\ job[m].at \notin {"log", "done"} => rides[m] \in {None, Elsewhere}
    /\ job[m].at = "place" => ReadOK(m, job[m].read)
    /\ job[m].at = "insert" => BuiltOK(m, job[m].read)
    /\ rides[m] \notin {None, Elsewhere} => BuiltOK(m, rides[m])
TracksInv == \A m \in Message : TracksOK(m)

LEMMA TripTyped ==
    ASSUME TypeInv, NEW m \in Message
    PROVE  mail[m].trip \in Ride
BY TripAssumption DEF TypeInv

LEMMA FoundRead ==
    ASSUME TypeInv, NEW m \in Message, NEW ride, Found(m, ride)
    PROVE  job'[m].read = ride
<1>1. IsJob(job[m])
  BY DEF TypeInv
<1> QED
  BY <1>1 DEF Found, TypeInv, IsJob, JobOf

(* What a step leaves alone stays as it was read. *)
LEMMA TrackStays ==
    ASSUME NEW m \in Message, TracksOK(m), mail' = mail, verdict'[m] = verdict[m],
           rides'[m] \in {rides[m], Elsewhere}, job'[m] = job[m]
    PROVE  TracksOK(m)'
BY DEF TracksOK, ReadOK, BuiltOK, AsTold, Told

LEMMA InitTracks == Init => TracksInv
BY DEF Init, TracksInv, TracksOK, Job

(* A step to a stage where nothing has been read. *)
LEMMA NothingRead ==
    ASSUME NEW m \in Message, TracksOK(m), mail' = mail, verdict'[m] = verdict[m],
           rides'[m] = rides[m],
           NEW stage, NEW n, Moves(m, stage, n), stage \notin {"place", "insert"},
           stage \in {"queued", "slot", "call", "pause"} => verdict[m] = None,
           stage = "text" => ~Told(m),
           stage \notin {"log", "done"} => rides[m] \in {None, Elsewhere}
    PROVE  TracksOK(m)'
BY DEF TracksOK, ReadOK, BuiltOK, AsTold, Told, Moves

LEMMA TakeTracks ==
    ASSUME TypeInv, NEW m \in Message, TracksOK(m), Take(m) \/ Enrich(m) \/ EnrichedElsewhere(m)
    PROVE  TracksOK(m)'
<1>0. /\ job[m].at = "queued" /\ mail' = mail /\ verdict' = verdict /\ rides' = rides
      /\ verdict[m] = None /\ rides[m] \in {None, Elsewhere} /\ ~Told(m)
  BY DEF Take, Enrich, EnrichedElsewhere, At, TracksOK, Told
<1>1. ASSUME NEW stage \in {"done", "slot", "text"}, Goto(m, stage)
      PROVE  TracksOK(m)'
  BY <1>0, <1>1, GotoMoves, NothingRead DEF Stage
<1>2. ASSUME NEW status \in {"skipped", "failed"}, Outcome(m, status)
      PROVE  TracksOK(m)'
  BY <1>0, <1>2, OutcomeMoves, NothingRead
<1> QED
  BY <1>1, <1>2 DEF Take, Enrich, EnrichedElsewhere

LEMMA AskTracks ==
    ASSUME TypeInv, NEW m \in Message, TracksOK(m), Ask(m)
    PROVE  TracksOK(m)'
<1>0. /\ job[m].at \in {"slot", "call", "pause"} /\ mail' = mail /\ rides' = rides
      /\ verdict[m] = None /\ rides[m] \in {None, Elsewhere} /\ ~Told(m)
  BY DEF Ask, Acquire, AnswerRide, AnswerNoReceipt, Refused, Answered, Exhausted, GiveUp,
     Pause, Paused, Resume, Interrupt, At, TracksOK, Told
<1>1. CASE Acquire(m) \/ Resume(m)
  <2>1. Moves(m, "call", job[m].tries) /\ verdict' = verdict
    BY <1>1, GotoMoves DEF Acquire, Resume, Stage
  <2> QED
    BY <1>0, <2>1, NothingRead
<1>2. CASE Pause(m)
  <2>1. Moves(m, "pause", job[m].tries + 1) /\ verdict' = verdict
    BY <1>2, PausedMoves DEF Pause, Paused
  <2> QED
    BY <1>0, <2>1, NothingRead
<1>3. CASE Exhausted(m) \/ Interrupt(m)
  <2>1. PICK n : Moves(m, IF Left(m) THEN "done" ELSE "text", n)
    BY <1>3, UnansweredMoves, GiveUpMoves DEF Exhausted, Interrupt
  <2>2. verdict' = verdict
    BY <1>3 DEF Exhausted, GiveUp, Interrupt
  <2>3. CASE Left(m)
    BY <1>0, <2>1, <2>2, <2>3, NothingRead
  <2>4. CASE ~Left(m)
    BY <1>0, <2>1, <2>2, <2>4, NothingRead
  <2> QED
    BY <2>3, <2>4
<1>4. ASSUME NEW kind \in {"no receipt", "refused"}, Answered(m, kind, {}),
             NEW stage \in {"log", "done", "text"}, NEW n, Moves(m, stage, n)
      PROVE  TracksOK(m)'
  <2>1. verdict'[m] = [kind |-> kind, found |-> {}]
    BY <1>4 DEF Answered, TypeInv
  <2>2. verdict'[m].found = {}
    <3>1. \A k, f : [kind |-> k, found |-> f].found = f
      OBVIOUS
    <3> QED
      BY <2>1, <3>1, Zenon
  <2>3. ~(Told(m)')
    BY <2>2 DEF Told
  <2> QED
    BY <1>0, <1>4, <2>3 DEF TracksOK, Moves
<1>5. CASE AnswerNoReceipt(m)
  BY <1>4, <1>5, OutcomeMoves DEF AnswerNoReceipt
<1>6. CASE Refused(m)
  <2>1. PICK n : Moves(m, IF Left(m) THEN "done" ELSE "text", n)
    BY <1>6, UnansweredMoves DEF Refused
  <2>2. Answered(m, "refused", {})
    BY <1>6 DEF Refused
  <2> QED
    BY <1>4, <2>1, <2>2
<1>7. CASE AnswerRide(m)
  <2>1. PICK found \in Reply : Answered(m, "ride", found) /\ Found(m, LLMRide(m, found))
    BY <1>7 DEF AnswerRide
  <2> DEFINE ride == LLMRide(m, found)
  <2>2. verdict'[m] = [kind |-> "ride", found |-> found]
    BY <2>1 DEF Answered, TypeInv
  <2>3. Told(m)' => {"start", "minutes", "mode"} \subseteq found
    BY <2>2 DEF Told
  <2>4. mail[m].trip \in Ride
    BY TripTyped
  <2>5. /\ ride.start \in Int \cup {None} /\ ride.dur \in Nat \cup {None}
        /\ {"start", "minutes", "mode"} \subseteq found =>
             /\ ride.start = mail[m].trip.start /\ ride.dur = mail[m].trip.dur
             /\ ride.mode = mail[m].trip.mode
    BY <2>4 DEF LLMRide, Ride
  <2>6. job'[m].read = ride
    BY <2>1, FoundRead
  <2>7. job'[m].at = "place"
    BY <2>1, FoundMoves DEF Moves
  <2> HIDE DEF ride
  <2> QED
    BY <1>0, <2>3, <2>5, <2>6, <2>7 DEF TracksOK, ReadOK, AsTold
<1> QED
  BY <1>1, <1>2, <1>3, <1>5, <1>6, <1>7 DEF Ask

LEMMA TextTracks ==
    ASSUME TypeInv, NEW m \in Message, TracksOK(m), ReadText(m)
    PROVE  TracksOK(m)'
<1>0. /\ job[m].at = "text" /\ mail' = mail /\ verdict' = verdict /\ rides' = rides
      /\ rides[m] \in {None, Elsewhere} /\ ~Told(m)
  BY DEF ReadText, At, TracksOK
<1>1. ASSUME NEW status \in {"skipped", "failed"}, Outcome(m, status)
      PROVE  TracksOK(m)'
  BY <1>0, <1>1, OutcomeMoves, NothingRead
<1>2. ASSUME NEW ride, Found(m, ride),
             ride.start \in Int \cup {None}, ride.dur \in Nat \cup {None}
      PROVE  TracksOK(m)'
  <2>1. job'[m].read = ride /\ job'[m].at = "place"
    BY <1>2, FoundRead, FoundMoves DEF Moves
  <2>2. ~(Told(m)')
    BY <1>0 DEF Told
  <2> QED
    BY <1>0, <1>2, <2>1, <2>2 DEF TracksOK, ReadOK, AsTold
<1>3. mail[m].trip.dur \in Nat /\ mail[m].trip.start \in Int
  BY TripTyped DEF Ride
<1>4. Midnight(mail[m].trip.start) \in Int
  BY <1>3 DEF Midnight, Day
<1>5. Parsed(m).start \in Int \cup {None} /\ Parsed(m).dur \in Nat \cup {None}
  BY <1>3, <1>4 DEF Parsed, UberRide, RapidoRide, DayIn
<1>6. ASSUME NEW ends
      PROVE  SnippetRide(m, ends).start \in Int \cup {None} /\ SnippetRide(m, ends).dur \in Nat \cup {None}
  BY <1>3 DEF SnippetRide
<1> QED
  BY <1>1, <1>2, <1>5, <1>6 DEF ReadText

LEMMA PlaceTracks ==
    ASSUME TypeInv, NEW m \in Message, TracksOK(m), Place(m)
    PROVE  TracksOK(m)'
<1>0. /\ job[m].at = "place" /\ mail' = mail /\ verdict' = verdict /\ rides' = rides
      /\ rides[m] \in {None, Elsewhere} /\ ReadOK(m, job[m].read)
  BY DEF Place, At, TracksOK
<1>1. PICK from \in Located(m, "from"), to \in Located(m, "to") :
         job' = [job EXCEPT ![m].at = "insert", ![m].read = Built(m, from, to)]
  BY DEF Place
<1> DEFINE ride == Built(m, from, to)
<1>2. job'[m].at = "insert" /\ job'[m].read = ride
  <2>1. IsJob(job[m])
    BY DEF TypeInv
  <2> HIDE DEF ride
  <2>2. job' = [job EXCEPT ![m].at = "insert", ![m].read = ride]
    BY <1>1 DEF ride
  <2> QED
    BY <2>1, <2>2 DEF TypeInv, IsJob, JobOf
<1>3. mail[m].trip \in Ride /\ mail[m].header \in Int \cup {None}
  BY TripTyped, MailAssumption DEF TypeInv
<1>4. from \in {None, mail[m].trip.from} /\ to \in {None, mail[m].trip.to}
  BY <1>1 DEF Located, Geocode
<1>5. /\ StartedAt(m) \in Int
      /\ job[m].read.start # None => StartedAt(m) = job[m].read.start
  BY <1>0, <1>3, TripAssumption DEF ReadOK, StartedAt, ParseEmailDate
<1>6. /\ ride.start = StartedAt(m) /\ ride.dur = job[m].read.dur /\ ride.mode = job[m].read.mode
      /\ ride.from = from /\ ride.to = to
      /\ ride.end = IF job[m].read.dur = None THEN None ELSE StartedAt(m) + job[m].read.dur
  BY DEF Built
<1> HIDE DEF ride
<1>7. mail[m].trip.start # None
  BY <1>3, NoneAssumption DEF Ride
<1>8. BuiltOK(m, ride)
  BY <1>0, <1>4, <1>5, <1>6, <1>7 DEF BuiltOK, ReadOK, AsTold
<1> QED
  BY <1>0, <1>2, <1>8 DEF TracksOK, BuiltOK, AsTold, Told

LEMMA InsertTracks ==
    ASSUME TypeInv, NEW m \in Message, TracksOK(m), Insert(m)
    PROVE  TracksOK(m)'
<1>0. /\ job[m].at = "insert" /\ mail' = mail /\ verdict' = verdict
      /\ rides[m] \in {None, Elsewhere} /\ BuiltOK(m, job[m].read)
  BY DEF Insert, At, TracksOK
<1>1. job'[m].at = "log"
  BY OutcomeMoves DEF Insert, Moves
<1>2. rides'[m] \in {rides[m], job[m].read}
  BY DEF Insert, TypeInv
<1> QED
  BY <1>0, <1>1, <1>2 DEF TracksOK, BuiltOK, AsTold, Told

LEMMA LogTracks ==
    ASSUME TypeInv, NEW m \in Message, TracksOK(m), WriteLog(m) \/ UpdateLog(m)
    PROVE  TracksOK(m)'
<1>1. mail' = mail /\ verdict' = verdict /\ rides' = rides
  BY DEF WriteLog, Logged, UpdateLog
<1>2. Moves(m, "done", 0)
  BY DoneMoves DEF WriteLog, Logged, UpdateLog
<1> QED
  BY <1>1, <1>2, NothingRead

LEMMA StepTracks ==
    ASSUME TypeInv, GroqInv, TracksInv, [Next]_vars
    PROVE  TracksInv'
<1> SUFFICES ASSUME NEW o \in Message PROVE TracksOK(o)'
  BY DEF TracksInv
<1>0. TracksOK(o)
  BY DEF TracksInv
<1>1. CASE UNCHANGED vars
  BY <1>0, <1>1, TrackStays DEF vars
<1>2. CASE Shutdown
  BY <1>0, <1>2, TrackStays DEF Shutdown
<1>3. ASSUME NEW m \in Message, OtherSync(m)
      PROVE  TracksOK(o)'
  <2>1. mail' = mail /\ job' = job /\ verdict' = verdict
    BY <1>3 DEF OtherSync
  <2>2. rides'[o] \in {rides[o], Elsewhere}
    BY <1>3 DEF OtherSync, TypeInv
  <2> QED
    BY <1>0, <2>1, <2>2, TrackStays
<1>4. ASSUME NEW m \in Message, Handle(m)
      PROVE  TracksOK(o)'
  <2>1. CASE o = m
    BY <1>0, <1>4, <2>1, TakeTracks, AskTracks, TextTracks, PlaceTracks, InsertTracks, LogTracks
    DEF Handle
  <2>2. CASE o # m
    <3>1. Aside(m)
      BY <1>4, HandleAside
    <3>2. job'[o] = job[o]
      BY <1>4, <2>2, SlotsAreKept DEF KeepsSlots, Moves, Others
    <3> QED
      BY <1>0, <2>2, <3>1, <3>2, TrackStays DEF Aside
  <2> QED
    BY <2>1, <2>2
<1> QED
  BY <1>1, <1>2, <1>3, <1>4 DEF Next

(* The end of a trip is a time. *)
Timed(t) ==
    /\ t.start \in Int /\ t.end \in Int \cup {None} /\ t.dur \in Nat \cup {None}
    /\ t.end = None /\ t.dur # None => t.dur <= OpenSession

(* The query finds every trip that the score would match. *)
LEMMA QueryFinds ==
    ASSUME NEW a, NEW b, Timed(a), Timed(b)
    PROVE  WindowFinds(a, b)
<1> SUFFICES ASSUME HasKnownEnd(a), HasKnownEnd(b), Score(a, b).conf > 0
             PROVE  InWindow(a, b)
  BY DEF WindowFinds
<1>0. /\ EffectiveEnd(a) \in Int /\ EffectiveEnd(b) \in Int
      /\ a.start \in Int /\ b.start \in Int
  BY DEF Timed, EffectiveEnd, FallbackMinutes
<1>1. Overlap(a, b) > 0
  <2>1. Different.conf = 0
    BY DEF Different
  <2>2. Overlap(a, b) \in Int
    BY <1>0 DEF Overlap, Lesser, Greater
  <2> QED
    BY <2>1, <2>2 DEF Score
<1>2. b.start < EffectiveEnd(a) /\ a.start < EffectiveEnd(b)
  BY <1>0, <1>1 DEF Overlap, Lesser, Greater
<1>3. b.start <= EffectiveEnd(a) + CandidateWindow
  BY <1>0, <1>2 DEF CandidateWindow
<1>4. CASE b.end = None
  <2>1. b.dur \in Nat /\ EffectiveEnd(b) = b.start + b.dur /\ b.dur <= OpenSession
    BY <1>4 DEF HasKnownEnd, EffectiveEnd, Timed
  <2>2. b.start >= a.start - OpenSession
    BY <1>0, <1>2, <2>1 DEF OpenSession
  <2> QED
    BY <1>3, <1>4, <2>2 DEF InWindow
<1>5. CASE b.end # None
  <2>1. EffectiveEnd(b) = b.end
    BY <1>5 DEF EffectiveEnd
  <2>2. b.end >= a.start - CandidateWindow
    BY <1>0, <1>2, <2>1 DEF CandidateWindow
  <2> QED
    BY <1>3, <1>5, <2>2 DEF InWindow
<1> QED
  BY <1>4, <1>5

(* A rounded quotient of at least 450 is at least 450. *)
LEMMA RoundAtLeast ==
    ASSUME NEW d \in Nat \ {0}, NEW n \in Int, n >= 450 * d
    PROVE  Round(n, d) >= 450
<1> DEFINE q == (2 * n + d) \div (2 * d)
<1>1. q \in Int /\ 2 * n + d < (2 * d) * q + 2 * d
  OBVIOUS
<1>2. (2 * d) * 450 < (2 * d) * (q + 1)
  BY <1>1
<1>3. 450 < q + 1
  BY <1>1, <1>2
<1> QED
  BY <1>1, <1>3 DEF Round

(* A ride as Groq read it against the same ride as the phone tracked it. *)
LEMMA TrackedScore ==
    ASSUME NEW truth \in Ride, NEW late \in Late, late < truth.dur, NEW ride,
           ride.start = truth.start, ride.dur = truth.dur, ride.mode = truth.mode,
           ride.end = truth.start + truth.dur,
           ride.from \in {None, truth.from}, ride.to \in {None, truth.to},
           NEW trip, trip = [truth EXCEPT !.start = @ + late, !.end = truth.start + truth.dur,
                                          !.dur = @ - late]
    PROVE  /\ InWindow(trip, ride) /\ InWindow(ride, trip)
           /\ Score(ride, trip).conf >= ThresholdReview
<1>1. late \in Int /\ 0 <= late /\ late <= 4
  BY DEF Late
<1>2. /\ trip.start = truth.start + late /\ trip.dur = truth.dur - late
      /\ trip.end = truth.start + truth.dur
      /\ trip.from = truth.from /\ trip.to = truth.to /\ trip.mode = truth.mode
  BY DEF Ride
<1>3. /\ truth.start \in Int /\ truth.dur \in Nat
      /\ truth.from \in Int /\ truth.to \in Int
      /\ truth.from # None /\ truth.to # None
      /\ truth.dur # None /\ ride.end # None /\ trip.end # None /\ trip.dur # None
  BY <1>1, <1>2, NoneAssumption DEF Ride
<1>4. EffectiveEnd(ride) = truth.start + truth.dur /\ EffectiveEnd(trip) = truth.start + truth.dur
  BY <1>2, <1>3 DEF EffectiveEnd
<1>5. InWindow(trip, ride) /\ InWindow(ride, trip)
  BY <1>1, <1>2, <1>3, <1>4 DEF InWindow, HasKnownEnd, CandidateWindow
<1> DEFINE length == truth.dur - late
<1>6. length \in Nat /\ length > 0
  BY <1>1, <1>3
<1>7. Overlap(ride, trip) = length /\ Shorter(ride, trip) = length
  BY <1>1, <1>2, <1>3, <1>4 DEF Overlap, Shorter, Lesser, Greater
<1>8. DestinationScore(ride, trip) \in {30, 60}
  BY <1>2, <1>3 DEF DestinationScore, Greater, Abs
<1>9. OriginScore(ride, trip) \in {30, 60}
  BY <1>2, <1>3 DEF OriginScore, Greater, Abs
<1>10. DurationScore(ride, trip) \in Int /\ DurationScore(ride, trip) >= 52
  BY <1>1, <1>2, <1>3 DEF DurationScore, Greater, Abs
<1>11. ModesCompatible(ride.mode, trip.mode)
  BY <1>2 DEF ModesCompatible
<1> DEFINE parts == 15 * DestinationScore(ride, trip) + 10 * OriginScore(ride, trip)
                      + 5 * DurationScore(ride, trip)
<1>12. parts \in Int /\ parts >= 1010
  BY <1>8, <1>9, <1>10
<1>13. Weighted(ride, trip) = 1200 * length + parts * length
  BY <1>7 DEF Weighted
<1> HIDE DEF length, parts
<1>14. /\ Weighted(ride, trip) \in Int
       /\ Weighted(ride, trip) >= 450 * (3 * length)
  <2>1. parts * length >= 1010 * length /\ parts * length \in Int
    BY <1>6, <1>12
  <2> QED
    BY <1>6, <1>13, <2>1
<1>15. Round(Weighted(ride, trip), 3 * length) >= 450
  <2>1. 3 * length \in Nat \ {0}
    BY <1>6
  <2> QED
    BY <1>14, <2>1, RoundAtLeast
<1>16. Score(ride, trip).conf = Round(Weighted(ride, trip), 3 * length)
  BY <1>6, <1>7, <1>11 DEF Score
<1> QED
  BY <1>5, <1>15, <1>16 DEF ThresholdReview

(* Theorem: for all messages, rides and replies of Groq, and whatever fails *)
(* or overlaps, a ride that was well read is recognised as the trip that    *)
(* the phone tracked, and the query for candidates misses no tracked trip   *)
(* that the score would match (matcher.go and activity_repository.go        *)
(* 198-217).                                                                *)
THEOREM TrackedTripsAreRecognised ==
    ASSUME Trackable
    PROVE  Spec => []TrackedRidesAreFound
<1>1. TypeInv /\ TracksInv => TrackedRidesAreFound
  <2> SUFFICES ASSUME TypeInv, TracksInv PROVE TrackedRidesAreFound
    OBVIOUS
  <2>1. ASSUME NEW m \in Message, NEW late \in Late, WellRead(m)
        PROVE  /\ InWindow(GPSTrip(m, late), rides[m]) /\ InWindow(rides[m], GPSTrip(m, late))
               /\ Score(rides[m], GPSTrip(m, late)).conf >= ThresholdReview
    <3> DEFINE truth == mail[m].trip
               trip == [truth EXCEPT !.start = @ + late, !.end = truth.start + truth.dur,
                                     !.dur = @ - late]
    <3>1. Told(m) /\ rides[m] \notin {None, Elsewhere} /\ BuiltOK(m, rides[m])
      BY <2>1 DEF WellRead, Told, TracksInv, TracksOK
    <3>2. truth \in Ride /\ late < truth.dur
      BY TripTyped DEF Trackable, TypeInv
    <3>3. truth.dur # None
      BY <3>2, NoneAssumption DEF Ride
    <3>4. /\ rides[m].start = truth.start /\ rides[m].dur = truth.dur /\ rides[m].mode = truth.mode
          /\ rides[m].end = truth.start + truth.dur
          /\ rides[m].from \in {None, truth.from} /\ rides[m].to \in {None, truth.to}
      BY <3>1, <3>3 DEF BuiltOK, AsTold
    <3>5. GPSTrip(m, late) = trip
      BY DEF GPSTrip
    <3> HIDE DEF truth
    <3> QED
      BY <3>2, <3>4, <3>5, TrackedScore
  <2>2. ASSUME NEW ride \in Pairs, NEW trip \in Tracked
        PROVE  WindowFinds(ride, trip) /\ WindowFinds(trip, ride)
    <3>1. PICK m \in Message : ride = rides[m] /\ BuiltOK(m, ride)
      BY DEF Pairs, TracksInv, TracksOK
    <3>2. Timed(ride)
      BY <3>1, NoneAssumption DEF Timed, BuiltOK
    <3>3. Timed(trip)
      BY TripAssumption DEF Trackable, Timed, TrackedTrip
    <3> QED
      BY <3>2, <3>3, QueryFinds
  <2> QED
    BY <2>1, <2>2 DEF TrackedRidesAreFound
<1> QED
  BY <1>1, InitTypes, InitGroq, InitTracks, StepGroq, StepTracks, PTL DEF Spec
=============================================================================
