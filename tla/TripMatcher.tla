---------------------------- MODULE TripMatcher ----------------------------
(***************************************************************************)
(* How likely two trips are the same journey, and which stored trips are   *)
(* looked at.  Time is in minutes.  A place is a point on a line, in units *)
(* of 100 m, so that the distance of two places is |p - q| (the program    *)
(* takes the great-circle distance).  A score is in sixtieths, a           *)
(* confidence in thousandths, both exact where the program uses floats.    *)
(***************************************************************************)
EXTENDS Integers, FiniteSets

CONSTANTS
    None,          \* nil
    ModeGroup      \* the compatibility class of the transport modes that have one

ASSUME NoneAssumption == None \notin Int

-----------------------------------------------------------------------------
(* Time *)

Lesser(x, y) == IF x < y THEN x ELSE y

Greater(x, y) == IF x > y THEN x ELSE y

Abs(x) == IF x < 0 THEN -x ELSE x

FallbackMinutes == 60

HasKnownEnd(t) == t.end # None \/ t.dur # None

EffectiveEnd(t) ==
    IF t.end # None THEN t.end
    ELSE t.start + (IF t.dur # None THEN t.dur ELSE FallbackMinutes)

\* Not positive: the trips do not overlap.
Overlap(a, b) ==
    Lesser(EffectiveEnd(a), EffectiveEnd(b)) - Greater(a.start, b.start)

Shorter(a, b) ==
    Lesser(EffectiveEnd(a) - a.start, EffectiveEnd(b) - b.start)

-----------------------------------------------------------------------------
(* Scores: 60 for the same value, 30 if one is unknown, 0 from a limit on *)

DestinationScore(a, b) ==
    IF a.to = None \/ b.to = None THEN 30 ELSE Greater(0, 60 - 3 * Abs(a.to - b.to))

OriginScore(a, b) ==
    IF a.from = None \/ b.from = None THEN 30 ELSE Greater(0, 60 - 2 * Abs(a.from - b.from))

DurationScore(a, b) ==
    IF a.dur = None \/ b.dur = None THEN 30 ELSE Greater(0, 60 - 2 * Abs(a.dur - b.dur))

ModesCompatible(m, n) ==
    m \in DOMAIN ModeGroup /\ n \in DOMAIN ModeGroup => ModeGroup[m] = ModeGroup[n]

Different == [conf |-> 0, coords |-> FALSE, endTime |-> FALSE]

\* The weighted sum 0.4 overlap + 0.3 destination + 0.2 origin + 0.1 duration,
\* times the denominator 3 * Shorter, in thousandths.
Weighted(a, b) ==
    1200 * Overlap(a, b)
      + (15 * DestinationScore(a, b) + 10 * OriginScore(a, b)
            + 5 * DurationScore(a, b)) * Shorter(a, b)

Round(n, d) == (2 * n + d) \div (2 * d)

Score(a, b) ==
    IF ~ModesCompatible(a.mode, b.mode) \/ Overlap(a, b) <= 0
    THEN Different
    ELSE [conf    |-> Round(Weighted(a, b), 3 * Shorter(a, b)),
          coords  |-> a.to # None /\ b.to # None,
          endTime |-> HasKnownEnd(a) /\ HasKnownEnd(b)]

-----------------------------------------------------------------------------
(* Decisions *)

ThresholdReview == 450

AutoMergeThreshold(s) == IF s.coords /\ s.endTime THEN 650 ELSE 750

SameTrip(a, b) == Score(a, b).conf >= AutoMergeThreshold(Score(a, b))

CandidateWindow == 15

OpenSession == 24 * 60

\* FindCandidatesInWindow: a stored trip c is looked at for the incoming trip t.
InWindow(t, c) ==
    LET windowEnd == IF HasKnownEnd(t) THEN EffectiveEnd(t) ELSE t.start IN
    /\ c.start <= windowEnd + CandidateWindow
    /\ IF c.end = None THEN c.start >= t.start - OpenSession
                       ELSE c.end >= t.start - CandidateWindow

-----------------------------------------------------------------------------
(* Properties of a pair of trips *)

(* Who arrives first does not matter to the score (activity_service.go 421:  *)
(* the GPS direction mirrors the receipt direction).                         *)
Symmetric(a, b) == Score(a, b) = Score(b, a)

(* Trips that match and whose ends are known are always looked at: the       *)
(* query's window is wide enough for the score.                              *)
WindowFinds(a, b) ==
    HasKnownEnd(a) /\ HasKnownEnd(b) /\ Score(a, b).conf > 0 => InWindow(a, b)

(* Two trips are never merged only because they overlap in time              *)
(* (matcher.go 41-47: the stricter threshold without coordinates or ends).   *)
TimeAloneIsNotEnough(a, b) ==
    a.to = None /\ a.from = None /\ a.dur = None => ~SameTrip(a, b)
=============================================================================
