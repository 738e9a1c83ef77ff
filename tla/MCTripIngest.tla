---------------------------- MODULE MCTripIngest ----------------------------
(***************************************************************************)
(* Instances of TripIngest for TLC.                                        *)
(***************************************************************************)
EXTENDS TripIngest, TLC

Groups == [m \in {"cab", "bus"} |-> IF m = "bus" THEN 4 ELSE 1]

T(start, end, dur, mode, from, to) ==
    [start |-> start, end |-> end, dur |-> dur, mode |-> mode, from |-> from, to |-> to]

\* gps: a tracked ride.  mail: its receipt, with addresses 200 m off.  invoice:
\* a second message about the ride.  later: the tracked rest of the ride after
\* the app was restarted.  bus: a trip by bus, entered by hand.  A short ride,
\* half and rest: its receipt and the two parts it was tracked in.  lost, found:
\* two parts of the first ride, of which one has no destination.
TripTable ==
    [i \in {"gps", "mail", "invoice", "later", "bus",
             "short", "half", "rest", "lost", "found"} |->
        CASE i = "gps"     -> T(100, 130, 30, "cab", 0, 60)
          [] i = "mail"    -> T(98, 130, 32, "cab", 2, 62)
          [] i = "invoice" -> T(98, 130, 32, "cab", 3, 63)
          [] i = "later"   -> T(116, 131, 15, "cab", 30, 61)
          [] i = "bus"     -> T(100, 130, 30, "bus", 0, 60)
          [] i = "short"   -> T(98, 113, 15, "cab", 0, 30)
          [] i = "half"    -> T(98, 105, 7, "cab", 0, 15)
          [] i = "rest"    -> T(105, 113, 8, "cab", 15, 30)
          [] i = "lost"    -> T(98, 114, 16, "cab", 10, None)
          [] i = "found"   -> T(115, 130, 15, "cab", 30, 65)]

KindTable ==
    [i \in DOMAIN TripTable |->
        CASE i \in {"mail", "invoice", "short"} -> "gmail"
          [] i = "bus" -> "manual"
          [] OTHER -> "gps"]

Trips == [i \in Input |-> TripTable[i]]

AnyOrder == Permutations(Id) \cup Permutations(Request)

KindsOf == [i \in Input |-> KindTable[i]]

\* The instance of the run _serial meets the conditions of TripIngest.
OneRide == [i \in Input |-> IF i = "bus" THEN "trip by bus" ELSE "ride"]
ASSUME Input = {"gps", "later", "mail", "bus"} => Located /\ Recognisable(OneRide)

\* Why RetriesAddNoRow needs them: each half of the short ride matches the
\* receipt, but when the row has got the places of the second half, the first
\* half does not match it any more.
Short == TripTable["short"]
ShortWithRest == [Short EXCEPT !.from = TripTable["rest"].from, !.to = TripTable["rest"].to]
ASSUME SameTrip(Short, TripTable["half"])
ASSUME SameTrip(TripTable["rest"], [Short EXCEPT !.to = TripTable["half"].to])
ASSUME ~SameTrip(TripTable["half"], ShortWithRest)

\* Why OneRowPerJourney needs destinations: a trip without one scores higher
\* than the trip that the receipt matches, and is not merged itself.
ASSUME SameTrip(TripTable["mail"], TripTable["found"])
ASSUME ~SameTrip(TripTable["mail"], TripTable["lost"])
ASSUME Score(TripTable["lost"], TripTable["mail"]).conf > Score(TripTable["found"], TripTable["mail"]).conf
=============================================================================
