---------------------------- MODULE MCReceipts ----------------------------
(* Pairs of messages: receipts that Groq or a parser can read, with and     *)
(* without dates, addresses and pins; and those that are no receipts.      *)
EXTENDS Receipts

Groups == [m \in {"car", "cab", "two_wheeler"} |-> IF m = "two_wheeler" THEN 2 ELSE 1]

Trip(start, dur, mode, from, to) ==
    [start |-> start, dur |-> dur, end |-> None, mode |-> mode, from |-> from, to |-> to]
Morning == Day + 600

Uber ==
    [left |-> FALSE, sender |-> "uber", invoice |-> FALSE, cancelled |-> "no", km |-> {"snippet", "body"},
     date |-> "month first", named |-> TRUE, header |-> Morning + 25, labels |-> End, pins |-> {},
     trip |-> Trip(Morning, 20, "cab", 0, 70)]
Rapido ==
    [left |-> FALSE, sender |-> "rapido", invoice |-> TRUE, cancelled |-> "no", km |-> {"body"},
     date |-> "day first", named |-> TRUE, header |-> None, labels |-> {"to"}, pins |-> {"from"},
     trip |-> Trip(Morning, 35, "two_wheeler", 0, 30)]
MapLinks == [Uber EXCEPT !.left = TRUE, !.km = {"body"}, !.date = "day first", !.named = FALSE, !.header = None, !.pins = End]
CalledOff == [Uber EXCEPT !.cancelled = "body"]

PairsOfMail ==
    {<<Uber, Rapido>>, <<Rapido, MapLinks>>, <<CalledOff, [Rapido EXCEPT !.cancelled = "body"]>>,
     <<[Rapido EXCEPT !.km = {}], [Uber EXCEPT !.sender = "other"]>>,
     <<[Uber EXCEPT !.cancelled = "head"], [Rapido EXCEPT !.invoice = FALSE]>>}

Replies == {{"start", "minutes", "mode", "to"}, {}}

TrackedTrips ==
    {[Trip(Morning + s, d, mode, None, p) EXCEPT !.end = IF d = None THEN None ELSE Morning + s + d] :
        s \in {-35, 0, 34, 39}, d \in {None, 20}, mode \in {"car", "two_wheeler"},
        p \in {None, 30}}

\* The condition of the theorem about tracked rides.
ASSUME Trackable
=============================================================================
