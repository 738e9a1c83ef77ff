--------------------------- MODULE MCAddressSweep ---------------------------
(* Small instances of AddressSweep: the oldest activity started where       *)
(* Google knows no address.                                                *)
EXTENDS AddressSweep

Ends2(o, d) == [origin |-> o, destination |-> d]
CONSTANTS home, sea
Trips == <<Ends2(sea, home), Ends2(home, Null), Ends2(Null, home)>>
OnLand == {home}
=============================================================================
