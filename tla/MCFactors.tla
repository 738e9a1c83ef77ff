----------------------------- MODULE MCFactors -----------------------------
(* Trips of the modes that differ in how their factor is found.             *)
EXTENDS Factors

Q(mode, fuel, year) == [mode |-> mode, fuel |-> fuel, year |-> year, km |-> 10]
Trips ==
    {Q("bus", Null, 2025), Q("train", Null, 2025), Q("flight", Null, 2025),
     Q("two_wheeler", "electric", 2024), Q("cab", "petrol", 2023), Q("cab", Null, 2025)}
=============================================================================
