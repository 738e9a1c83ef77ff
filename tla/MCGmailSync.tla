---------------------------- MODULE MCGmailSync -----------------------------
(***************************************************************************)
(* Instances of GmailSync for TLC: a message of another sender, then the   *)
(* receipt of a ride.                                                      *)
(***************************************************************************)
EXTENDS GmailSync

TwoMessages == <<"foreign", "ride">>

OneRide == <<"ride">>
=============================================================================
