----------------------------- MODULE MCClients -----------------------------
(* Small instances of Clients. *)
EXTENDS Clients, TLC

AnyNames == Permutations(User) \cup Permutations(Request)
=============================================================================
