----------------------------- MODULE MCAccounts -----------------------------
(* Small instances of Accounts: ids of every table are interchangeable. *)
EXTENDS Accounts, TLC

AnyNames ==
    UNION {Permutations(S) : S \in {Account, Session, Link, Code, Password, Request}}
=============================================================================
