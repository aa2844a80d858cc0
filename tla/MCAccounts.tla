----------------------------- MODULE MCAccounts -----------------------------
(* Small instances of Accounts for TLC. *)
EXTENDS Accounts
CONSTANTS t1, t2, v1, ann, bob
MCOwner == [v \in Versions |-> IF v % 2 = 1 THEN ann ELSE bob]
=============================================================================
