--------------------------- MODULE MCFairLimiter ---------------------------
(* Small instances of FairLimiter: client ann has two calls, bob has one. *)
EXTENDS FairLimiter, TLC

CONSTANTS ann, bob, r1, r2, r3

MCClientOf == r1 :> ann @@ r2 :> ann @@ r3 :> bob
=============================================================================
