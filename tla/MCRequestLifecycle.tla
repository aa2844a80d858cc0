------------------------- MODULE MCRequestLifecycle -------------------------
(* Small instances of RequestLifecycle: ann has two calls, bob one. *)
EXTENDS RequestLifecycle, TLC

CONSTANTS ann, bob, r1, r2, r3

MCClientOf == r1 :> ann @@ r2 :> ann @@ r3 :> bob
=============================================================================
