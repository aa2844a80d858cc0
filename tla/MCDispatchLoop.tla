--------------------------- MODULE MCDispatchLoop ---------------------------
(* The limiter beside its loop: ann and bob have two calls each, cyd one. *)
EXTENDS DispatchLoop, TLC

CONSTANTS ann, bob, cyd, r1, r2, r3, r4, r5

MCClientOf == r1 :> ann @@ r2 :> ann @@ r3 :> bob @@ r4 :> bob @@ r5 :> cyd

\* The two calls of a client are alike.
Alike == {p @@ q : p \in Permutations({r1, r2}), q \in Permutations({r3, r4})}
=============================================================================
