---------------------------- MODULE MCProbeGate ----------------------------
(* Small instances of ProbeGate for TLC. *)
EXTENDS ProbeGate
CONSTANTS b1, b2, r1, r2, r3

MCHome == [r \in Calls |-> b1]
=============================================================================
