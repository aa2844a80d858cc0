---------------------------- MODULE MCForwarding ----------------------------
(* Small instances of Forwarding for TLC. *)
EXTENDS Forwarding
CONSTANTS r1, r2
=============================================================================
