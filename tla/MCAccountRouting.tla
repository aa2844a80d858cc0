-------------------------- MODULE MCAccountRouting --------------------------
(* Two accounts, the callers' own bearer, and more sessions than pins. *)
EXTENDS AccountRouting, TLC

Mode(mode, affinity, apiKey, static, slots, reserve, caps, words) ==
  [mode |-> mode, affinity |-> affinity, apiKey |-> apiKey, static |-> static,
   slots |-> slots, reserve |-> reserve, caps |-> caps, gauges |-> {{}} \cup words]

\* Ten slots of which pushback leaves one: full with one call, nobody waiting;
\* nine and a reserve: full with two; and a single slot, where calls queue.
MCSetups ==
  {Mode("least_loaded", TRUE, "off", FALSE, 10, 0, {1, 10}, {{"warn"}, {"dead"}}),
   Mode("least_loaded", FALSE, "off", TRUE, 1, 0, {1}, {{"warn", "held"}, {"shut"}, {"dead"}}),
   Mode("budget_paced", TRUE, "overflow", FALSE, 9, 1, {1, 9}, {{"crossed"}, {"ahead"}}),
   Mode("budget_paced", FALSE, "prefer", FALSE, 1, 1, {1}, {{"warn", "crossed"}}),
   Mode("round_robin", FALSE, "overflow", FALSE, 1, 0, {1}, {{"shut"}})}

\* Sessions, calls and accounts are interchangeable.
MCSymmetry == Permutations(Sessions) \cup Permutations(Calls) \cup Permutations(Accounts)
=============================================================================
