SPECIFICATION Spec
CONSTANTS
  b1 = b1 b2 = b2 r1 = r1 r2 = r2 r3 = r3
  Bearers = {b1, b2}
  Calls = {r1, r2}
  Home <- MCHome
  Held = {r2}
  Answers = {"served", "pushback", "refused"}
  MaxHold = 1
  MaxWindow = 2
  Bounded = TRUE
  Aborts = TRUE
  NoLease = NoLease
INVARIANTS LeasesAreKept
