\* One bearer that answers as it likes, but serves who keeps asking.
SPECIFICATION BusySpec
CONSTANTS
  b1 = b1 b2 = b2 r1 = r1 r2 = r2 r3 = r3
  Bearers = {b1}
  Calls = {r1, r2, r3}
  Home <- MCHome
  Held = {}
  Answers = {"served", "failed", "pushback"}
  MaxHold = 1
  MaxWindow = 2
  Bounded = FALSE
  Aborts = FALSE
  NoLease = NoLease
INVARIANTS SingleProbe
PROPERTIES GateIsObeyed GateReopens
