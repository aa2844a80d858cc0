\* Five calls of three clients: the order they are served in.
SPECIFICATION Spec
CONSTANTS
  r1 = r1
  r2 = r2
  r3 = r3
  r4 = r4
  r5 = r5
  ann = ann
  bob = bob
  cyd = cyd
  Requests = {r1, r2, r3, r4, r5}
  Clients = {ann, bob, cyd}
  ClientOf <- MCClientOf
  Modes = {"fair"}
  HardMaxes = {1}
  Reserves = {0, 1}
  LiveFloors = {}
  AimdMin = 1
  AimdInitial = 1
  DecreasePct = 70
  MaxSlots = 2
SYMMETRY Alike
INVARIANTS LoopIsKept
PROPERTIES RoundRobin
