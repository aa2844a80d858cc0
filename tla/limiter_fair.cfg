\* Three calls of two clients, every cap, reserve, retune and queue mode.
CONSTANTS
  r1 = r1
  r2 = r2
  r3 = r3
  ann = ann
  bob = bob
  Requests = {r1, r2, r3}
  Clients = {ann, bob}
  ClientOf <- MCClientOf
  Modes = {"off", "observe", "fair"}
  HardMaxes = {1, 2}
  Reserves = {0, 1}
  LiveFloors = {2}
  AimdMin = 1
  AimdInitial = 1
  DecreasePct = 70
SPECIFICATION FairSpec
INVARIANTS SlotAccounting WaitersAreReachable
PROPERTIES ImplementsPool EveryWaiterLeaves
