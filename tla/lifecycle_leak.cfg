\* A client that goes while its stream is being opened, in a process that queues: what
\* stays behind is a count of the queue and the client's entry.
SPECIFICATION Spec
CONSTANTS
  r1 = r1
  r2 = r2
  r3 = r3
  ann = ann
  bob = bob
  Calls = {r1, r2, r3}
  Clients = {ann, bob}
  ClientOf <- MCClientOf
  Streaming = {r1}
  Deferrals = {"pace"}
  Modes = {"fair"}
  MaxCount = 3
INVARIANTS NothingLeaks
