\* Two requests at a time, of five kinds, with and without a registry.
SPECIFICATION FairSpec
CONSTANTS
  r1 = r1
  r2 = r2
  s = s
  NoLane = NoLane
  NoSession = NoSession
  NoRegistry = NoRegistry
  Requests = {r1, r2}
  Lanes = {"anthropic", "kimi"}
  Sessions = {s}
  Kinds <- MCKinds
  Chain <- MCChain
  Overflow = FALSE
  QueueRetries = 1
  Registries = {{"kimi"}, {"anthropic", "kimi"}}
  ActiveRouting = TRUE
INVARIANTS AttemptsBounded
PROPERTIES DispatchIsLawful EveryRequestEnds
