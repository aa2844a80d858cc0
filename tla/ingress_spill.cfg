\* One bulk request at a time on the three lanes of its chain.
SPECIFICATION Spec
CONSTANTS
  r1 = r1
  r2 = r2
  s = s
  NoLane = NoLane
  NoSession = NoSession
  NoRegistry = NoRegistry
  Requests = {r1}
  Lanes = {"anthropic", "deepseek", "kimi", "glm"}
  Sessions = {s}
  Kinds <- MCBulk
  Chain <- MCBulkChain
  Overflow = FALSE
  QueueRetries = 1
  Registries = {}
  ActiveRouting = FALSE
PROPERTIES SpillsDownTheChain
