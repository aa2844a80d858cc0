\* Two refreshes and a check of one account whose file is replaced once.
SPECIFICATION FairSpec
CONSTANTS
  t1 = t1 t2 = t2 v1 = v1 ann = ann bob = bob
  NoEmail = NoEmail
  Refreshers = {t1, t2}
  Verifiers = {v1}
  MaxVersion = 2
  Owner <- MCOwner
  TTL = 2
  StaleMax = 3
  GateCap = 2
  Steps = 1
  RetryAfters = {0, 4}
  MaxWait = 1
INVARIANTS CardsAreTrue
PROPERTIES PollsAreSpaced KnownAgain
