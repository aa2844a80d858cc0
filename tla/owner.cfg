\* Three reservations, the first for two tokens of two.
SPECIFICATION FairSpec
CONSTANTS
  t1 = t1
  t2 = t2
  t3 = t3
  Tickets = {t1, t2, t3}
  Cost <- MCCost
  MaxRequests = 2
  MaxTokens = 2
  Window = 1
  MaxPending = 2
  MaxTime = 1
INVARIANTS SentIsDurable SentWithinBudget DecisionsOnDurableState NoDebtLeak
PROPERTIES DrainCompletes
