SPECIFICATION Spec
CONSTANTS
  Accounts = {a1, a2}
  DefaultQuantum = 2
  NoTicket = NoTicket
  Calls = {r1, r2}
  Sessions = {s1, s2, s3}
  Caller = Caller
  Metered = Metered
  Setups <- MCSetups
  Scale = 10
  MaxPins = 2
  MaxTokens = 2
  MaxTurns = 4
INVARIANTS ChoiceIsCheapest BooksAreKept
PROPERTIES DeadServesNobody SessionsStay
SYMMETRY MCSymmetry
