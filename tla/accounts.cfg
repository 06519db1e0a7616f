SPECIFICATION Spec
CONSTANTS
  Requests = {q1, q2}
  Tokens = {t1, t2}
  NoToken = NoToken
  NoDoc = NoDoc
  StartCoins = 3
  Price = 2
  Prize = 1
  MaxCredits = 2
  MaxBans = 1
  MaxBuys = 2
  MaxFaults = 1
SYMMETRY Symmetry
INVARIANTS TypeOK AccountsSound
PROPERTIES ImplementsAccount
CHECK_DEADLOCK FALSE
