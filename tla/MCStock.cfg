SPECIFICATION Spec
CONSTANTS
  Balances = {b1}
  Reservations = {r1, r2}
  Commands = {c1, c2}
  Requests = {q1, q2}
  None = None
  Amounts = {1, 2}
  MaxQuantity = 3
SYMMETRY Symmetry
CHECK_DEADLOCK FALSE
INVARIANTS TypeOK BalanceMatchesRows NothingPromisedTwice CommandOnce
PROPERTY ArchivedStockFrozen ImplementsLedger
