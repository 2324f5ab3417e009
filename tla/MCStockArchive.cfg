SPECIFICATION Spec
CONSTANTS
  Balances = {b1}
  Reservations = {r1}
  Commands = {c1}
  Requests = {q1, q2}
  None = None
  Amounts = {1}
  MaxQuantity = 1
CHECK_DEADLOCK FALSE
PROPERTY ArchiveIsReadOnly
