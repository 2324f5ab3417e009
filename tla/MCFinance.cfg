SPECIFICATION Spec
CONSTANTS
  Obligations = {o1}
  Payments = {p1, p2}
  Entries = {e1}
  Requests = {q1, q2}
  Campaign = Campaign
  None = None
  Amounts = {1, 2}
  Shares = {1}
  MaxCents = 2
SYMMETRY Symmetry
INVARIANTS TypeOK WithinAmounts EntryStatusTrue ReversedCountsNowhere NoCircularWait
PROPERTIES DecidedAsShown ImplementsBooks
