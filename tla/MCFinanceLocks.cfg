SPECIFICATION Spec
CONSTANTS
  Obligations = {o1}
  Payments = {p1}
  Entries = {e1}
  Requests = {q1}
  Campaign = Campaign
  None = None
  Amounts = {1}
  Shares = {1}
  MaxCents = 1
INVARIANT PaymentsBeforeEntries
