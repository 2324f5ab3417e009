CONSTANTS
  Requests = {q1, q2}
  None = None
  Tasks = {m1, m2, n1}
  PurchaseRequests = {m1, m2}
  PurchaseOrders = {n1, n2}
  PurchaseItems = {i1, i2}
  StockedItems = {i1}
  Prices = {1, 2}
  MaxQuantity = 2
  Reviewables <- TrialReviewables
  Contents = {content}
  Versions = {w1, w2}
  Events = {event}
  Trips = {m1, m2}
  Shifts = {shift1, shift2}
  AssetBookings = {n1, n2}
  BookingForms <- TrialBookings
  TripForms <- TrialTrips
  ShiftForms <- TrialShifts
  Activities = {o1, o2}
  Workers = {n1, n2}
  Assignments = {m1, m2}
  ActivityForms <- TrialActivities
  Budgets = {m1, m2}
  Batches = {n1, n2}
  Paid = {o1, o2}
  MaxLines = 2
  MaxPeriod = 4
  RecoveryCodes = {m1, m2}
  MaxFailures = 2
  Docs = {m1, m2}
  Users = {ana, bia}
  Founders = {ana}
  Invitations = {m1, m2}
  m1 = m1
  m2 = m2
  n1 = n1
  n2 = n2
  o1 = o1
  o2 = o2
  event = event
  shift1 = shift1
  shift2 = shift2
  content = content
  proposal = proposal
  car = car
  van = van
  driver = driver
  keeper = keeper
SPECIFICATION Spec
SYMMETRY Sym
INVARIANTS DeskTypesOK NoCycle ReceiptsWithinOrder OneObligationPerOrder ApprovedUnchanged
           NoDoubleUse StaffAvailable AccountsAsSigned CodeOnce InvitationOnce
PROPERTIES PredecessorsFirst AvailableForGood
CHECK_DEADLOCK FALSE
