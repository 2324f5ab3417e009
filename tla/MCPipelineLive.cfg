SPECIFICATION PFairSpec
CONSTANTS
  s1 = s1
  s2 = s2
  c1 = c1
  c2 = c2
  Events <- MCEvents
  ContactsOf <- MCContactsOf
  Named <- MCNamed
  WithMessage <- MCWithMessage
  ByHand = {}
  Workers = {w1}
  Tasks = {t1, t2}
  NoEvent = NoEvent
  NoTask = NoTask
  MaxAttempts = 2
  StaleAfter = 0
  Base = 1
  Cap = 1
  MaxCrashes = 0
  MaxRetries = 1
  MaxRaises = 1
  MaxKills = 0
PROPERTY EventuallyDone
