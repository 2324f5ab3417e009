SPECIFICATION PSpec
CONSTANTS
  s1 = s1
  s2 = s2
  c1 = c1
  c2 = c2
  Events <- MCEvents
  ContactsOf <- MCContactsOf
  Named <- MCNamed
  WithMessage <- MCWithMessage
  ByHand <- MCByHand
  Workers = {w1}
  Tasks = {t1, t2}
  NoEvent = NoEvent
  NoTask = NoTask
  MaxAttempts = 1
  StaleAfter = 0
  Base = 1
  Cap = 1
  MaxCrashes = 1
  MaxRetries = 1
  MaxRaises = 2
  MaxKills = 1
SYMMETRY Symmetry
INVARIANTS PTypeOK NoSharedContact EffectsOnce ReviewJustified
PROPERTY ImplementsRegistry
