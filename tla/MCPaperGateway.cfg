SPECIFICATION MCSpec
CONSTANTS
  a = a
  b = b
  one = one
  two = two
  live = live
  i1 = i1
  i2 = i2
  i3 = i3
  None = None
  Denied = Denied
  Callers = {a, b}
  Keys = {one, two, live}
  Intents = {i1, i2, i3}
  IntentsOf <- MCIntentsOf
  Requested <- MCRequested
  ExpiresAt <- MCExpiresAt
  ModeOf <- MCModeOf
  Evidence <- MCEvidence
  MaxNow = 2
  OrderQuantity = 2
  Prices = {40, 60}
  Fees = {1}
  MaxFills = 3
  MaxCopies = 2
INVARIANTS
  AnswersAreDurable
  AuditMirrorsExecutions
  StoredResultHonoursPlan
  SettlesOwnFills
PROPERTIES
  ImplementsLedger
