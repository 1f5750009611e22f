SPECIFICATION Spec
CONSTANTS
  r1 = r1
  r2 = r2
  k1 = k1
  p1 = p1
  p2 = p2
  Requests = {r1, r2}
  Keys = {k1}
  None = None
  MaxAmount = 2
  MaxRows = 3
  Total = 2
  Periods = {p1, p2}
  MaxFuels = 2
  MaxPays = 2
  TripTerms = 2
  Nets = {1, 2}
  MaxEdits = 1
  Days <- Used
  Adjustments <- Given
SYMMETRY Interchangeable
CHECK_DEADLOCK FALSE
INVARIANTS
  LedgerTypeOK
  InvoiceAgreesUnlessLapped
  ReversedOnce
  BookKeepsPace
  AdjustmentsAddUp
  PumpBalanced
  BillsAddUp
PROPERTIES
  GuardedReceiptsFit
  PaidWithinPosition
