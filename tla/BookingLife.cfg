SPECIFICATION Spec
CONSTANTS
  r1 = r1
  r2 = r2
  d1 = d1
  d2 = d2
  p1 = p1
  p2 = p2
  Requests = {r1, r2}
  Drivers = {d1, d2}
  Prices = {p1, p2}
  None = None
  FormPrices = {None}
  FormDrivers = {d1, d2}
  Patched = {"pending"}
  Bulk = {"confirmed"}
  Stages = {"pickup_started"}
  MaxSends = 2
  MayCrash = TRUE
SYMMETRY Interchangeable
CONSTRAINT OneTrouble
CHECK_DEADLOCK FALSE
INVARIANTS
  BookingTypeOK
  OneActiveReservation
  HeldForOpenQuote
  ConfirmedIsAccepted
  DealAgrees
  OneTripUnlessOverlap

PROPERTIES
  AnswerStands
