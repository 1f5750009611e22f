SPECIFICATION Spec
CONSTANTS
  Requests = {r1, r2}
  BookingIds = {b1, b2}
  Prices = {p1}
  NoPrice = NoPrice
  NoBooking = NoBooking
  Ops = {"customerAccept", "adminAssign", "adminSetQuote", "adminSendQuote"}
  Guest = FALSE
  MayCrash = FALSE
SYMMETRY Interchangeable
INVARIANTS ClaimHasOwner
CHECK_DEADLOCK FALSE
