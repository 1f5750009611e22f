SPECIFICATION Spec
CONSTANTS
  Requests = {r1, r2}
  BookingIds = {b1, b2}
  Prices = {p1, p2}
  NoPrice = NoPrice
  NoBooking = NoBooking
  Ops = {"customerAccept", "adminAssign", "adminSetQuote", "adminSendQuote"}
  Guest = FALSE
  MayCrash = FALSE
SYMMETRY Interchangeable
INVARIANTS AgreedPriceIsContract
CHECK_DEADLOCK FALSE
