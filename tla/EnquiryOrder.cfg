SPECIFICATION Spec
CONSTANTS
  Requests = {r1, r2}
  BookingIds = {b1, b2}
  Prices = {p1}
  NoPrice = NoPrice
  NoBooking = NoBooking
  Ops = {"customerAccept", "customerReject", "customerCancel", "adminAssign", "adminSetReviewStatus", "adminSetQuote", "adminSendQuote", "adminConfirmOrder", "adminCancel"}
  Guest = TRUE
  MayCrash = TRUE
SYMMETRY Interchangeable
INVARIANTS TypeOK OneConversion TripFollowsOrder OfferIsComplete
PROPERTIES KeepsOrderCharter
CHECK_DEADLOCK FALSE
