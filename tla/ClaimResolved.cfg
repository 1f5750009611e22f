SPECIFICATION FairDeskSpec
CONSTANTS
  Requests = {r1, r2}
  BookingIds = {b1, b2}
  Prices = {p1}
  NoPrice = NoPrice
  NoBooking = NoBooking
  Ops = {"customerAccept", "customerReject", "adminSetReviewStatus", "adminSetQuote", "adminCancel"}
  DeskOps = {"saveQuotation", "sendQuotation", "confirmOrder"}
  Guest = TRUE
  MayCrash = FALSE
PROPERTY ClaimResolved
CHECK_DEADLOCK FALSE
