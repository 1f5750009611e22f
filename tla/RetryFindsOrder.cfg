SPECIFICATION DeskSpec
CONSTANTS
  Requests = {r1, r2}
  BookingIds = {b1, b2}
  Prices = {p1}
  NoPrice = NoPrice
  NoBooking = NoBooking
  Ops = {"customerAccept"}
  DeskOps = {"saveQuotation", "sendQuotation", "confirmOrder"}
  Guest = FALSE
  MayCrash = FALSE
SYMMETRY Interchangeable
PROPERTY RetryFindsOrder
CHECK_DEADLOCK FALSE
