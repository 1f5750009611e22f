SPECIFICATION OneScreenSpec
CONSTANTS
  Requests = {r1, r2}
  BookingIds = {b1, b2}
  Prices = {p1, p2}
  NoPrice = NoPrice
  NoBooking = NoBooking
  Ops = {"customerAccept", "customerReject", "adminCancel", "adminSetReviewStatus", "adminSetQuote"}
  DeskOps = {"saveQuotation", "sendQuotation", "confirmOrder"}
  Guest = FALSE
  MayCrash = TRUE
  Sums = {0, 1, 2, 5}
  Hundred = 8
  Percents <- Eighths
  NoRate = NoRate
  BlankRate = BlankRate
  DefaultPercent = 1
  DefaultAmount = 5
  Quantities = {2}
  Callers = {r1, r2}
  Keys = {k1, k2}
  NoKey = NoKey
  MaxOrders = 3
SYMMETRY Alike
INVARIANTS DeskTypeOK ConvertedHasOrder SnapshotOfTheOrder OneConversion AdvanceCoversTheBill MilestonesCoverTheBill NetFreightIsPayable AnswersAgree OrdersAreWhole
CHECK_DEADLOCK FALSE
