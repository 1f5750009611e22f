SPECIFICATION Spec
CONSTANTS
  Trips = {"t1", "t2"}
  Vehicles = {"v1"}
  Requests = {r1, r2}
  None = None
  Ops = {"assign", "adminAssign", "createTrip", "updateTrip", "ensureTripForBooking", "ensureTripForEnquiry", "updateTripStatus", "releaseReservation"}
  Targets = {"IN_TRANSIT", "CANCELLED"}
  Booked <- BookedOf
  Day <- DayOf
  Until <- UntilOf
  Stamps = {"t2"}
  MayCrash = TRUE
SYMMETRY Interchangeable
INVARIANTS FleetTypeOK AssignedApart CreatedApart ApartUnlessRaced
CHECK_DEADLOCK FALSE
