SPECIFICATION Spec
CONSTANTS
  v1 = v1
  v2 = v2
  r1 = r1
  r2 = r2
  Vehicles = {v1, v2}
  Requests = {r1, r2}
  None = None
  DocInputs = {"PRESENT", "REJECTED"}
  MaxChanges = 1
  Mixes <- Used
SYMMETRY Interchangeable
CHECK_DEADLOCK FALSE
INVARIANTS
  TripLifeTypeOK
  NeverAheadOfFacts
  ChangeBacksIncident
PROPERTIES
  DispatchRowAdvances
  KeepsCharter
