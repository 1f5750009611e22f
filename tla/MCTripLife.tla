------------------------------ MODULE MCTripLife ------------------------------
(***************************************************************************)
(* Model values for TripLife.                                               *)
(***************************************************************************)
EXTENDS TripLife, TLC

\* The trip from engagement to departure, the trip from loading to completion with its
\* papers, and the truck that is exchanged while other trips take and give back vehicles.
Yard == {"assign", "loading", "cancel", "drafts", "dispatch"}
Door == {"loading", "cancel", "drafts", "dispatch", "pod", "documents", "delivery"}
Road == {"assign", "cancel", "otherTrips", "incidents", "vehicleChange"}
Used == {Yard, Door, Road}

Interchangeable == Permutations(Requests) \cup Permutations(Vehicles)
=============================================================================
