------------------------------ MODULE TripStates ------------------------------
(***************************************************************************)
(* The trip status machine (utils/TripStateMachine.js): statuses, the table *)
(* of transitions, and the edges that skip loading and dispatch, which only *)
(* the generic status endpoint may use.                                     *)
(***************************************************************************)

\* "ABSENT" is not a status of the code: the trip row does not exist yet.
ActiveStatuses == {"PENDING", "ASSIGNED", "TO_LOADING_POINT", "AT_LOADING_POINT",
                   "LOADED", "DISPATCHED", "IN_TRANSIT", "DELIVERED"}
FinalStatuses  == {"COMPLETED", "CANCELLED"}
TripStatuses   == ActiveStatuses \cup FinalStatuses

TripEdges ==
  {<<"PENDING", "ASSIGNED">>, <<"PENDING", "IN_TRANSIT">>,
   <<"ASSIGNED", "TO_LOADING_POINT">>, <<"ASSIGNED", "IN_TRANSIT">>,
   <<"TO_LOADING_POINT", "AT_LOADING_POINT">>, <<"AT_LOADING_POINT", "LOADED">>,
   <<"LOADED", "DISPATCHED">>, <<"DISPATCHED", "IN_TRANSIT">>,
   <<"IN_TRANSIT", "DELIVERED">>, <<"DELIVERED", "COMPLETED">>,
   <<"DELIVERED", "IN_TRANSIT">>}
  \cup (ActiveStatuses \X {"CANCELLED"})

LegacySkips == {<<"ASSIGNED", "IN_TRANSIT">>, <<"PENDING", "IN_TRANSIT">>,
                <<"DELIVERED", "IN_TRANSIT">>}

\* validateTransition, and validateOperationalTransition of the operational endpoints.
MayMove(from, to)            == <<from, to>> \in TripEdges
MayMoveOperationally(from, to) == <<from, to>> \in TripEdges \ LegacySkips
=============================================================================
