---------------------------- MODULE BookingStates ----------------------------
(***************************************************************************)
(* The booking statuses and the table of utils/BookingStateMachine.js.       *)
(***************************************************************************)

BookingStatuses ==
  {"pending", "quote_sent", "confirmed", "driver_assigned", "pickup_started", "pickup_completed",
   "in_transit", "out_for_delivery", "delivered", "rejected", "cancelled", "completed"}

TerminalStatuses == {"rejected", "cancelled", "completed", "delivered"}

\* ALLOWED_TRANSITIONS: the chain, its short cuts, and cancelled from all but the terminal.
BookingEdges ==
  {<<"pending", "quote_sent">>, <<"quote_sent", "confirmed">>, <<"quote_sent", "rejected">>,
   <<"quote_sent", "pending">>, <<"confirmed", "driver_assigned">>,
   <<"confirmed", "pickup_started">>, <<"driver_assigned", "pickup_started">>,
   <<"pickup_started", "pickup_completed">>, <<"pickup_completed", "in_transit">>,
   <<"in_transit", "out_for_delivery">>, <<"out_for_delivery", "delivered">>,
   <<"delivered", "completed">>}
  \cup ((BookingStatuses \ TerminalStatuses) \X {"cancelled"})

\* validateTransition
MayTurn(from, to) == <<from, to>> \in BookingEdges

==============================================================================
