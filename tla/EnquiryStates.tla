---------------------------- MODULE EnquiryStates ----------------------------
(***************************************************************************)
(* The enquiry status machine (utils/EnquiryStateMachine.js): the statuses *)
(* an enquiry row can hold, the table of transitions a handler may ask for,*)
(* and the groups of statuses the handlers branch on.  The table is what   *)
(* the handlers consult; that a write respects it is not part of this      *)
(* module, and several writes do not (see EnquiryOrder).                    *)
(***************************************************************************)

Statuses ==
  {"ENQUIRY_SUBMITTED", "ADMIN_REVIEW", "ASSIGNMENT_PENDING",
   "VEHICLE_ASSIGNED", "DRIVER_ASSIGNED", "QUOTE_READY",
   "AWAITING_CUSTOMER_ACCEPTANCE", "CUSTOMER_ACCEPTED", "CUSTOMER_REJECTED",
   "CONFIRMED", "IN_PROGRESS", "COMPLETED", "CANCELLED"}

TerminalStatuses == {"CUSTOMER_REJECTED", "CANCELLED", "COMPLETED"}

\* isCustomerCommitted: the customer has said yes.
CommittedStatuses == {"CUSTOMER_ACCEPTED", "CONFIRMED", "IN_PROGRESS", "COMPLETED"}

\* The customer may still cancel without calling customer care.
CustomerCancellable ==
  {"ENQUIRY_SUBMITTED", "ADMIN_REVIEW", "ASSIGNMENT_PENDING",
   "VEHICLE_ASSIGNED", "DRIVER_ASSIGNED", "QUOTE_READY",
   "AWAITING_CUSTOMER_ACCEPTANCE"}

\* ALLOWED_TRANSITIONS, as the set of <<from, to>> pairs.
AllowedTransitions ==
  ({"ENQUIRY_SUBMITTED"} \X
     {"ADMIN_REVIEW", "ASSIGNMENT_PENDING", "VEHICLE_ASSIGNED", "DRIVER_ASSIGNED", "QUOTE_READY"})
  \cup ({"ADMIN_REVIEW"} \X
     {"ASSIGNMENT_PENDING", "VEHICLE_ASSIGNED", "DRIVER_ASSIGNED", "QUOTE_READY"})
  \cup ({"ASSIGNMENT_PENDING"} \X
     {"ADMIN_REVIEW", "VEHICLE_ASSIGNED", "DRIVER_ASSIGNED", "QUOTE_READY"})
  \cup ({"VEHICLE_ASSIGNED"} \X {"ASSIGNMENT_PENDING", "DRIVER_ASSIGNED", "QUOTE_READY"})
  \cup ({"DRIVER_ASSIGNED"} \X {"ASSIGNMENT_PENDING", "VEHICLE_ASSIGNED", "QUOTE_READY"})
  \cup ({"QUOTE_READY"} \X {"AWAITING_CUSTOMER_ACCEPTANCE", "VEHICLE_ASSIGNED"})
  \cup ({"AWAITING_CUSTOMER_ACCEPTANCE"} \X
     {"CUSTOMER_ACCEPTED", "CUSTOMER_REJECTED", "QUOTE_READY"})
  \cup ({"CUSTOMER_ACCEPTED"} \X {"CONFIRMED", "CANCELLED"})
  \cup ({"CONFIRMED"} \X {"IN_PROGRESS", "CANCELLED", "COMPLETED"})
  \cup ({"IN_PROGRESS"} \X {"COMPLETED", "CANCELLED"})

CanTransition(from, to) == <<from, to>> \in AllowedTransitions

\* shortestPath(from, to) # null.  Two hops are enough for the one target the
\* code asks for, AWAITING_CUSTOMER_ACCEPTANCE; MCEnquiryOrder compares this with
\* reachability in the whole table.
HasPath(from, to) ==
  \/ from = to
  \/ CanTransition(from, to)
  \/ \E s \in Statuses : CanTransition(from, s) /\ CanTransition(s, to)

\* The status an assignment moves the enquiry to; NoStatus when it leaves it
\* alone (_nextStatusAfterAssignment and the "differs from fresh" test).
NoStatus == "none"

NextStatusAfterAssignment(current, resources) ==
  LET wanted == CASE resources = {"driver"}            -> "ASSIGNMENT_PENDING"
                  [] resources = {"vehicle", "driver"} -> "DRIVER_ASSIGNED"
                  [] resources = {"vehicle"}           -> "VEHICLE_ASSIGNED"
                  [] OTHER                             -> NoStatus
  IN  IF CanTransition(current, wanted) THEN wanted ELSE NoStatus
=============================================================================
