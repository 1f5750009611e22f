------------------------------ MODULE MCLedger ------------------------------
(***************************************************************************)
(* Model values for Ledger: one day at the customer's counter, two at the   *)
(* owner's, one with the terms of the hire in motion, one at the pump.      *)
(***************************************************************************)
EXTENDS Ledger, TLC

Counter == Receipts \cup {"invoice", "reverse"}
Owner   == {"ownerSettlement", "routePay", "routeAdvance", "ownerAdvance", "reverse", "adjust"}
Finance == {"vendorPayment", "ownerSettlement", "reverse"}
Terms   == {"hireVehicle", "editHire", "confirmHire", "cancelHire", "ownerSettlement", "routePay"}
Pump    == {"recordFuel", "payPump", "billPump"}

Day(uses, b, f) == [uses |-> uses, booked |-> b, filed |-> f]
Used == {Day(Counter, TRUE, 0), Day(Counter, FALSE, 0), Day(Owner, FALSE, 0),
         Day(Finance, TRUE, 0), Day(Terms, TRUE, 1), Day(Pump, TRUE, 1)}
Reversals == {Day({"invoice", "receipt", "reverse"}, TRUE, 1)}

Given == {-1}

Interchangeable == Permutations(Requests) \cup Permutations(Periods)
=============================================================================
