---------------------------- MODULE VendorLedger ----------------------------
(***************************************************************************)
(* The owner's side of a trip: the hire that says what is payable, and the  *)
(* writers that pay it.  The settlement desk (TripSettlementService) and    *)
(* the vendor route (tripFinancialRoutes) lock the trip and pay only what   *)
(* is outstanding; TripAdvanceService looks at the outstanding amount and   *)
(* locks nothing; recordVendorPayment (FinancePostingService) locks the     *)
(* trip, looks at no outstanding amount, and may pay a part in fuel, which   *)
(* it books at the pump.  Advances are adjusted under the lock of their row. *)
(***************************************************************************)
EXTENDS PumpBook

CONSTANTS
  TripTerms,   \* net payable by the trip's own terms, where no hire is on file
  Nets,        \* net_vendor_payable a hire may be agreed at
  MaxEdits     \* bound: edits of the hire

ASSUME VendorAssumption == TripTerms \in Nat /\ Nets \subseteq Nat /\ MaxEdits \in Nat

VARIABLES
  hire,      \* the vehicle_hires row: [status, net, edits], NONE until it is agreed
  book,      \* owner_settlement_amount of the trip's settlement
  advances   \* the trip_advances: [amount, ref, adjusted], and answered, the
             \* history of the adjustments that were acknowledged

vendor == <<hire, book, advances>>

HireStates == {"NONE", "ACTIVE", "CONFIRMED", "CANCELLED"}

\* _resolveHireMoney: a hire on file decides, whatever its status.
Net == IF hire.status = "NONE" THEN TripTerms ELSE hire.net

-----------------------------------------------------------------------------
\* hireVehicle, updateVehicleHire, confirmHire and cancelHire read the hire ...
HireOp(r, op) ==
  /\ CASE op = "hireVehicle"  -> hire.status = "NONE"
       [] op = "editHire"     -> /\ hire.status \in {"ACTIVE", "CONFIRMED"}
                              /\ hire.edits + Coming("editHire") < MaxEdits
       [] op = "confirmHire"  -> hire.status = "ACTIVE"
       [] op = "cancelHire"   -> hire.status \in {"ACTIVE", "CONFIRMED"}
  /\ \E n \in IF op \in {"hireVehicle", "editHire"} THEN Nets ELSE {0} :
       Begin(r, [Idle EXCEPT !.at = op, !.op = op, !.seen = n])
  /\ UNCHANGED <<rows, held, filed, vendor>>

\* ... and then write it.  The two that set the terms write the trip's columns in the same
\* transaction, and so wait for whoever holds the trip.  trip_id is unique.
AgreeHire(r) ==
  /\ req[r].at = "hireVehicle" /\ Free(r, {Trip})
  /\ hire' = IF hire.status = "NONE" THEN [hire EXCEPT !.status = "ACTIVE", !.net = req[r].seen]
             ELSE hire
  /\ Refuse(r) /\ UNCHANGED <<book, advances>>

\* Mutant: the edit leaves the trip's columns alone.
EditHireAlone(r) ==
  /\ req[r].at = "editHire"
  /\ hire' = [hire EXCEPT !.net = req[r].seen, !.edits = @ + 1]
  /\ Refuse(r) /\ UNCHANGED <<book, advances>>

EditHire(r) ==
  /\ req[r].at = "editHire" /\ Free(r, {Trip})
  /\ hire' = [hire EXCEPT !.net = req[r].seen, !.edits = @ + 1]
  /\ Refuse(r) /\ UNCHANGED <<book, advances>>

ConfirmOrCancelHire(r) ==
  /\ req[r].at \in {"confirmHire", "cancelHire"}
  /\ hire' = [hire EXCEPT !.status = IF req[r].at = "confirmHire" THEN "CONFIRMED" ELSE "CANCELLED"]
  /\ Refuse(r) /\ UNCHANGED <<book, advances>>

-----------------------------------------------------------------------------
PayOps == {"ownerSettlement", "routePay", "routeAdvance", "ownerAdvance", "vendorPayment"}

\* amount is the cash, fuel what is paid at the pump; only recordVendorPayment has both.
PayOwner(r, op) ==
  /\ \E k \in Keys \cup {None}, a \in 0 .. MaxAmount, f \in 0 .. MaxAmount :
       /\ IF op = "vendorPayment" THEN a + f > 0 ELSE a > 0 /\ f = 0
       /\ f > 0 => Len(fuels) + FuelsComing < MaxFuels
       /\ Room(IF a > 0 /\ f > 0 THEN 2 ELSE 1)
       /\ Begin(r, [Idle EXCEPT !.at = "reference", !.op = op, !.key = k,
                                !.amount = a, !.fuel = f])
  /\ UNCHANGED <<rows, held, filed, vendor>>

\* What each takes for a replay: recordVendorPayment the key, the others their reference
\* among rows of their own transaction_type or among the advances.
Replayed(q) ==
  CASE q.op = "vendorPayment" -> Posted(q.key)
    [] q.op = "ownerSettlement" \/ q.op = "routePay" ->
         Referenced(q.key, {"ownerSettlement", "routePay"})
    [] q.op = "routeAdvance" -> Referenced(q.key, {"ownerAdvance", "routeAdvance"})
    [] q.op = "ownerAdvance" ->
         q.key # None /\ \E i \in DOMAIN advances : advances[i].ref = q.key

\* The desk and the advance refuse here what is not outstanding; nothing is locked yet.
CheckReference(r) ==
  /\ req[r].at = "reference"
  /\ LET q == req[r]
     IN  IF Replayed(q) \/ (q.op \in {"ownerSettlement", "ownerAdvance"} /\ ~Covers(Net, rows, q.amount))
         THEN Refuse(r)
         ELSE Goto(r, IF q.op = "ownerAdvance" THEN "insertPayment" ELSE "lockTripForPayment")
              /\ UNCHANGED <<rows, held, filed>>
  /\ UNCHANGED vendor

\* Mutant: the desk relies on the check it made before its transaction.
LockTripNotDesk(r) ==
  /\ req[r].at = "lockTripForPayment"
  /\ IF req[r].op = "ownerSettlement" THEN Goto(r, "position") /\ UNCHANGED <<rows, held, filed>>
     ELSE LockRow(r, Trip, IF req[r].op = "vendorPayment" THEN "insertPayment" ELSE "position")
  /\ UNCHANGED vendor

LockTripForPayment(r) ==
  /\ req[r].at = "lockTripForPayment"
  /\ LockRow(r, Trip, IF req[r].op = "vendorPayment" THEN "insertPayment" ELSE "position")
  /\ UNCHANGED vendor

\* Under the lock, a settlement or a PAY of more than is outstanding is refused; an ADVANCE
\* is not.  The desk reads the settlement it adds to.
CheckPosition(r) ==
  /\ req[r].at = "position"
  /\ IF req[r].op # "routeAdvance" /\ ~Covers(Net, rows, req[r].amount)
     THEN Refuse(r)
     ELSE /\ req' = [req EXCEPT ![r].seen = book,
               ![r].at = IF req[r].op = "ownerSettlement" THEN "insertPayment" ELSE "lockFinancialToPay"]
          /\ UNCHANGED <<rows, held, filed>>
  /\ UNCHANGED vendor

LockFinancialToPay(r) ==
  /\ req[r].at = "lockFinancialToPay"
  /\ TakeFinancial(r, "insertPayment")
  /\ UNCHANGED vendor

\* A payment all in one part carries the key, one in two parts does not.
InsertPayment(r) ==
  /\ req[r].at = "insertPayment"
  /\ LET q == req[r]
         keyed == q.op = "vendorPayment" /\ q.amount * q.fuel = 0
         cash == q.amount > 0 /\ q.own = << >>
     IN  InsertRow(r, [NewRow(IF cash THEN q.op ELSE "vendorFuel", IF cash THEN q.amount ELSE q.fuel)
                       EXCEPT !.key = IF keyed THEN q.key ELSE None,
                              !.ref = IF q.op = "vendorPayment" THEN None ELSE q.key],
                   IF cash /\ q.fuel > 0 THEN "insertPayment" ELSE "commitPayment")
  /\ UNCHANGED vendor

\* The settlement, the advance and the fuel are written with the rows.
CommitPayment(r) ==
  /\ req[r].at = "commitPayment" /\ Len(Seen(r)) <= MaxRows
  /\ LET q == req[r]
     IN  /\ book' = IF q.op = "ownerSettlement" THEN q.seen + q.amount ELSE book
         /\ advances' = IF q.op # "ownerAdvance" THEN advances
                        ELSE Append(advances, [amount |-> q.amount, ref |-> q.key, adjusted |-> 0, answered |-> 0])
         /\ fuels' = IF q.fuel > 0 THEN Booked(q.fuel, None) ELSE fuels
         /\ balance' = balance + q.fuel
         /\ req' = LET done == [req EXCEPT ![r] = Idle]
                   IN  IF q.fuel > 0 THEN Age(r, done, "payWrite") ELSE done
         /\ held' = [held EXCEPT ![r] = {}]
         /\ rows' = Seen(r)
         /\ filed' = IF q.files THEN OneMore ELSE filed
  /\ UNCHANGED <<hire, bills, pays>>

-----------------------------------------------------------------------------
\* adjustAdvance
Adjust(r) ==
  /\ \E i \in DOMAIN advances, a \in Amounts :
       Begin(r, [Idle EXCEPT !.at = "lockAdvance", !.op = "adjust", !.pick = i, !.amount = a])
  /\ UNCHANGED <<rows, held, filed, vendor>>

\* Mutant: the advance is read without its lock.
AdvanceUnlocked(r) ==
  /\ req[r].at = "lockAdvance"
  /\ Goto(r, "unadjusted")
  /\ UNCHANGED <<rows, held, filed, vendor>>

LockAdvance(r) ==
  /\ req[r].at = "lockAdvance"
  /\ LockRow(r, Advance(req[r].pick), "unadjusted")
  /\ UNCHANGED vendor

CheckUnadjusted(r) ==
  /\ req[r].at = "unadjusted"
  /\ LET advance == advances[req[r].pick]
     IN  IF advance.adjusted + req[r].amount > advance.amount THEN Refuse(r)
         ELSE /\ req' = [req EXCEPT ![r].at = "adjust", ![r].seen = advance.adjusted]
              /\ UNCHANGED <<rows, held, filed>>
  /\ UNCHANGED vendor

WriteAdjusted(r) ==
  /\ req[r].at = "adjust"
  /\ advances' = [advances EXCEPT ![req[r].pick].adjusted = req[r].seen + req[r].amount,
                                  ![req[r].pick].answered = @ + req[r].amount]
  /\ Refuse(r) /\ UNCHANGED <<hire, book>>

-----------------------------------------------------------------------------
VendorArrive(r, mix) ==
  \/ \E op \in {"hireVehicle", "editHire", "confirmHire", "cancelHire"} \cap mix : HireOp(r, op)
  \/ \E op \in PayOps \cap mix : PayOwner(r, op)
  \/ "adjust" \in mix /\ Adjust(r)

VendorStep(r) ==
  \/ AgreeHire(r) \/ EditHire(r) \/ ConfirmOrCancelHire(r)
  \/ CheckReference(r) \/ LockTripForPayment(r) \/ CheckPosition(r) \/ LockFinancialToPay(r)
  \/ InsertPayment(r)
  \/ LockAdvance(r) \/ CheckUnadjusted(r) \/ WriteAdjusted(r)
=============================================================================
