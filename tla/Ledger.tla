------------------------------- MODULE Ledger -------------------------------
(***************************************************************************)
(* The money of one trip: its customer, its owner and the pump that fuels   *)
(* it, over one table of financial_transactions.  Requests arrive at any    *)
(* endpoint of the day's mix and run statement by statement; PostgreSQL may  *)
(* roll back whoever waits in a transaction (a deadlock, the transaction's  *)
(* time limit, the process gone), and recordCustomerReceipt then tries again. *)
(***************************************************************************)
EXTENDS CustomerLedger, VendorLedger

CONSTANT Days   \* [uses, booked, filed]: a set of endpoints, and the trip as they find it:
                \* with a booking or without, with a trip_financial (confirmBooking's) or not

ASSUME LedgerDays == Days \subseteq [uses : SUBSET STRING, booked : BOOLEAN, filed : {0, 1}]

VARIABLE mix    \* the endpoints in use

vars == <<ledger, booked, customer, vendor, pump, mix>>

Init ==
  /\ rows = << >> /\ held = [r \in Requests |-> {}] /\ req = [r \in Requests |-> Idle]
  /\ invoice = "ABSENT" /\ lapped = FALSE
  /\ hire = [status |-> "NONE", net |-> 0, edits |-> 0] /\ book = 0 /\ advances = << >>
  /\ fuels = << >> /\ bills = << >> /\ pays = << >> /\ balance = 0
  /\ \E d \in Days : mix = d.uses /\ booked = d.booked /\ filed = d.filed

Arrive(r) ==
  \/ CustomerArrive(r, mix) /\ UNCHANGED <<vendor, pump>>
  \/ VendorArrive(r, mix)   /\ UNCHANGED <<customer, pump>>
  \/ PumpArrive(r, mix)     /\ UNCHANGED <<customer, vendor>>

\* Where a request holds a lock, has inserted a row or has a snapshot.
InTransaction(r) ==
  \/ held[r] # {} \/ req[r].own # << >> \/ req[r].files
  \/ req[r].at \in {"payWrite", "billWrite"}

RollBack(r) ==
  /\ InTransaction(r)
  /\ Refuse(r)
  /\ UNCHANGED <<customer, vendor, pump>>

\* recordCustomerReceipt runs again after a transient error.
TryAgain(r) ==
  /\ InTransaction(r) /\ req[r].op = "receipt"
  /\ req' = [req EXCEPT ![r] = [Idle EXCEPT !.op = "receipt", !.at = "key",
                                            !.key = req[r].key, !.amount = req[r].amount]]
  /\ held' = [held EXCEPT ![r] = {}]
  /\ UNCHANGED <<rows, filed, customer, vendor, pump>>

Step(r) ==
  \/ CustomerStep(r)  /\ UNCHANGED <<vendor, pump>>
  \/ VendorStep(r)    /\ UNCHANGED <<customer, pump>>
  \/ CommitPayment(r) /\ UNCHANGED customer
  \/ PumpStep(r)      /\ UNCHANGED <<customer, vendor>>
  \/ RollBack(r)
  \/ TryAgain(r)

Next == (\E r \in Requests : Arrive(r) \/ Step(r)) /\ UNCHANGED <<booked, mix>>

Spec == Init /\ [][Next]_vars

-----------------------------------------------------------------------------
Steps == {"idle", "key", "lockTripForReceipt", "lockInvoice", "lockFinancial", "guard",
          "findFinancial", "createFinancial",
          "insertReceipt", "sum", "stamp", "commit", "lockEntry", "reversible", "insertReversal",
          "hireVehicle", "editHire", "confirmHire", "cancelHire", "reference",
          "lockTripForPayment", "position", "lockFinancialToPay", "insertPayment",
          "commitPayment", "lockAdvance", "unadjusted", "adjust",
          "fuelKey", "fuelWrite", "payKey", "payRead", "payWrite", "billRead", "billWrite"}

\* Types of the state; no row is locked twice; and the unique indexes of the table hold,
\* that no two rows share an idempotency key nor two receipts a reference.
LedgerTypeOK ==
  /\ rows \in Seq(Row) /\ Len(rows) <= MaxRows
  /\ held \in [Requests -> SUBSET Lockable]
  /\ \A r \in Requests :
       /\ req[r].at \in Steps /\ req[r].own \in Seq(Row)
       /\ \A q \in Others(r) : held[q] \cap held[r] = {}
  /\ \A i, j \in DOMAIN rows : Clash(rows[i], rows[j]) => i = j
  /\ invoice \in InvoiceStates /\ lapped \in BOOLEAN
  /\ hire \in [status : HireStates, net : Nets \cup {0}, edits : 0 .. MaxEdits]
  /\ book \in Nat /\ balance \in Int
  /\ \A i \in DOMAIN fuels : fuels[i].bill \in 0 .. Len(bills)
  /\ filed \in 0 .. 2 /\ booked \in BOOLEAN /\ (booked => filed < 2)
  /\ mix \in {d.uses : d \in Days}

-----------------------------------------------------------------------------
\* The customer.

Written == DOMAIN rows' \ DOMAIN rows

\* When recordCustomerReceipt commits, the receipts that name the invoice are within its
\* total.  When recordClientPayment or addPayment commits, what the customer has paid is
\* within the freight, whoever else was posting at the time: always for a trip with a
\* booking, and for one without unless it got its trip_financial twice, from writers that
\* each found none and had nothing to lock.
GuardedReceiptsFit ==
  [][\A i \in Written :
       /\ rows'[i].by = "receipt" => Received(rows') <= Total
       /\ rows'[i].by = "clientPayment" /\ (booked \/ filed' < 2) => Collected(rows') <= Total]_vars

\* What the invoice has received and kept: a receipt that was reversed was given back.
Kept(table) == Received(table) - Undone(table, Billed(table))

\* reconcileInvoiceStatus runs in the transaction of every writer of receipts and of the
\* reversal: as long as no two of them overlapped between the sum and the commit, and no
\* receipt of the invoice was reversed, the invoice says what the ledger says it received
\* and kept.
InvoiceAgreesUnlessLapped ==
  /\ invoice # "ABSENT" /\ ~lapped
  /\ \A i \in DOMAIN rows : rows[i].undoes \notin Billed(rows)
  => invoice = StatusFor(Kept(rows))

\* What reconcileInvoiceStatus and its callers say of a reversal, that it takes the money out
\* and the invoice will "fall back to PENDING rather than leaving a lie behind".
ReversalReachesInvoice ==
  (invoice # "ABSENT" /\ ~lapped) => invoice = StatusFor(Kept(rows))

\* reverseTransaction: an entry is undone by one reversal at most and a reversal by none,
\* however many operators press the button at one time.
ReversedOnce ==
  \A i \in Those(rows, {"reverse"}) :
    /\ rows[rows[i].undoes].by # "reverse"
    /\ \A j \in Those(rows, {"reverse"}) : rows[j].undoes = rows[i].undoes => i = j

-----------------------------------------------------------------------------
\* The owner.

\* When the settlement desk or a PAY of the vendor route commits, what was paid to the
\* owner is within the net of the hire then on file and what was given back, although
\* advances, vendor payments, reversals and edits of the hire run beside it.
PaidWithinPosition ==
  [][\A i \in Written : rows'[i].by \in {"ownerSettlement", "routePay"} =>
       OwnerPaid(rows') <= Net' + OwnerReturned(rows')]_vars

\* owner_settlement_amount is written as a sum computed by the desk, and it is the sum of
\* the desk's rows: no settlement is lost by two at one time.
BookKeepsPace == book = Sum(rows, Those(rows, {"ownerSettlement"}))

\* adjustAdvance: what an advance has adjusted is the sum of the adjustments that were
\* answered, and within what was given, however many operators adjust it at one time: the
\* same advance is not set off twice.
AdjustmentsAddUp ==
  \A i \in DOMAIN advances :
    advances[i].adjusted = advances[i].answered /\ advances[i].answered <= advances[i].amount

-----------------------------------------------------------------------------
\* The pump.

Whole(table) == Sum(table, DOMAIN table)

\* current_balance is incremented by fuel and overwritten by payments, and it stays the
\* fuel taken less the payments (what FinanceReconciliationService recomputes).
PumpBalanced == balance = Whole(fuels) - Whole(pays)

\* A bill is the sum of the fuel that carries its number and its adjustment, so no fuel is
\* billed twice; what is paid on it is the sum of its payments, and within its amount.
BillsAddUp ==
  \A b \in DOMAIN bills :
    /\ bills[b].amount = Sum(fuels, {i \in DOMAIN fuels : fuels[i].bill = b}) + bills[b].adjustment
    /\ bills[b].paid = Sum(pays, {i \in DOMAIN pays : pays[i].bill = b})
    /\ bills[b].paid > 0 => bills[b].paid <= bills[b].amount
=============================================================================
