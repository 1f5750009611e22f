--------------------------- MODULE CustomerLedger ---------------------------
(***************************************************************************)
(* The customer's side of a trip: the invoice and the four writers of       *)
(* receipts.  recordCustomerReceipt (FinancePostingService) locks trip and  *)
(* invoice; recordClientPayment (CanonicalFinancialService), and addPayment *)
(* (TripService) like it, lock the trip_financial, or create it and lock    *)
(* nothing; recordCustomerPayment (TripInvoiceService) locks nothing, and    *)
(* creates it before its transaction.  Each recomputes the invoice's status  *)
(* inside its own transaction.                                              *)
(***************************************************************************)
EXTENDS LedgerRows

CONSTANT Total   \* grand_total of the invoice and freight of the trip

ASSUME TotalAssumption == Total \in Nat \ {0}

VARIABLES
  invoice,   \* payment_status of the trip's invoice, ABSENT until it is raised
  lapped     \* history: two requests were reconciling it at one time

customer == <<invoice, lapped>>
InvoiceStates == {"ABSENT", "UNPAID", "PARTIALLY_PAID", "PAID"}

\* What reconcileInvoiceStatus makes of the money received.
StatusFor(money) ==
  IF money >= Total THEN "PAID" ELSE IF money > 0 THEN "PARTIALLY_PAID" ELSE "UNPAID"

\* createInvoice of a trip with a booking: booking_id is unique.
CreateInvoice(r) ==
  /\ req[r] = Idle /\ invoice = "ABSENT" /\ Free(r, {Trip})
  /\ invoice' = "UNPAID"
  /\ UNCHANGED <<ledger, lapped>>

\* A receipt needs an invoice to be allocated to, and so does recordCustomerPayment,
\* which looks at no key and no due.
Receive(r, op) ==
  /\ Room(1)
  /\ op \in {"receipt", "customerPayment"} => invoice # "ABSENT"
  /\ \E k \in Keys \cup {None}, a \in Amounts :
       Begin(r, [Idle EXCEPT !.op = op, !.key = k, !.amount = a,
                             !.at = IF op = "customerPayment" THEN "findFinancial" ELSE "key"])
  /\ UNCHANGED <<rows, held, filed, customer>>

\* A replayed key is answered with its row; that of a receipt, if the row is of the same
\* amount and invoice, after one more reconciliation.
Answered(q) ==
  IF q.op = "clientPayment" THEN Referenced(q.key, Receipts) ELSE Posted(q.key)
SameReceipt(q) ==
  /\ q.op = "receipt"
  /\ \E i \in DOMAIN rows : rows[i].key = q.key /\ rows[i].amount = q.amount /\ rows[i].billed

CheckKey(r) ==
  /\ req[r].at = "key"
  /\ IF Answered(req[r])
     THEN IF SameReceipt(req[r]) THEN Goto(r, "sum") /\ UNCHANGED <<rows, held, filed>> ELSE Refuse(r)
     ELSE /\ Goto(r, IF req[r].op = "clientPayment" THEN "lockFinancial" ELSE "lockTripForReceipt")
          /\ UNCHANGED <<rows, held, filed>>
  /\ UNCHANGED customer

LockTripForReceipt(r) ==
  /\ req[r].at = "lockTripForReceipt"
  /\ LockRow(r, Trip, IF req[r].op = "receipt" THEN "lockInvoice" ELSE "insertReceipt")
  /\ UNCHANGED customer

LockInvoice(r) ==
  /\ req[r].at = "lockInvoice"
  /\ LockRow(r, Invoice, "guard")
  /\ UNCHANGED customer

\* Mutant: the payment of a client does not lock the ledger row it finds.
FinancialUnlocked(r) ==
  /\ req[r].at = "lockFinancial"
  /\ IF filed = 0 THEN TakeFinancial(r, "guard")
     ELSE Goto(r, "guard") /\ UNCHANGED <<rows, held, filed>>
  /\ UNCHANGED customer

LockFinancial(r) ==
  /\ req[r].at = "lockFinancial"
  /\ TakeFinancial(r, "guard")
  /\ UNCHANGED customer

\* recordCustomerPayment: the ledger row, found or else created, each a statement of its own.
FindFinancial(r) ==
  /\ req[r].at = "findFinancial"
  /\ Goto(r, IF filed > 0 THEN "insertReceipt" ELSE "createFinancial")
  /\ UNCHANGED <<rows, held, filed, customer>>

CreateFinancial(r) ==
  /\ req[r].at = "createFinancial" /\ MayFile(r) /\ Free(r, {Trip})
  /\ IF booked /\ filed > 0 THEN Refuse(r)
     ELSE Goto(r, "insertReceipt") /\ filed' = OneMore /\ UNCHANGED <<rows, held>>
  /\ UNCHANGED customer

\* A receipt may not take the invoice above its total, nor a client payment what the
\* customer has paid above the freight.
GuardAmount(r) ==
  /\ req[r].at = "guard"
  /\ LET before == IF req[r].op = "receipt" THEN Received(rows) ELSE Collected(rows)
     IN  IF before + req[r].amount <= Total
         THEN Goto(r, "insertReceipt") /\ UNCHANGED <<rows, held, filed>>
         ELSE Refuse(r)
  /\ UNCHANGED customer

-----------------------------------------------------------------------------
\* A customer advance names no invoice; a client payment names the one it finds.
InsertReceipt(r) ==
  /\ req[r].at = "insertReceipt"
  /\ LET q == req[r]
         billed == q.op # "customerAdvance" /\ invoice # "ABSENT"
         keyed == q.op \in {"receipt", "customerAdvance"}
     IN  InsertRow(r, [NewRow(q.op, q.amount) EXCEPT
                         !.key = IF keyed THEN q.key ELSE None,
                         !.ref = IF keyed THEN None ELSE q.key,
                         !.billed = billed],
                   IF billed THEN "sum" ELSE "commit")
  /\ UNCHANGED customer

\* Mutant: the receipts are read outside the transaction that writes one.
SumCommitted(r) ==
  /\ req[r].at = "sum"
  /\ req' = [req EXCEPT ![r].at = "stamp", ![r].seen = Received(rows)]
  /\ lapped' = (lapped \/ \E q \in Others(r) : req[q].at = "stamp")
  /\ UNCHANGED <<rows, held, filed, invoice>>

\* reconcileInvoiceStatus reads the receipts ...
SumReceipts(r) ==
  /\ req[r].at = "sum"
  /\ req' = [req EXCEPT ![r].at = "stamp", ![r].seen = Received(Seen(r))]
  /\ lapped' = (lapped \/ \E q \in Others(r) : req[q].at = "stamp")
  /\ UNCHANGED <<rows, held, filed, invoice>>

\* ... and writes the status it makes of them; commit.
Stamp(r) ==
  /\ req[r].at = "stamp"
  /\ Free(r, {Invoice})
  /\ invoice' = StatusFor(req[r].seen)
  /\ Commit(r)
  /\ UNCHANGED lapped

\* A receipt or a reversal that names no invoice commits as it is.
CommitUnbilled(r) ==
  /\ req[r].at = "commit"
  /\ Commit(r)
  /\ UNCHANGED customer

-----------------------------------------------------------------------------
CustomerArrive(r, mix) ==
  \/ "invoice" \in mix /\ CreateInvoice(r)
  \/ \E op \in Receipts \cap mix : Receive(r, op)
  \/ "reverse" \in mix /\ Reverse(r) /\ UNCHANGED customer

CustomerStep(r) ==
  \/ CheckKey(r)
  \/ LockTripForReceipt(r) \/ LockInvoice(r) \/ LockFinancial(r) \/ GuardAmount(r)
  \/ FindFinancial(r) \/ CreateFinancial(r)
  \/ (LockEntry(r) \/ CheckReversible(r) \/ InsertReversal(r)) /\ UNCHANGED customer
  \/ InsertReceipt(r) \/ SumReceipts(r) \/ Stamp(r) \/ CommitUnbilled(r)
=============================================================================
