------------------------------ MODULE PumpBook ------------------------------
(***************************************************************************)
(* The account of one petrol pump: fuel taken on credit, the bills that     *)
(* collect it, the payments and the running balance (PetrolPumpRepository   *)
(* and the pump methods of FinancePostingService).  Fuel is booked at READ   *)
(* COMMITTED with an increment of the balance; bills and payments are        *)
(* SERIALIZABLE transactions that write what they computed from their        *)
(* snapshot, and are run again when a row they write has changed since.      *)
(***************************************************************************)
EXTENDS LedgerRows

CONSTANTS
  Periods,   \* billing periods, each of which holds every fuel transaction
  Adjustments, \* the adjustment_amounts the finance page sends with a bill, of either sign
  MaxFuels,  \* bound: fuel transactions
  MaxPays    \* bound: payments to the pump

ASSUME PumpAssumption == MaxFuels \in Nat /\ MaxPays \in Nat /\ Adjustments \subseteq Int

VARIABLES
  fuels,     \* the fuel transactions: [amount, receipt, bill], bill 0 while unbilled
  bills,     \* the bills: [period, adjustment, amount, paid]
  pays,      \* the payments: [amount, bill, key], bill 0 when on account
  balance    \* current_balance of the pump, which opened at 0

pump == <<fuels, bills, pays, balance>>

Unbilled == {i \in DOMAIN fuels : fuels[i].bill = 0}

\* Another transaction wrote a row that the snapshots of those at l would write.
Age(r, q, l) == [x \in Requests |-> IF x # r /\ q[x].at = l THEN [q[x] EXCEPT !.stale = TRUE]
                                    ELSE q[x]]

Booked(a, receipt) == Append(fuels, [amount |-> a, receipt |-> receipt, bill |-> 0])
FuelsComing == Coming("recordFuel") + Coming("vendorPayment")
HasReceipt(k) == k # None /\ \E i \in DOMAIN fuels : fuels[i].receipt = k

PumpArrive(r, mix) ==
  /\ \/ /\ "recordFuel" \in mix /\ Len(fuels) + FuelsComing < MaxFuels
        /\ \E k \in Keys \cup {None}, a \in Amounts :
             Begin(r, [Idle EXCEPT !.at = "fuelKey", !.op = "recordFuel", !.key = k, !.amount = a])
     \/ /\ "payPump" \in mix /\ Len(pays) + Coming("payPump") < MaxPays
        /\ \E k \in Keys \cup {None}, a \in Amounts, b \in 0 .. Len(bills) :
             Begin(r, [Idle EXCEPT !.at = "payKey", !.op = "payPump", !.key = k,
                                   !.amount = a, !.pick = b])
     \/ /\ "billPump" \in mix
        /\ \E p \in Periods, a \in Adjustments :
             Begin(r, [Idle EXCEPT !.at = "billRead", !.op = "billPump", !.key = p, !.adjustment = a])
  /\ UNCHANGED <<rows, held, filed, pump>>

-----------------------------------------------------------------------------
\* recordFuel: a receipt on file, or a key that stands for one, is not booked again.
FuelKey(r) ==
  /\ req[r].at = "fuelKey"
  /\ IF HasReceipt(req[r].key) THEN Refuse(r)
     ELSE Goto(r, "fuelWrite") /\ UNCHANGED <<rows, held, filed>>
  /\ UNCHANGED pump

\* (pump, receipt) is unique.
FuelWrite(r) ==
  /\ req[r].at = "fuelWrite"
  /\ IF HasReceipt(req[r].key) THEN Refuse(r) /\ UNCHANGED pump
     ELSE /\ fuels' = Booked(req[r].amount, req[r].key)
          /\ balance' = balance + req[r].amount
          /\ req' = Age(r, [req EXCEPT ![r] = Idle], "payWrite")
          /\ UNCHANGED <<rows, held, filed, bills, pays>>

-----------------------------------------------------------------------------
PaidAlready(k) == k # None /\ \E i \in DOMAIN pays : pays[i].key = k
Outstanding(b) == bills[b].amount - bills[b].paid

\* payPump: the key is looked up before the transaction ...
PayKey(r) ==
  /\ req[r].at = "payKey"
  /\ IF PaidAlready(req[r].key) THEN Refuse(r)
     ELSE Goto(r, "payRead") /\ UNCHANGED <<rows, held, filed>>
  /\ UNCHANGED pump

\* ... whose snapshot gives the bill's outstanding amount and the pump's balance.
PayRead(r) ==
  /\ req[r].at = "payRead"
  /\ IF req[r].pick # 0 /\ req[r].amount > Outstanding(req[r].pick)
     THEN Refuse(r)
     ELSE /\ req' = [req EXCEPT ![r].at = "payWrite", ![r].seen = balance, ![r].stale = FALSE]
          /\ UNCHANGED <<rows, held, filed>>
  /\ UNCHANGED pump

\* The rows as a payment writes them from its snapshot.
PayAs(r) ==
  LET q == req[r]
  IN  /\ pays' = Append(pays, [amount |-> q.amount, bill |-> q.pick, key |-> q.key])
      /\ bills' = IF q.pick = 0 THEN bills ELSE [bills EXCEPT ![q.pick].paid = @ + q.amount]
      /\ balance' = q.seen - q.amount
      /\ req' = Age(r, [req EXCEPT ![r] = Idle], "payWrite")
      /\ UNCHANGED <<rows, held, filed, fuels>>

\* Mutant: the payment runs at READ COMMITTED.
PayReadCommitted(r) ==
  /\ req[r].at = "payWrite"
  /\ ~PaidAlready(req[r].key) /\ PayAs(r)

\* A stale snapshot is run again from the key; a key that was used meanwhile fails.
PayWrite(r) ==
  /\ req[r].at = "payWrite"
  /\ \/ req[r].stale /\ Goto(r, "payKey") /\ UNCHANGED <<rows, held, filed, pump>>
     \/ ~req[r].stale /\ ~PaidAlready(req[r].key) /\ PayAs(r)

-----------------------------------------------------------------------------
\* createPumpBill: the snapshot's unbilled fuel of a period that has no bill.
BillRead(r) ==
  /\ req[r].at = "billRead"
  /\ IF (\E b \in DOMAIN bills : bills[b].period = req[r].key) \/ Unbilled = {}
     THEN Refuse(r)
     ELSE /\ req' = [req EXCEPT ![r].at = "billWrite", ![r].stale = FALSE,
                                ![r].seen = Len(fuels), ![r].amount = Sum(fuels, Unbilled)]
          /\ UNCHANGED <<rows, held, filed>>
  /\ UNCHANGED pump

\* The bill of that fuel and the adjustment, which may leave it at nothing or below; and its
\* number on the fuel that is still unbilled.
BillAs(r) ==
  /\ bills' = Append(bills, [period |-> req[r].key, adjustment |-> req[r].adjustment,
                            amount |-> req[r].amount + req[r].adjustment, paid |-> 0])
  /\ fuels' = [i \in DOMAIN fuels |-> IF i \in Unbilled /\ i <= req[r].seen
                                      THEN [fuels[i] EXCEPT !.bill = Len(bills) + 1] ELSE fuels[i]]
  /\ req' = Age(r, [req EXCEPT ![r] = Idle], "billWrite")
  /\ UNCHANGED <<rows, held, filed, pays, balance>>

\* Mutant: the bill is written although its fuel was billed meanwhile.
BillStale(r) == req[r].at = "billWrite" /\ BillAs(r)

\* A stale snapshot is run again.
BillWrite(r) ==
  /\ req[r].at = "billWrite"
  /\ \/ req[r].stale /\ Goto(r, "billRead") /\ UNCHANGED <<rows, held, filed, pump>>
     \/ ~req[r].stale /\ BillAs(r)

-----------------------------------------------------------------------------
PumpStep(r) ==
  \/ FuelKey(r) \/ FuelWrite(r)
  \/ PayKey(r) \/ PayRead(r) \/ PayWrite(r)
  \/ BillRead(r) \/ BillWrite(r)
=============================================================================
