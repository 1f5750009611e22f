------------------------------ MODULE LedgerRows ------------------------------
(***************************************************************************)
(* The financial_transactions of one trip, and what every writer of the     *)
(* table shares: the row locks of PostgreSQL at READ COMMITTED, the sums    *)
(* the services compute, and the reversal.  A row being inserted references *)
(* its trip, its trip_financial and, when it names one, its invoice: the    *)
(* foreign keys hold those rows shared until the commit, so an insert waits  *)
(* for whoever holds one of them FOR UPDATE, and the other way round.  Every *)
(* writer finds the trip's row of trip_financials or creates it; booking_id  *)
(* is unique there, trip_id is not.  A row keyed by the booking alone counts *)
(* as the trip's: whoever looks for it by trip only collides with it and     *)
(* fails, having written nothing.                                            *)
(***************************************************************************)
EXTENDS Integers, Sequences, FiniteSets

CONSTANTS
  Requests,   \* HTTP requests the server may be handling at once
  Keys,       \* idempotency keys and references the callers use
  None,       \* no key
  MaxAmount,  \* bound: amounts are 1 .. MaxAmount
  MaxRows     \* bound: rows of the ledger

ASSUME LedgerAssumption ==
  /\ IsFiniteSet(Requests) /\ None \notin Keys
  /\ MaxAmount \in Nat \ {0} /\ MaxRows \in Nat \ {0}

VARIABLES
  rows,   \* the committed rows; the index is transaction_id
  held,   \* the rows each request holds FOR UPDATE
  req,    \* what each request is doing; own and files: its uncommitted rows here and in
          \* trip_financials, which it alone sees
  filed,  \* the trip's committed rows in trip_financials: none, one, or (2) several
  booked  \* the trip has a booking

ledger == <<rows, held, req, filed>>

Amounts == 1 .. MaxAmount

\* Who wrote a row, which settles its transaction_type and its to_party.
Receipts    == {"receipt", "customerPayment", "clientPayment", "customerAdvance"}
ToOwner     == {"ownerSettlement", "routePay", "ownerAdvance", "routeAdvance"}  \* TRANSPORT_OWNER
ToVendor    == {"vendorPayment"}                                                \* VENDOR
OwnerMoney  == ToOwner \cup ToVendor    \* OWNER_SETTLEMENT and OWNER_ADVANCE
Writers     == Receipts \cup OwnerMoney \cup {"vendorFuel", "reverse"}

\* key: idempotency_key; ref: reference_number; billed: invoice_id is set;
\* undoes: metadata.original_transaction_id of a reversal, else 0.
Row == [by : Writers, amount : Amounts, key : Keys \cup {None}, ref : Keys \cup {None},
        billed : BOOLEAN, undoes : 0 .. MaxRows]
NewRow(by, a) ==
  [by |-> by, amount |-> a, key |-> None, ref |-> None, billed |-> FALSE, undoes |-> 0]

Trip       == <<"trip", 0>>
Invoice    == <<"invoice", 0>>
Financial  == <<"financial", 0>>
Entry(i)   == <<"entry", i>>
Advance(i) == <<"advance", i>>
Lockable   == {Trip, Invoice, Financial} \cup {Entry(i) : i \in 1 .. MaxRows}
                                         \cup {Advance(i) : i \in 1 .. MaxRows}

Idle == [at |-> "idle", op |-> "none", key |-> None, amount |-> 0, fuel |-> 0,
         adjustment |-> 0, pick |-> 0, seen |-> 0, stale |-> FALSE, files |-> FALSE,
        own |-> << >>]

-----------------------------------------------------------------------------
\* A sum of amounts runs down the table, as the loops of the services do.
Sum(table, S) ==
  LET upTo[n \in 0 .. Len(table)] ==
        IF n = 0 THEN 0 ELSE upTo[n - 1] + (IF n \in S THEN table[n].amount ELSE 0)
  IN  upTo[Len(table)]
Those(table, kind) == {i \in DOMAIN table : table[i].by \in kind}
Undone(table, S)   == Sum(table, {i \in DOMAIN table : table[i].undoes \in S})

\* reconcileInvoiceStatus and the over-allocation guard: the receipts that name the
\* invoice, whether reversed or not.
Billed(table)   == {i \in Those(table, Receipts) : table[i].billed}
Received(table) == Sum(table, Billed(table))

\* _aggregateTransactions: what the customer has paid, reversals taken off.
Collected(table) == Sum(table, Those(table, Receipts)) - Undone(table, Those(table, Receipts))

\* getOwnerPosition: what was paid to TRANSPORT_OWNER, and what was reversed, whatever
\* the party its original was paid to; outstanding covers a payment of a.
OwnerPaid(table)     == Sum(table, Those(table, ToOwner))
OwnerReturned(table) == Undone(table, Those(table, OwnerMoney))
Covers(net, table, a) == OwnerPaid(table) + a <= net + OwnerReturned(table)

-----------------------------------------------------------------------------
Others(r)    == Requests \ {r}
Goto(r, l)   == req' = [req EXCEPT ![r].at = l]
Begin(r, q)  == req[r] = Idle /\ req' = [req EXCEPT ![r] = q]
\* The transaction of r ends, committed or rolled back.
End(r)       == req' = [req EXCEPT ![r] = Idle] /\ held' = [held EXCEPT ![r] = {}]
Refuse(r)    == End(r) /\ UNCHANGED <<rows, filed>>
Seen(r)      == rows \o req[r].own
OneMore      == IF filed = 0 THEN 1 ELSE 2
Commit(r)    == /\ Len(Seen(r)) <= MaxRows /\ rows' = Seen(r) /\ End(r)
                /\ filed' = IF req[r].files THEN OneMore ELSE filed

\* The trip_financial q refers to, when others may find the same: not its own uncommitted
\* row, and where there are several each may have found another.
Parent(q) == {x \in {Financial} : ~req[q].files /\ filed = 1}

\* The rows the uncommitted inserts of q hold shared.
Shared(q) ==
  IF req[q].own = << >> /\ ~req[q].files THEN {}
  ELSE {Trip} \cup Parent(q) \cup {x \in {Invoice} : \E i \in DOMAIN req[q].own : req[q].own[i].billed}

\* SELECT ... FOR UPDATE
LockRow(r, x, next) ==
  /\ \A q \in Others(r) : x \notin held[q] \cup Shared(q)
  /\ held' = [held EXCEPT ![r] = @ \cup {x}]
  /\ Goto(r, next)
  /\ UNCHANGED <<rows, filed>>

Free(r, X) == \A q \in Others(r) : held[q] \cap X = {}

Posted(k)         == k # None /\ \E i \in DOMAIN rows : rows[i].key = k
Referenced(k, by) == k # None /\ \E i \in DOMAIN rows : rows[i].ref = k /\ rows[i].by \in by

\* The unique indexes: idempotency_key, and (trip, reference) among receipts.
Clash(a, b) ==
  \/ a.key # None /\ a.key = b.key
  \/ a.ref # None /\ a.ref = b.ref /\ {a.by, b.by} \subseteq Receipts

\* A second row for one booking waits for the first to commit or roll back.
MayFile(r) == booked => \A q \in Others(r) : ~req[q].files

\* Find or create the trip's trip_financial: a row that is found is locked, one that is
\* created locks nothing; where there are several, two requests may lock different ones.
TakeFinancial(r, next) ==
  \/ /\ filed = 0 /\ MayFile(r) /\ Free(r, {Trip})
     /\ req' = [req EXCEPT ![r].at = next, ![r].files = TRUE]
     /\ UNCHANGED <<rows, held, filed>>
  \/ filed = 1 /\ LockRow(r, Financial, next)
  \/ filed = 2 /\ Goto(r, next) /\ UNCHANGED <<rows, held, filed>>

\* Mutant: the unique indexes are gone.
InsertUnchecked(r, row, next) ==
  /\ filed = 0 => MayFile(r)
  /\ Free(r, {Trip} \cup Parent(r) \cup IF row.billed THEN {Invoice} ELSE {})
  /\ req' = [req EXCEPT ![r].at = next, ![r].own = Append(@, row), ![r].files = @ \/ filed = 0]
  /\ UNCHANGED <<rows, held, filed>>

\* INSERT of a row, and of its trip_financial if the trip has none: it waits for the rows it
\* references and for a clashing row still uncommitted; a committed clash fails the transaction.
InsertRow(r, row, next) ==
  /\ filed = 0 => MayFile(r)
  /\ Free(r, {Trip} \cup Parent(r) \cup IF row.billed THEN {Invoice} ELSE {})
  /\ \A q \in Others(r) : \A i \in DOMAIN req[q].own : ~Clash(row, req[q].own[i])
  /\ IF \E i \in DOMAIN rows : Clash(row, rows[i]) THEN End(r)
     ELSE /\ req' = [req EXCEPT ![r].at = next, ![r].own = Append(@, row),
                                ![r].files = @ \/ filed = 0]
          /\ UNCHANGED held
  /\ UNCHANGED <<rows, filed>>

\* Bound: room for n rows and one of each request that is running; one with two rows may find the
\* table full and does not commit then.
Room(n) == Len(rows) + n + Cardinality({r \in Requests : req[r] # Idle}) <= MaxRows
Coming(op) == Cardinality({r \in Requests : req[r].op = op})

-----------------------------------------------------------------------------
\* reverseTransaction (FinancePostingService).
Reverse(r) ==
  /\ Room(1)
  /\ \E i \in DOMAIN rows :
       Begin(r, [Idle EXCEPT !.at = "lockEntry", !.op = "reverse", !.pick = i])
  /\ UNCHANGED <<rows, held, filed>>

\* Mutant: the original is not locked.
EntryUnlocked(r) ==
  /\ req[r].at = "lockEntry"
  /\ Goto(r, "reversible")
  /\ UNCHANGED <<rows, held, filed>>

LockEntry(r) ==
  /\ req[r].at = "lockEntry"
  /\ LockRow(r, Entry(req[r].pick), "reversible")

\* metadata is searched for the text "original_transaction_id":i, which the longer number
\* of another entry contains as well.
Names(n, i) == n = i \/ \E k \in 1 .. n : n \div 10^k = i

\* A reversal cannot be reversed, nor an entry twice.
CheckReversible(r) ==
  /\ req[r].at = "reversible"
  /\ LET i == req[r].pick
     IN  IF rows[i].by # "reverse" /\ ~ \E j \in DOMAIN rows : Names(rows[j].undoes, i)
         THEN Goto(r, "insertReversal") /\ UNCHANGED <<rows, held, filed>>
         ELSE Refuse(r)

\* Its voucher number, drawn in the transaction, keeps two reversals apart; it takes over
\* the invoice of its original, which is then reconciled.
InsertReversal(r) ==
  /\ req[r].at = "insertReversal"
  /\ \A q \in Others(r) : req[q].op = "reverse" => req[q].own = << >>
  /\ LET original == rows[req[r].pick]
     IN  InsertRow(r, [NewRow("reverse", original.amount) EXCEPT
                         !.billed = original.billed, !.undoes = req[r].pick],
                   IF original.billed THEN "sum" ELSE "commit")
=============================================================================
