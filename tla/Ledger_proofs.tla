---------------------------- MODULE Ledger_proofs ----------------------------
(***************************************************************************)
(* What the ledger of a trip promises, for any number of requests, rows and  *)
(* amounts: nothing is undone twice, paid or received beyond what is due, or  *)
(* lost from a balance that is kept beside the rows.                         *)
(***************************************************************************)
EXTENDS Ledger, FiniteSetTheorems, WellFoundedInduction, TLAPS

-----------------------------------------------------------------------------
(***************************************************************************)
(* Sums.                                                                    *)
(***************************************************************************)

\* Induction over the natural numbers, from the well-foundedness of their order.
LEMMA SetInduction ==
  ASSUME NEW S, 0 \in S, \A n \in Nat : n \in S => n + 1 \in S
  PROVE  Nat \subseteq S
<1> DEFINE Less == OpToRel(<, Nat)
<1>1. IsWellFoundedOn(Less, Nat)
  BY NatLessThanWellFounded
<1> SUFFICES ASSUME Nat \ S # {}  PROVE FALSE
  OBVIOUS
<1>2. PICK m \in Nat \ S : \A k \in Nat \ S : <<k, m>> \notin Less
  <2> HIDE DEF Less
  <2> QED BY <1>1, WFMin
<1>3. \A k \in Nat \ S : ~(k < m)
  BY <1>2 DEF OpToRel
<1>4. m # 0 /\ m - 1 \in Nat /\ m - 1 \in S
  BY <1>3
<1> QED BY <1>4

\* What the n-th row adds to a sum over S.
Part(table, S, n) == IF n \in S THEN table[n].amount ELSE 0

\* u holds the sums over the first rows of the table.
Sums(u, table, S) ==
  /\ DOMAIN u = 0 .. Len(table) /\ u[0] = 0
  /\ \A n \in 1 .. Len(table) : u[n] = u[n - 1] + Part(table, S, n)

LEMMA SumsExist ==
  ASSUME NEW X, NEW table \in Seq(X), NEW S
  PROVE  \E u : Sums(u, table, S)
<1> DEFINE Good(u, m) == /\ DOMAIN u = 0 .. m /\ u[0] = 0
                         /\ \A n \in 1 .. m : u[n] = u[n - 1] + Part(table, S, n)
           M == {m \in Nat : \E u : Good(u, m)}
<1>1. 0 \in M
  <2> DEFINE u == [n \in 0 .. 0 |-> 0]
  <2>1. Good(u, 0)
    OBVIOUS
  <2> QED BY <2>1
<1>2. ASSUME NEW m \in Nat, m \in M  PROVE m + 1 \in M
  <2>1. PICK u : Good(u, m)
    BY <1>2
  <2> DEFINE v == [n \in 0 .. (m + 1) |-> IF n = m + 1 THEN u[m] + Part(table, S, n) ELSE u[n]]
  <2>2. DOMAIN v = 0 .. (m + 1) /\ v[0] = 0
    BY <2>1
  <2>3. ASSUME NEW n \in 1 .. (m + 1)  PROVE v[n] = v[n - 1] + Part(table, S, n)
    <3>1. CASE n = m + 1
      BY <3>1
    <3>2. CASE n # m + 1
      <4>1. n \in 1 .. m /\ n - 1 \in 0 .. m
        BY <3>2
      <4> QED BY <2>1, <4>1
    <3> QED BY <3>1, <3>2
  <2>4. Good(v, m + 1)
    BY <2>2, <2>3
  <2> HIDE DEF v
  <2> QED BY <2>4
<1> HIDE DEF M
<1>3. Len(table) \in M
  BY <1>1, <1>2, SetInduction
<1> QED BY <1>3 DEF M, Sums

\* The sum of a table is the last of them.
LEMMA SumRuns ==
  ASSUME NEW X, NEW table \in Seq(X), NEW S
  PROVE  \E u : Sums(u, table, S) /\ Sum(table, S) = u[Len(table)]
<1> DEFINE Rec(u) == u = [n \in 0 .. Len(table) |->
                            IF n = 0 THEN 0
                            ELSE u[n - 1] + (IF n \in S THEN table[n].amount ELSE 0)]
           c == CHOOSE u : Rec(u)
<1>1. PICK v : Sums(v, table, S)
  BY SumsExist
<1>2. \E u : Rec(u)
  <2> DEFINE w == [n \in 0 .. Len(table) |-> v[n]]
  <2>1. \A n \in 0 .. Len(table) : n # 0 => n \in 1 .. Len(table) /\ n - 1 \in 0 .. Len(table)
    OBVIOUS
  <2>2. Rec(w)
    BY <1>1, <2>1 DEF Sums, Part
  <2> HIDE DEF w
  <2> QED BY <2>2
<1>3. Rec(c)
  <2> HIDE DEF Rec
  <2> QED BY <1>2
<1>4. Sum(table, S) = c[Len(table)]
  BY DEF Sum
<1>5. Sums(c, table, S)
  <2> HIDE DEF c
  <2>1. \A n \in 1 .. Len(table) : n \in 0 .. Len(table) /\ n # 0 /\ Len(table) \in Nat
    OBVIOUS
  <2>2. 0 \in 0 .. Len(table)
    OBVIOUS
  <2> QED BY <1>3, <2>1, <2>2 DEF Sums, Part
<1> QED BY <1>4, <1>5

\* Two tables that add the same at every place have the same sum.
LEMMA SumSame ==
  ASSUME NEW X, NEW table \in Seq(X), NEW Y, NEW other \in Seq(Y), NEW S, NEW T,
         Len(table) = Len(other),
         \A n \in 1 .. Len(table) : Part(table, S, n) = Part(other, T, n)
  PROVE  Sum(table, S) = Sum(other, T)
<1>1. PICK u : Sums(u, table, S) /\ Sum(table, S) = u[Len(table)]
  BY SumRuns
<1>2. PICK v : Sums(v, other, T) /\ Sum(other, T) = v[Len(other)]
  BY SumRuns
<1> DEFINE M == {m \in Nat : m <= Len(table) => u[m] = v[m]}
<1>3. 0 \in M
  BY <1>1, <1>2 DEF Sums
<1>4. ASSUME NEW m \in Nat, m \in M  PROVE m + 1 \in M
  <2> SUFFICES ASSUME m + 1 <= Len(table)  PROVE u[m + 1] = v[m + 1]
    OBVIOUS
  <2>1. m + 1 \in 1 .. Len(table) /\ m + 1 \in 1 .. Len(other) /\ (m + 1) - 1 = m /\ u[m] = v[m]
    BY <1>4
  <2>2. u[m + 1] = u[m] + Part(table, S, m + 1) /\ v[m + 1] = v[m] + Part(other, T, m + 1)
    BY <1>1, <1>2, <2>1 DEF Sums
  <2> QED BY <2>1, <2>2
<1> HIDE DEF M
<1>5. Len(table) \in M
  BY <1>3, <1>4, SetInduction
<1> QED BY <1>1, <1>2, <1>5 DEF M

\* A row at the end adds its part.
LEMMA SumStep ==
  ASSUME NEW X, NEW table \in Seq(X), NEW row \in X, NEW S
  PROVE  Sum(Append(table, row), S)
           = Sum(table, S) + (IF Len(table) + 1 \in S THEN row.amount ELSE 0)
<1> DEFINE longer == Append(table, row)
<1>1. longer \in Seq(X) /\ Len(longer) = Len(table) + 1 /\ longer[Len(table) + 1] = row
      /\ \A n \in 1 .. Len(table) : longer[n] = table[n]
  OBVIOUS
<1> HIDE DEF longer
<1>2. PICK u : Sums(u, longer, S) /\ Sum(longer, S) = u[Len(longer)]
  BY SumRuns, <1>1
<1>3. PICK v : Sums(v, table, S) /\ Sum(table, S) = v[Len(table)]
  BY SumRuns
<1> DEFINE M == {m \in Nat : m <= Len(table) => u[m] = v[m]}
<1>4. 0 \in M
  BY <1>2, <1>3 DEF Sums
<1>5. ASSUME NEW m \in Nat, m \in M  PROVE m + 1 \in M
  <2> SUFFICES ASSUME m + 1 <= Len(table)  PROVE u[m + 1] = v[m + 1]
    OBVIOUS
  <2>1. m + 1 \in 1 .. Len(table) /\ m + 1 \in 1 .. Len(longer) /\ (m + 1) - 1 = m /\ u[m] = v[m]
    BY <1>1, <1>5
  <2>2. u[m + 1] = u[m] + Part(longer, S, m + 1) /\ v[m + 1] = v[m] + Part(table, S, m + 1)
    BY <1>2, <1>3, <2>1 DEF Sums
  <2> QED BY <1>1, <2>1, <2>2 DEF Part
<1> HIDE DEF M
<1>6. u[Len(table)] = v[Len(table)]
  <2>1. Len(table) \in M
    BY <1>4, <1>5, SetInduction
  <2> QED BY <2>1 DEF M
<1>7. Len(longer) \in 1 .. Len(longer) /\ Len(longer) - 1 = Len(table)
  BY <1>1
<1>8. u[Len(longer)] = u[Len(table)] + Part(longer, S, Len(longer))
  BY <1>2, <1>7 DEF Sums
<1> QED BY <1>1, <1>2, <1>3, <1>6, <1>8 DEF Part, longer

\* Amounts that are natural numbers have one for a sum; nothing sums to nothing; and rows
\* outside a set do not count.
LEMMA SumNat ==
  ASSUME NEW X, NEW table \in Seq(X), NEW S, \A n \in 1 .. Len(table) : table[n].amount \in Nat
  PROVE  Sum(table, S) \in Nat
<1>1. PICK u : Sums(u, table, S) /\ Sum(table, S) = u[Len(table)]
  BY SumRuns
<1> DEFINE M == {m \in Nat : m <= Len(table) => u[m] \in Nat}
<1>2. 0 \in M
  BY <1>1 DEF Sums
<1>3. ASSUME NEW m \in Nat, m \in M  PROVE m + 1 \in M
  <2> SUFFICES ASSUME m + 1 <= Len(table)  PROVE u[m + 1] \in Nat
    OBVIOUS
  <2>1. m + 1 \in 1 .. Len(table) /\ (m + 1) - 1 = m /\ u[m] \in Nat
    BY <1>3
  <2>2. u[m + 1] = u[m] + Part(table, S, m + 1)
    BY <1>1, <2>1 DEF Sums
  <2>3. Part(table, S, m + 1) \in Nat
    BY <2>1 DEF Part
  <2> QED BY <2>1, <2>2, <2>3
<1> HIDE DEF M
<1>4. Len(table) \in M
  BY <1>2, <1>3, SetInduction
<1> QED BY <1>1, <1>4 DEF M

LEMMA SumNone ==
  ASSUME NEW X, NEW table \in Seq(X), NEW S, \A n \in 1 .. Len(table) : n \notin S
  PROVE  Sum(table, S) = 0
<1>1. PICK u : Sums(u, table, S) /\ Sum(table, S) = u[Len(table)]
  BY SumRuns
<1> DEFINE M == {m \in Nat : m <= Len(table) => u[m] = 0}
<1>2. 0 \in M
  BY <1>1 DEF Sums
<1>3. ASSUME NEW m \in Nat, m \in M  PROVE m + 1 \in M
  <2> SUFFICES ASSUME m + 1 <= Len(table)  PROVE u[m + 1] = 0
    OBVIOUS
  <2>1. m + 1 \in 1 .. Len(table) /\ (m + 1) - 1 = m /\ u[m] = 0
    BY <1>3
  <2>2. u[m + 1] = u[m] + Part(table, S, m + 1)
    BY <1>1, <2>1 DEF Sums
  <2> QED BY <2>1, <2>2 DEF Part
<1> HIDE DEF M
<1>4. Len(table) \in M
  BY <1>2, <1>3, SetInduction
<1> QED BY <1>1, <1>4 DEF M

-----------------------------------------------------------------------------
(***************************************************************************)
(* What a request is doing, and with what.                                  *)
(***************************************************************************)

ReceiptSteps == {"key", "lockTripForReceipt", "lockInvoice", "lockFinancial", "guard", "insertReceipt",
                 "findFinancial", "createFinancial"}
ReverseSteps == {"lockEntry", "reversible", "insertReversal"}
PostSteps    == {"sum", "stamp", "commit"}
PaySteps     == {"reference", "lockTripForPayment", "position", "lockFinancialToPay",
                 "insertPayment", "commitPayment"}
HireSteps    == {"hireVehicle", "editHire", "confirmHire", "cancelHire"}
AdvanceSteps == {"lockAdvance", "unadjusted", "adjust"}
FuelSteps    == {"fuelKey", "fuelWrite"}
PayPumpSteps == {"payKey", "payRead", "payWrite"}
BillSteps    == {"billRead", "billWrite"}

Ops == Receipts \cup PayOps \cup HireSteps
         \cup {"reverse", "adjust", "recordFuel", "payPump", "billPump", "none"}
CallKeys == Keys \cup {None}

Request == [at : Steps, op : Ops, key : CallKeys \cup Periods, amount : Nat, fuel : Nat,
            adjustment : Int, pick : Nat, seen : Int, stale : BOOLEAN, files : BOOLEAN,
            own : Seq(Row)]

\* Which operation a step belongs to.
Fits(at, op) ==
  /\ at \in ReceiptSteps => op \in Receipts
  /\ at \in ReverseSteps => op = "reverse"
  /\ at \in PostSteps    => op \in Receipts \cup {"reverse"}
  /\ at \in PaySteps     => op \in PayOps
  /\ at \in HireSteps    => op = at
  /\ at \in AdvanceSteps => op = "adjust"
  /\ at \in FuelSteps    => op = "recordFuel"
  /\ at \in PayPumpSteps => op = "payPump"
  /\ at \in BillSteps    => op = "billPump"

Plays(q) == Fits(q.at, q.op) /\ (q.at = "idle" => q = Idle)

\* What an operation was called with, and what it knows of the tables.
Brings(q) ==
  /\ q.op \in Receipts => q.amount \in Amounts /\ q.key \in CallKeys
  /\ q.op = "reverse" => q.pick \in DOMAIN rows
  /\ q.op \in PayOps =>
       /\ q.amount \in 0 .. MaxAmount /\ q.fuel \in 0 .. MaxAmount /\ q.key \in CallKeys
       /\ IF q.op = "vendorPayment" THEN q.amount + q.fuel > 0 ELSE q.amount > 0 /\ q.fuel = 0
       /\ q.seen \in Nat
  /\ q.op \in HireSteps =>
       q.seen \in Nets \cup {0} /\ (q.op # "hireVehicle" => hire.status # "NONE")
  /\ q.op = "adjust" => q.pick \in DOMAIN advances /\ q.amount \in Amounts /\ q.seen \in Nat
  /\ q.op = "recordFuel" => q.amount \in Amounts /\ q.key \in CallKeys
  /\ q.op = "payPump" => q.amount \in Amounts /\ q.key \in CallKeys /\ q.pick \in 0 .. Len(bills)
  /\ q.op = "billPump" => q.key \in Periods

\* The rows a request has inserted and not yet committed.
Posting(q, row) ==
  /\ row \in Row
  /\ IF q.op = "reverse"
     THEN row.by = "reverse" /\ row.undoes = q.pick /\ row.amount = rows[q.pick].amount
     ELSE row.by = q.op /\ row.undoes = 0 /\ row.amount = q.amount

Paying(q, row) ==
  /\ row \in Row /\ row.undoes = 0 /\ ~row.billed
  /\ IF q.op = "vendorPayment" THEN row.by \in {"vendorPayment", "vendorFuel"}
     ELSE row.by = q.op /\ row.amount = q.amount

\* One part of a vendor payment that has two.
Plain(row, by, a) ==
  /\ row \in Row /\ row.by = by /\ row.amount = a /\ row.key = None /\ row.ref = None
  /\ row.undoes = 0 /\ ~row.billed

Inserts(q) ==
  /\ q.at \in {"findFinancial", "createFinancial"} => ~q.files
  /\ q.at \notin PostSteps \cup {"insertPayment", "commitPayment"} => q.own = << >>
  /\ q.at \in PostSteps =>
       \/ q.own = << >> /\ q.op = "receipt" /\ q.at # "commit"
       \/ \E row \in Row : /\ q.own = <<row>> /\ Posting(q, row)
                           /\ row.billed = (q.at # "commit")
  /\ q.at = "insertPayment" =>
       \/ q.own = << >>
       \/ /\ q.op = "vendorPayment" /\ q.amount > 0 /\ q.fuel > 0
          /\ \E row \in Row : q.own = <<row>> /\ Plain(row, "vendorPayment", q.amount)
  /\ q.at = "commitPayment" =>
       \/ \E row \in Row : q.own = <<row>> /\ Paying(q, row)
       \/ /\ q.op = "vendorPayment" /\ q.amount > 0 /\ q.fuel > 0
          /\ Len(q.own) = 2 /\ Plain(q.own[1], "vendorPayment", q.amount)
          /\ Plain(q.own[2], "vendorFuel", q.fuel)

\* The tables.
FuelRow    == [amount : Amounts, receipt : CallKeys, bill : Nat]
BillRow    == [period : Periods, adjustment : Int, amount : Int, paid : Nat]
PayRow     == [amount : Amounts, bill : Nat, key : CallKeys]
AdvanceRow == [amount : Amounts, ref : CallKeys, adjusted : Nat, answered : Nat]

Tables ==
  /\ rows \in Seq(Row) /\ Len(rows) <= MaxRows
  /\ invoice \in InvoiceStates /\ lapped \in BOOLEAN
  /\ hire \in [status : HireStates, net : Nets \cup {0}, edits : Nat]
  /\ book \in Nat /\ balance \in Int
  /\ advances \in Seq(AdvanceRow) /\ Len(advances) <= Len(rows)
  /\ fuels \in Seq(FuelRow) /\ bills \in Seq(BillRow) /\ pays \in Seq(PayRow)
  /\ \A i \in DOMAIN fuels : fuels[i].bill <= Len(bills)
  /\ \A i \in DOMAIN pays : pays[i].bill <= Len(bills)
  /\ mix \in {d.uses : d \in Days}

\* The edits that are coming fit the bound.
EditsFit == hire.edits + Coming("editHire") <= MaxEdits

\* No row is locked while another request holds it, for update or shared.
LocksApart ==
  /\ held \in [Requests -> SUBSET Lockable]
  /\ \A r, q \in Requests : r # q => held[r] \cap (held[q] \cup Shared(q)) = {}

\* Uncommitted rows clash neither with each other nor with what is committed.
RowsApart ==
  /\ \A i, j \in DOMAIN rows : Clash(rows[i], rows[j]) => i = j
  /\ \A r \in Requests : \A i \in DOMAIN req[r].own :
       /\ \A j \in DOMAIN req[r].own : Clash(req[r].own[i], req[r].own[j]) => i = j
       /\ \A j \in DOMAIN rows : ~Clash(req[r].own[i], rows[j])
       /\ \A q \in Others(r) : \A j \in DOMAIN req[q].own : ~Clash(req[r].own[i], req[q].own[j])

\* The trip's trip_financials: one for a booking at most; a row that was inserted has its own,
\* committed or its request's; and none is locked that is not there.
Filing ==
  /\ filed \in 0 .. 2 /\ booked \in BOOLEAN /\ (booked => filed < 2)
  /\ \A r \in Requests :
       /\ filed = 0 => (req[r].own # << >> => req[r].files) /\ Financial \notin held[r]
       /\ booked /\ req[r].files => filed = 0 /\ \A q \in Others(r) : ~req[q].files

Playing == req \in [Requests -> Request] /\ \A r \in Requests : Plays(req[r])
Bringing == \A r \in Requests : Brings(req[r])
Inserting == \A r \in Requests : Inserts(req[r])

Base == Tables /\ EditsFit /\ LocksApart /\ RowsApart /\ Filing /\ Playing /\ Bringing /\ Inserting

-----------------------------------------------------------------------------
(***************************************************************************)
(* What a step of one request does to the others, and to the table.         *)
(***************************************************************************)

\* A snapshot grows stale under the request that holds it; nothing else of it changes.
Aged(p, q) == q = p \/ (p.at \in {"payWrite", "billWrite"} /\ q = [p EXCEPT !.stale = TRUE])

Turn(r, q) ==
  /\ req' \in [Requests -> Request] /\ req'[r] = q
  /\ \A p \in Others(r) : Aged(req[p], req'[p])

Stays(r) == /\ rows' = rows /\ filed' = filed
            /\ \/ req'[r].own = req[r].own /\ req'[r].files = req[r].files
               \/ req'[r].own = << >> /\ ~req'[r].files
            /\ held' \in [Requests -> SUBSET Lockable] /\ held'[r] \subseteq held[r]
            /\ \A p \in Others(r) : held'[p] = held[p]
Locks(r) == /\ rows' = rows /\ filed' = filed
            /\ req'[r].own = req[r].own /\ req'[r].files = req[r].files
            /\ \E x \in Lockable : /\ x = Financial => filed # 0
                                   /\ \A p \in Others(r) : x \notin held[p] \cup Shared(p)
                                   /\ held' = [held EXCEPT ![r] = @ \cup {x}]
Files(r) == /\ rows' = rows /\ held' = held /\ filed' = filed /\ filed = 0
            /\ MayFile(r) /\ Free(r, {Trip})
            /\ req[r].own = << >> /\ req'[r].own = << >> /\ req'[r].files = TRUE
Creates(r) == /\ rows' = rows /\ held' = held /\ filed' = OneMore
              /\ MayFile(r) /\ (booked => filed = 0)
              /\ req[r].own = << >> /\ req'[r].own = << >> /\ ~req[r].files /\ ~req'[r].files
Puts(r)  == /\ rows' = rows /\ held' = held /\ filed' = filed
            /\ req'[r].files = (req[r].files \/ filed = 0) /\ (filed = 0 => MayFile(r))
            /\ \E row \in Row :
                 /\ req'[r].own = Append(req[r].own, row)
                 /\ Free(r, {Trip} \cup Parent(r) \cup IF row.billed THEN {Invoice} ELSE {})
                 /\ \A i \in DOMAIN rows : ~Clash(row, rows[i])
                 /\ \A i \in DOMAIN req[r].own : ~Clash(row, req[r].own[i])
                 /\ \A p \in Others(r) : \A i \in DOMAIN req[p].own : ~Clash(row, req[p].own[i])
Commits(r) == /\ rows' = Seen(r) /\ Len(Seen(r)) <= MaxRows
              /\ filed' = IF req[r].files THEN OneMore ELSE filed
              /\ req'[r].own = << >> /\ ~req'[r].files /\ held' = [held EXCEPT ![r] = {}]

\* The tables only grow, and a hire once agreed stays on file.
Grows ==
  /\ DOMAIN rows \subseteq DOMAIN rows' /\ \A i \in DOMAIN rows : rows'[i] = rows[i]
  /\ DOMAIN advances \subseteq DOMAIN advances'
  /\ Len(bills) <= Len(bills)'
  /\ hire.status # "NONE" => hire'.status # "NONE"

\* What a step does to the edits that are coming.
Edits(r) ==
  \/ hire'.edits = hire.edits /\ (req'[r].op = "editHire" => req[r].op = "editHire")
  \/ hire'.edits = hire.edits /\ hire.edits + Coming("editHire") < MaxEdits
  \/ hire'.edits = hire.edits + 1 /\ req[r].op = "editHire" /\ req'[r].op # "editHire"

\* A step of r that does its part.
Does(r) ==
  /\ \E q \in Request : Turn(r, q)
  /\ Stays(r) \/ Locks(r) \/ Files(r) \/ Creates(r) \/ Puts(r) \/ Commits(r)
  /\ booked' = booked
  /\ Plays(req[r])' /\ Brings(req[r])' /\ Inserts(req[r])'
  /\ Tables' /\ Grows /\ Edits(r)

LEMMA OthersPlay ==
  ASSUME Base, NEW r \in Requests, Does(r), NEW p \in Others(r)
  PROVE  /\ Plays(req[p])' /\ Brings(req[p])' /\ Inserts(req[p])'
         /\ req'[p].own = req[p].own /\ req'[p].op = req[p].op /\ req'[p].files = req[p].files
<1>1. p \in Requests /\ Aged(req[p], req'[p]) /\ req'[p] \in Request /\ req[p] \in Request
  BY DEF Others, Does, Turn, Base, Playing
<1>2. /\ req'[p].at = req[p].at /\ req'[p].op = req[p].op /\ req'[p].key = req[p].key
      /\ req'[p].amount = req[p].amount /\ req'[p].fuel = req[p].fuel /\ req'[p].pick = req[p].pick
      /\ req'[p].seen = req[p].seen /\ req'[p].own = req[p].own /\ req'[p].files = req[p].files
      /\ req[p].at = "idle" => req'[p] = req[p]
  <2>1. CASE req'[p] = req[p]
    BY <2>1
  <2>2. CASE req[p].at \in {"payWrite", "billWrite"} /\ req'[p] = [req[p] EXCEPT !.stale = TRUE]
    <3> HIDE DEF Request
    <3>1. DOMAIN req[p] = {"at", "op", "key", "amount", "fuel", "adjustment", "pick", "seen",
                           "stale", "files", "own"}
      BY <1>1 DEF Request
    <3>2. \A x \in DOMAIN req[p] : x # "stale" => req'[p][x] = req[p][x]
      BY <2>2
    <3> QED BY <2>2, <3>1, <3>2
  <2> QED BY <1>1, <2>1, <2>2 DEF Aged
<1>3. Plays(req[p]) /\ Brings(req[p]) /\ Inserts(req[p]) /\ Grows /\ Tables /\ Tables'
  BY <1>1 DEF Base, Playing, Bringing, Inserting, Does
<1>4. Plays(req[p])'
  BY <1>2, <1>3 DEF Plays
<1>5. Brings(req[p])'
  <2>1. Len(bills) \in Nat /\ Len(bills)' \in Nat /\ Len(bills) <= Len(bills)'
    <3>1. bills \in Seq(BillRow) /\ bills' \in Seq(BillRow)
      BY <1>3, Zenon DEF Tables
    <3>2. Len(bills) <= Len(bills)'
      BY <1>3, Zenon DEF Grows
    <3>3. Len(bills) \in Nat /\ Len(bills') \in Nat
      BY <3>1
    <3> QED BY <3>2, <3>3
  <2>2. req[p].op = "payPump" => req'[p].pick \in 0 .. Len(bills)'
    BY <1>2, <1>3, <2>1 DEF Brings
  <2>3. req[p].op = "reverse" => req'[p].pick \in DOMAIN rows'
    BY <1>2, <1>3 DEF Brings, Grows
  <2>4. req[p].op = "adjust" => req'[p].pick \in DOMAIN advances'
    BY <1>2, <1>3 DEF Brings, Grows
  <2>5. req[p].op \in HireSteps => (req[p].op # "hireVehicle" => hire'.status # "NONE")
    BY <1>2, <1>3 DEF Brings, Grows
  <2> QED BY <1>2, <1>3, <2>2, <2>3, <2>4, <2>5 DEF Brings
<1>6. Inserts(req[p])'
  <2>1. \A row \in Row : Posting(req[p], row) => Posting(req[p], row)'
    <3>1. req[p].op = "reverse" => req[p].pick \in DOMAIN rows /\ rows'[req[p].pick] = rows[req[p].pick]
      BY <1>3 DEF Brings, Grows
    <3> QED BY <1>2, <3>1 DEF Posting
  <2>2. \A row \in Row : Paying(req[p], row) => Paying(req[p], row)'
    BY <1>2 DEF Paying
  <2> QED BY <1>2, <1>3, <2>1, <2>2 DEF Inserts
<1> QED BY <1>2, <1>4, <1>5, <1>6


LEMMA LocksStayApart ==
  ASSUME Base, NEW r \in Requests, Does(r)
  PROVE  LocksApart'
<1> USE DEF Others
<1>1. held \in [Requests -> SUBSET Lockable] /\ rows \in Seq(Row)
      /\ \A p, q \in Requests : p # q => held[p] \cap (held[q] \cup Shared(q)) = {}
  BY DEF Base, LocksApart, Tables
<1>2. \A p \in Others(r) : req'[p].own = req[p].own /\ req'[p].files = req[p].files
  BY OthersPlay
<1>3. \A p \in Others(r) : Shared(p)' \subseteq Shared(p)
  <2> SUFFICES ASSUME NEW p \in Others(r)  PROVE Shared(p)' \subseteq Shared(p)
    OBVIOUS
  <2>1. filed' = filed \/ filed' = OneMore
    BY DEF Does, Stays, Locks, Files, Creates, Puts, Commits
  <2>2. filed \in 0 .. 2 /\ (filed = 0 => (req[p].own # << >> => req[p].files))
    BY DEF Base, Filing
  <2>3. CASE req[p].own = << >> /\ ~req[p].files
    BY <1>2, <2>3 DEF Shared
  <2>4. CASE ~(req[p].own = << >> /\ ~req[p].files)
    <3>1. Parent(p)' \subseteq Parent(p)
      BY <1>2, <2>1, <2>2, <2>4 DEF Parent, OneMore
    <3> QED BY <1>2, <2>4, <3>1 DEF Shared
  <2> QED BY <2>3, <2>4
<1>4. CASE Stays(r)
  <2>1. Shared(r)' \subseteq Shared(r)
    <3>1. CASE req'[r].own = << >> /\ ~req'[r].files
      BY <3>1 DEF Shared
    <3>2. CASE req'[r].own = req[r].own /\ req'[r].files = req[r].files
      BY <1>4, <3>2 DEF Shared, Parent, Stays
    <3> QED BY <1>4, <3>1, <3>2 DEF Stays
  <2>2. \A p \in Requests : Shared(p)' \subseteq Shared(p) /\ held'[p] \subseteq held[p]
    BY <1>3, <1>4, <2>1 DEF Stays
  <2> QED BY <1>1, <1>4, <2>2 DEF LocksApart, Stays
<1>5. CASE Locks(r)
  <2>1. \A p \in Requests : Shared(p)' \subseteq Shared(p)
    <3>1. Shared(r)' = Shared(r)
      BY <1>5 DEF Locks, Shared, Parent
    <3> QED BY <1>3, <3>1
  <2>2. PICK x \in Lockable : /\ \A p \in Others(r) : x \notin held[p] \cup Shared(p)
                              /\ held' = [held EXCEPT ![r] = @ \cup {x}]
    BY <1>5 DEF Locks
  <2>3. held' \in [Requests -> SUBSET Lockable]
    BY <1>1, <2>2
  <2>4. ASSUME NEW p \in Requests, NEW q \in Requests, p # q
        PROVE  held'[p] \cap (held'[q] \cup Shared(q)') = {}
    <3>1. held[p] \cap (held[q] \cup Shared(q)) = {}
      BY <1>1, <2>4
    <3>2. CASE p = r
      BY <1>1, <2>1, <2>2, <2>4, <3>1, <3>2
    <3>3. CASE q = r
      BY <1>1, <2>1, <2>2, <2>4, <3>1, <3>3
    <3> QED BY <1>1, <2>1, <2>2, <3>1, <3>2, <3>3
  <2> QED BY <2>3, <2>4 DEF LocksApart
<1>6. CASE Puts(r)
  <2>1. PICK row \in Row :
          /\ req'[r].own = Append(req[r].own, row)
          /\ Free(r, {Trip} \cup Parent(r) \cup IF row.billed THEN {Invoice} ELSE {})
    BY <1>6 DEF Puts
  <2>2. \A p \in Others(r) : held[p] \cap Shared(r)' = {}
    <3>1. req[r].own \in Seq(Row)
      BY DEF Base, Playing, Request
    <3>2. ASSUME Invoice \in Shared(r)', ~row.billed  PROVE Invoice \in Shared(r)
      <4>1. PICK i \in DOMAIN Append(req[r].own, row) : Append(req[r].own, row)[i].billed
        BY <2>1, <3>2 DEF Shared, Parent, Trip, Invoice, Financial
      <4>2. i \in DOMAIN req[r].own /\ Append(req[r].own, row)[i] = req[r].own[i]
        BY <3>1, <3>2, <4>1
      <4> QED BY <4>1, <4>2 DEF Shared
    <3>3. Shared(r)' \subseteq {Trip, Invoice} \cup Parent(r)
      BY <1>6 DEF Shared, Parent, Puts
    <3>4. \A p \in Others(r) : held[p] \cap Shared(r) = {}
      BY <1>1
    <3>5. CASE row.billed
      BY <2>1, <3>3, <3>5 DEF Free
    <3>6. CASE ~row.billed
      BY <2>1, <3>2, <3>3, <3>4, <3>6 DEF Free
    <3> QED BY <3>5, <3>6
  <2> QED BY <1>1, <1>3, <1>6, <2>2 DEF LocksApart, Puts
<1>7. CASE Commits(r)
  <2>1. Shared(r)' = {} /\ held'[r] = {} /\ held' \in [Requests -> SUBSET Lockable]
    BY <1>1, <1>7 DEF Commits, Shared
  <2>2. \A p \in Others(r) : held'[p] = held[p]
    BY <1>1, <1>7 DEF Commits
  <2>3. \A p \in Requests : held'[p] \subseteq held[p] /\ Shared(p)' \subseteq Shared(p)
    BY <1>3, <2>1, <2>2
  <2> QED BY <1>1, <2>1, <2>3 DEF LocksApart
<1>8. CASE Files(r)
  <2>1. Shared(r)' \subseteq {Trip} /\ \A p \in Others(r) : Trip \notin held[p]
    BY <1>8 DEF Files, Shared, Parent, Free
  <2> QED BY <1>1, <1>3, <1>8, <2>1 DEF LocksApart, Files
<1>9. CASE Creates(r)
  <2>1. Shared(r)' = {}
    BY <1>9 DEF Creates, Shared
  <2> QED BY <1>1, <1>3, <1>9, <2>1 DEF LocksApart, Creates
<1> QED BY <1>4, <1>5, <1>6, <1>7, <1>8, <1>9 DEF Does

LEMMA FilingKept ==
  ASSUME Base, NEW r \in Requests, Does(r)
  PROVE  Filing'
<1>1. /\ filed \in 0 .. 2 /\ booked \in BOOLEAN /\ (booked => filed < 2) /\ booked' = booked
      /\ held \in [Requests -> SUBSET Lockable]
      /\ \A p \in Requests :
           /\ filed = 0 => (req[p].own # << >> => req[p].files) /\ Financial \notin held[p]
           /\ booked /\ req[p].files => filed = 0 /\ \A q \in Others(p) : ~req[q].files
  BY DEF Base, Filing, LocksApart, Does
<1>2. \A p \in Others(r) : req'[p].own = req[p].own /\ req'[p].files = req[p].files
  BY OthersPlay
<1>3. CASE Stays(r)
  BY <1>1, <1>2, <1>3 DEF Stays, Filing, Others
<1>4. CASE Locks(r)
  BY <1>1, <1>2, <1>4 DEF Locks, Filing, Others
<1>5. CASE Files(r)
  BY <1>1, <1>2, <1>5 DEF Files, Filing, Others, MayFile
<1>6. CASE Creates(r)
  BY <1>1, <1>2, <1>6 DEF Creates, Filing, Others, MayFile, OneMore
<1>7. CASE Puts(r)
  <2>1. /\ held' = held /\ filed' = filed /\ (filed = 0 => MayFile(r))
        /\ req'[r].files = (req[r].files \/ filed = 0)
    BY <1>7 DEF Puts
  <2>2. booked /\ req'[r].files => filed = 0 /\ \A q \in Others(r) : ~req[q].files
    BY <1>1, <2>1 DEF MayFile
  <2>3. \A p \in Others(r) : booked /\ req[p].files => ~req'[r].files
    BY <1>1, <2>2
  <2> QED BY <1>1, <1>2, <2>1, <2>2, <2>3 DEF Filing, Others
<1>8. CASE Commits(r)
  <2>1. /\ filed' = IF req[r].files THEN OneMore ELSE filed
        /\ req'[r].own = << >> /\ ~req'[r].files /\ held' = [held EXCEPT ![r] = {}]
    BY <1>8 DEF Commits
  <2>2. filed' \in 0 .. 2 /\ (booked => filed' < 2) /\ (filed' = 0 => filed = 0)
    BY <1>1, <2>1 DEF OneMore
  <2>3. \A p \in Others(r) : booked /\ req[p].files => filed' = 0
    BY <1>1, <2>1 DEF Others
  <2> QED BY <1>1, <1>2, <2>1, <2>2, <2>3 DEF Filing, Others
<1> QED BY <1>3, <1>4, <1>5, <1>6, <1>7, <1>8 DEF Does


LEMMA RowsStayApart ==
  ASSUME Base, NEW r \in Requests, Does(r)
  PROVE  RowsApart'
<1>1. /\ rows \in Seq(Row) /\ req[r].own \in Seq(Row)
      /\ \A i, j \in DOMAIN rows : Clash(rows[i], rows[j]) => i = j
      /\ \A p \in Requests : \A i \in DOMAIN req[p].own :
           /\ \A j \in DOMAIN req[p].own : Clash(req[p].own[i], req[p].own[j]) => i = j
           /\ \A j \in DOMAIN rows : ~Clash(req[p].own[i], rows[j])
           /\ \A q \in Others(p) : \A j \in DOMAIN req[q].own : ~Clash(req[p].own[i], req[q].own[j])
  BY DEF Base, RowsApart, Tables, Playing, Request
<1>2. \A p \in Others(r) : req'[p].own = req[p].own
  BY OthersPlay
<1>3. ASSUME rows' = rows, req'[r].own \in {req[r].own, << >>}  PROVE RowsApart'
  <2>1. \A p \in Requests : req'[p].own \in {req[p].own, << >>}
    BY <1>2, <1>3 DEF Others
  <2>2. \A p \in Requests : /\ DOMAIN req'[p].own \subseteq DOMAIN req[p].own
                            /\ \A i \in DOMAIN req'[p].own : req'[p].own[i] = req[p].own[i]
    BY <2>1
  <2> QED BY <1>1, <1>3, <2>2 DEF RowsApart, Others
<1>4. CASE Stays(r)
  BY <1>3, <1>4 DEF Stays
<1>5. CASE Locks(r) \/ Files(r) \/ Creates(r)
  BY <1>3, <1>5 DEF Locks, Files, Creates
<1>6. CASE Puts(r)
  <2>1. PICK row \in Row :
          /\ req'[r].own = Append(req[r].own, row)
          /\ \A i \in DOMAIN rows : ~Clash(row, rows[i])
          /\ \A i \in DOMAIN req[r].own : ~Clash(row, req[r].own[i])
          /\ \A p \in Others(r) : \A i \in DOMAIN req[p].own : ~Clash(row, req[p].own[i])
    BY <1>6 DEF Puts
  <2>2. PICK n \in Nat : n = Len(req[r].own) + 1
    BY <1>1
  <2>3. /\ DOMAIN req'[r].own = DOMAIN req[r].own \cup {n} /\ req'[r].own[n] = row
        /\ \A i \in DOMAIN req[r].own : req'[r].own[i] = req[r].own[i] /\ i # n
    BY <1>1, <2>1, <2>2
  <2>4. \A x, y : Clash(x, y) => Clash(y, x)
    BY DEF Clash
  <2>5. ASSUME NEW p \in Requests, NEW i \in DOMAIN req'[p].own
        PROVE  /\ \A j \in DOMAIN req'[p].own : Clash(req'[p].own[i], req'[p].own[j]) => i = j
               /\ \A j \in DOMAIN rows : ~Clash(req'[p].own[i], rows[j])
               /\ \A q \in Others(p) : \A j \in DOMAIN req'[q].own : ~Clash(req'[p].own[i], req'[q].own[j])
    <3>1. CASE p = r /\ i = n
      BY <1>1, <1>2, <2>1, <2>3, <2>4, <3>1
    <3>2. CASE p = r /\ i # n
      <4>1. i \in DOMAIN req[r].own /\ req'[p].own[i] = req[r].own[i]
        BY <2>3, <3>2
      <4>2. ASSUME NEW j \in DOMAIN req'[p].own, Clash(req'[p].own[i], req'[p].own[j])  PROVE i = j
        <5>1. CASE j = n
          BY <2>1, <2>3, <2>4, <3>2, <4>1, <4>2, <5>1
        <5>2. CASE j # n
          BY <1>1, <2>3, <3>2, <4>1, <4>2, <5>2
        <5> QED BY <5>1, <5>2
      <4>3. \A j \in DOMAIN rows : ~Clash(req'[p].own[i], rows[j])
        BY <1>1, <4>1
      <4>4. \A q \in Others(p) : \A j \in DOMAIN req'[q].own : ~Clash(req'[p].own[i], req'[q].own[j])
        BY <1>1, <1>2, <3>2, <4>1
      <4> QED BY <4>2, <4>3, <4>4
    <3>3. CASE p # r
      <4>1. p \in Others(r) /\ req'[p].own = req[p].own
        BY <1>2, <3>3 DEF Others
      <4>2. ASSUME NEW q \in Others(p), NEW j \in DOMAIN req'[q].own
            PROVE  ~Clash(req'[p].own[i], req'[q].own[j])
        <5>1. CASE q = r /\ j = n
          BY <2>1, <2>3, <2>4, <4>1, <5>1
        <5>2. CASE ~(q = r /\ j = n)
          BY <1>1, <1>2, <2>3, <4>1, <5>2 DEF Others
        <5> QED BY <5>1, <5>2
      <4> QED BY <1>1, <4>1, <4>2
    <3> QED BY <3>1, <3>2, <3>3
  <2> QED BY <1>1, <1>6, <2>5 DEF RowsApart, Puts, Others
<1>7. CASE Commits(r)
  <2>1. rows' = rows \o req[r].own /\ req'[r].own = << >>
    BY <1>7 DEF Commits, Seen
  <2>2. PICK n \in Nat : n = Len(rows)
    BY <1>1
  <2>3. \A i \in DOMAIN rows' :
          \/ i \in DOMAIN rows /\ rows'[i] = rows[i]
          \/ i - n \in DOMAIN req[r].own /\ rows'[i] = req[r].own[i - n] /\ i \notin DOMAIN rows
    BY <1>1, <2>1, <2>2
  <2>4. \A x, y : Clash(x, y) => Clash(y, x)
    BY DEF Clash
  <2>5. ASSUME NEW i \in DOMAIN rows', NEW j \in DOMAIN rows', Clash(rows'[i], rows'[j])
        PROVE  i = j
    <3>1. i \in Int /\ j \in Int
      BY <1>1, <2>1
    <3>2. CASE i \in DOMAIN rows
      BY <1>1, <2>3, <2>4, <2>5, <3>2
    <3>3. CASE i \notin DOMAIN rows
      <4>1. i - n \in DOMAIN req[r].own /\ rows'[i] = req[r].own[i - n]
        BY <2>3, <3>3
      <4>2. CASE j \in DOMAIN rows
        BY <1>1, <2>3, <2>5, <4>1, <4>2
      <4>3. CASE j \notin DOMAIN rows
        <5>1. j - n \in DOMAIN req[r].own /\ rows'[j] = req[r].own[j - n]
          BY <2>3, <4>3
        <5>2. i - n = j - n
          BY <1>1, <2>5, <4>1, <5>1
        <5> QED BY <2>2, <3>1, <5>2
      <4> QED BY <4>2, <4>3
    <3> QED BY <3>2, <3>3
  <2>6. ASSUME NEW p \in Requests, NEW i \in DOMAIN req'[p].own
        PROVE  /\ \A j \in DOMAIN req'[p].own : Clash(req'[p].own[i], req'[p].own[j]) => i = j
               /\ \A j \in DOMAIN rows' : ~Clash(req'[p].own[i], rows'[j])
               /\ \A q \in Others(p) : \A j \in DOMAIN req'[q].own : ~Clash(req'[p].own[i], req'[q].own[j])
    <3>1. p # r /\ p \in Others(r) /\ req'[p].own = req[p].own /\ r \in Others(p)
      BY <1>2, <2>1, <2>6 DEF Others
    <3>2. \A j \in DOMAIN rows' : ~Clash(req'[p].own[i], rows'[j])
      BY <1>1, <2>3, <3>1
    <3>3. ASSUME NEW q \in Others(p), NEW j \in DOMAIN req'[q].own
          PROVE  ~Clash(req'[p].own[i], req'[q].own[j])
      <4>1. q # r /\ q \in Others(r) /\ req'[q].own = req[q].own
        BY <1>2, <2>1, <3>3 DEF Others
      <4> QED BY <1>1, <3>1, <4>1
    <3> QED BY <1>1, <3>1, <3>2, <3>3
  <2> QED BY <2>5, <2>6 DEF RowsApart
<1> QED BY <1>4, <1>5, <1>6, <1>7 DEF Does

LEMMA EditsStayFit ==
  ASSUME Base, NEW r \in Requests, Does(r)
  PROVE  EditsFit'
<1> DEFINE E == {p \in Requests : req[p].op = "editHire"}
           F == {p \in Requests : req'[p].op = "editHire"}
<1>1. \A p \in Others(r) : req'[p].op = req[p].op
  BY OthersPlay
<1>2. IsFiniteSet(E) /\ IsFiniteSet(F)
  BY LedgerAssumption, FS_Subset
<1>3. Coming("editHire") = Cardinality(E) /\ Coming("editHire")' = Cardinality(F)
  BY DEF Coming
<1>4. Cardinality(E) \in Nat /\ Cardinality(F) \in Nat
  BY <1>2, FS_CardinalityType
<1>5. hire.edits \in Nat /\ MaxEdits \in Nat /\ hire.edits + Cardinality(E) <= MaxEdits
  BY <1>3, VendorAssumption DEF Base, Tables, EditsFit
<1>6. CASE hire'.edits = hire.edits /\ (req'[r].op = "editHire" => req[r].op = "editHire")
  <2>1. F \subseteq E
    BY <1>1, <1>6 DEF Others
  <2> HIDE DEF E, F
  <2>2. Cardinality(F) <= Cardinality(E)
    BY <1>2, <2>1, FS_Subset
  <2> QED BY <1>3, <1>4, <1>5, <1>6, <2>2 DEF EditsFit
<1>7. CASE hire'.edits = hire.edits /\ hire.edits + Coming("editHire") < MaxEdits
  <2>1. F \subseteq E \cup {r}
    BY <1>1 DEF Others
  <2> HIDE DEF E, F
  <2>2. IsFiniteSet(E \cup {r}) /\ Cardinality(E \cup {r}) <= Cardinality(E) + 1
        /\ Cardinality(E \cup {r}) \in Nat
    <3>1. IsFiniteSet(E \cup {r})
      BY <1>2, FS_AddElement
    <3>2. Cardinality(E \cup {r}) = IF r \in E THEN Cardinality(E) ELSE Cardinality(E) + 1
      BY <1>2, FS_AddElement
    <3> QED BY <1>4, <3>1, <3>2
  <2>3. Cardinality(F) <= Cardinality(E \cup {r})
    BY <2>1, <2>2, FS_Subset
  <2> QED BY <1>3, <1>4, <1>5, <1>7, <2>2, <2>3 DEF EditsFit
<1>8. CASE hire'.edits = hire.edits + 1 /\ req[r].op = "editHire" /\ req'[r].op # "editHire"
  <2>1. F \subseteq E \ {r} /\ r \in E
    BY <1>1, <1>8 DEF Others
  <2> HIDE DEF E, F
  <2>2. IsFiniteSet(E \ {r}) /\ Cardinality(E \ {r}) = Cardinality(E) - 1
    BY <1>2, <2>1, FS_RemoveElement
  <2>3. Cardinality(F) <= Cardinality(E \ {r})
    BY <2>1, <2>2, FS_Subset
  <2> QED BY <1>3, <1>4, <1>5, <1>8, <2>2, <2>3 DEF EditsFit
<1> QED BY <1>6, <1>7, <1>8 DEF Does, Edits

\* A step that does its part keeps the whole.
LEMMA BaseKept ==
  ASSUME Base, NEW r \in Requests, Does(r)
  PROVE  Base'
<1>1. \A p \in Requests : Plays(req[p])' /\ Brings(req[p])' /\ Inserts(req[p])'
  BY OthersPlay DEF Does, Others
<1>2. Playing' /\ Bringing' /\ Inserting'
  BY <1>1 DEF Playing, Bringing, Inserting, Does, Turn
<1> QED BY <1>2, LocksStayApart, RowsStayApart, FilingKept, EditsStayFit DEF Base, Does


-----------------------------------------------------------------------------
(***************************************************************************)
(* The statements a request is made of.                                     *)
(***************************************************************************)

LEMMA Turns ==
  ASSUME Base, NEW r \in Requests, NEW q \in Request, req' = [req EXCEPT ![r] = q]
  PROVE  Turn(r, q)
BY DEF Turn, Aged, Others, Base, Playing

LEMMA AgingTurns ==
  ASSUME Base, NEW r \in Requests, NEW q \in Request, NEW l \in {"payWrite", "billWrite"},
         req' = Age(r, [req EXCEPT ![r] = q], l)
  PROVE  Turn(r, q)
<1>1. req \in [Requests -> Request]
  BY DEF Base, Playing
<1>2. req'[r] = q
  BY <1>1 DEF Age
<1>3. \A p \in Others(r) : req'[p] = IF req[p].at = l THEN [req[p] EXCEPT !.stale = TRUE] ELSE req[p]
  BY <1>1 DEF Age, Others
<1>4. \A p \in Others(r) : Aged(req[p], req'[p])
  BY <1>3 DEF Aged
<1>5. \A p \in Requests : [req[p] EXCEPT !.stale = TRUE] \in Request
  BY <1>1 DEF Request
<1>6. req' = [p \in Requests |-> req'[p]]
  BY DEF Age
<1>7. \A p \in Requests : req'[p] \in Request
  BY <1>1, <1>2, <1>3, <1>5 DEF Others
<1> QED BY <1>2, <1>4, <1>6, <1>7 DEF Turn

LEMMA IdleIsIdle ==
  Idle \in Request /\ Plays(Idle) /\ Brings(Idle) /\ Inserts(Idle) /\ Idle.own = << >>
<1>1. Idle \in Request
  BY DEF Idle, Request, Steps, Ops, CallKeys
<1>2. Plays(Idle)
  BY DEF Plays, Fits, Idle, ReceiptSteps, ReverseSteps, PostSteps, PaySteps, HireSteps, AdvanceSteps,
         FuelSteps, PayPumpSteps, BillSteps
<1>3. Brings(Idle)
  BY DEF Brings, Idle, Receipts, PayOps, HireSteps
<1>4. Inserts(Idle) /\ Idle.own = << >>
  BY DEF Inserts, Idle, PostSteps
<1> QED BY <1>1, <1>2, <1>3, <1>4

\* The tables, when no statement writes them.
LEMMA TablesSame ==
  ASSUME Base, UNCHANGED <<rows, customer, vendor, pump, booked, mix>>
  PROVE  Tables'
BY DEF Base, Tables, customer, vendor, pump

LEMMA TurnDoes ==
  ASSUME Base, NEW r \in Requests, NEW q \in Request, Turn(r, q),
         Stays(r) \/ Locks(r) \/ Files(r) \/ Creates(r) \/ Puts(r), Tables',
         UNCHANGED <<booked, hire, advances, bills>>,
         Plays(q), Brings(q), Inserts(q),
         q.op = "editHire" => req[r].op = "editHire" \/ hire.edits + Coming("editHire") < MaxEdits
  PROVE  Does(r)
<1>1. rows' = rows /\ req'[r] = q
  BY DEF Turn, Stays, Locks, Files, Creates, Puts
<1>2. Plays(req[r])' /\ Inserts(req[r])'
  BY <1>1 DEF Plays, Fits, Inserts, Posting, Paying
<1>3. Brings(req[r])'
  BY <1>1 DEF Brings
<1>4. Len(bills) \in Nat
  BY DEF Base, Tables
<1>5. Grows
  BY <1>1, <1>4 DEF Grows
<1>6. Edits(r)
  BY <1>1 DEF Edits
<1> QED BY <1>1, <1>2, <1>3, <1>5, <1>6 DEF Does

LEMMA RefuseDoes ==
  ASSUME Base, NEW r \in Requests, Refuse(r), UNCHANGED <<customer, vendor, pump, booked, mix>>
  PROVE  Does(r) /\ Turn(r, Idle) /\ rows' = rows /\ filed' = filed
         /\ held' = [held EXCEPT ![r] = {}]
<1>1. Turn(r, Idle)
  BY Turns, IdleIsIdle DEF Refuse, End
<1>2. rows' = rows /\ filed' = filed /\ held' = [held EXCEPT ![r] = {}] /\ ~Idle.files
  BY DEF Refuse, End, Idle
<1>3. Stays(r)
  BY <1>1, <1>2, IdleIsIdle DEF Stays, Turn, Base, LocksApart, Others
<1>4. Tables'
  BY <1>2, TablesSame
<1>5. Idle.op # "editHire"
  BY DEF Idle
<1> QED BY <1>1, <1>2, <1>3, <1>4, <1>5, IdleIsIdle, TurnDoes DEF vendor, pump

LEMMA BeginDoes ==
  ASSUME Base, NEW r \in Requests, NEW q \in Request, Begin(r, q),
         Plays(q), Brings(q), q.own = << >>, ~q.files,
         q.at \notin PostSteps \cup {"insertPayment", "commitPayment"},
         q.op = "editHire" => hire.edits + Coming("editHire") < MaxEdits,
         UNCHANGED <<rows, held, filed, customer, vendor, pump, booked, mix>>
  PROVE  Does(r) /\ Turn(r, q)
<1>1. Turn(r, q)
  BY Turns DEF Begin
<1>2. Stays(r)
  BY <1>1 DEF Stays, Turn, Base, LocksApart, Others
<1>3. Inserts(q)
  BY DEF Inserts
<1> QED BY <1>1, <1>2, <1>3, TablesSame, TurnDoes DEF vendor, pump

\* A call is the same call at every step.
LEMMA SameCall ==
  ASSUME NEW p, NEW q, Brings(p), q.op = p.op, q.key = p.key, q.amount = p.amount,
         q.fuel = p.fuel, q.pick = p.pick, q.seen = p.seen
  PROVE  Brings(q)
BY DEF Brings

LEMMA GoDoes ==
  ASSUME Base, NEW r \in Requests, NEW l \in Steps,
         \/ Goto(r, l) /\ UNCHANGED <<rows, held, filed>>
         \/ \E x \in Lockable : LockRow(r, x, l) /\ (x = Financial => filed # 0),
         req[r].own = << >>, Fits(l, req[r].op), l # "idle",
         l \notin {"commit", "commitPayment"}, l \in {"sum", "stamp"} => req[r].op = "receipt",
         l \in {"findFinancial", "createFinancial"} => ~req[r].files,
         UNCHANGED <<customer, vendor, pump, booked, mix>>
  PROVE  Does(r) /\ Turn(r, [req[r] EXCEPT !.at = l])
<1> PICK q : q = [req[r] EXCEPT !.at = l]
  OBVIOUS
<1>1. req \in [Requests -> Request] /\ held \in [Requests -> SUBSET Lockable]
  BY DEF Base, Playing, LocksApart
<1>2. q \in Request /\ q.at = l /\ q.op = req[r].op /\ q.own = << >> /\ q.files = req[r].files
  BY <1>1 DEF Request
<1>3. q.key = req[r].key /\ q.amount = req[r].amount /\ q.fuel = req[r].fuel
      /\ q.pick = req[r].pick /\ q.seen = req[r].seen
  BY <1>1 DEF Request
<1>4. req' = [req EXCEPT ![r] = q]
  BY <1>1 DEF Goto, LockRow
<1>5. Turn(r, q)
  BY <1>2, <1>4, Turns
<1>6. Stays(r) \/ Locks(r)
  <2>1. CASE Goto(r, l) /\ UNCHANGED <<rows, held, filed>>
    BY <1>1, <1>2, <1>5, <2>1 DEF Stays, Turn
  <2>2. CASE \E x \in Lockable : LockRow(r, x, l) /\ (x = Financial => filed # 0)
    <3>1. PICK x \in Lockable : LockRow(r, x, l) /\ (x = Financial => filed # 0)
      BY <2>2
    <3>2. held' = [held EXCEPT ![r] = @ \cup {x}] /\ rows' = rows /\ filed' = filed
          /\ \A p \in Others(r) : x \notin held[p] \cup Shared(p)
      BY <3>1 DEF LockRow
    <3> QED BY <1>2, <1>5, <3>1, <3>2 DEF Locks, Turn
  <2> QED BY <2>1, <2>2
<1>7. rows' = rows
  BY DEF LockRow
<1>8. Brings(q) /\ Plays(q)
  BY <1>2, <1>3, SameCall DEF Base, Bringing, Plays
<1>9. Inserts(q)
  BY <1>2 DEF Inserts, PostSteps
<1> QED BY <1>2, <1>5, <1>6, <1>7, <1>8, <1>9, TablesSame, TurnDoes DEF vendor, pump

\* A trip_financial that is found and locked, or created.
LEMMA TakeDoes ==
  ASSUME Base, NEW r \in Requests, NEW l \in Steps, TakeFinancial(r, l),
         req[r].own = << >>, Fits(l, req[r].op), l # "idle",
         l \notin {"commit", "commitPayment", "sum", "stamp", "findFinancial", "createFinancial"},
         UNCHANGED <<customer, vendor, pump, booked, mix>>
  PROVE  Does(r) /\ \/ Turn(r, [req[r] EXCEPT !.at = l])
                    \/ Turn(r, [req[r] EXCEPT !.at = l, !.files = TRUE])
<1>1. CASE filed = 1 /\ LockRow(r, Financial, l)
  BY <1>1, GoDoes DEF Lockable
<1>2. CASE filed = 2 /\ Goto(r, l) /\ UNCHANGED <<rows, held, filed>>
  BY <1>2, GoDoes
<1>3. CASE /\ filed = 0 /\ MayFile(r) /\ Free(r, {Trip})
           /\ req' = [req EXCEPT ![r].at = l, ![r].files = TRUE]
           /\ UNCHANGED <<rows, held, filed>>
  <2> PICK q : q = [req[r] EXCEPT !.at = l, !.files = TRUE]
    OBVIOUS
  <2>1. req \in [Requests -> Request]
    BY DEF Base, Playing
  <2>2. q \in Request /\ q.at = l /\ q.op = req[r].op /\ q.own = << >> /\ q.files = TRUE
        /\ q.key = req[r].key /\ q.amount = req[r].amount /\ q.fuel = req[r].fuel
        /\ q.pick = req[r].pick /\ q.seen = req[r].seen
    BY <2>1 DEF Request
  <2>3. req' = [req EXCEPT ![r] = q]
    BY <1>3, <2>1
  <2>4. Turn(r, q)
    BY <2>2, <2>3, Turns
  <2>5. Files(r)
    BY <1>3, <2>2, <2>4 DEF Files, Turn
  <2>6. Brings(q) /\ Plays(q)
    BY <2>2, SameCall DEF Base, Bringing, Plays
  <2>7. Inserts(q)
    BY <2>2 DEF Inserts, PostSteps
  <2> QED BY <1>3, <2>2, <2>4, <2>5, <2>6, <2>7, TablesSame, TurnDoes DEF vendor, pump
<1> QED BY <1>1, <1>2, <1>3 DEF TakeFinancial

\* A request at its next step, with one row more, and its own trip_financial if there is none.
Gets(p, l, row) == [p EXCEPT !.at = l, !.own = Append(@, row), !.files = @ \/ filed = 0]

LEMMA InsertDoes ==
  ASSUME Base, NEW r \in Requests, NEW row \in Row, NEW l \in Steps, NEW q,
         InsertRow(r, row, l), q = Gets(req[r], l, row),
         \A i \in DOMAIN req[r].own : ~Clash(row, req[r].own[i]),
         Plays(q), Inserts(q), UNCHANGED <<customer, vendor, pump, booked, mix>>
  PROVE  /\ Does(r) /\ rows' = rows /\ filed' = filed
         /\ \/ Turn(r, Idle) /\ held' = [held EXCEPT ![r] = {}]
            \/ Turn(r, q) /\ held' = held /\ Puts(r)
<1>1. req \in [Requests -> Request] /\ held \in [Requests -> SUBSET Lockable]
  BY DEF Base, Playing, LocksApart
<1>2. CASE \E i \in DOMAIN rows : Clash(row, rows[i])
  <2>1. Refuse(r)
    BY <1>2 DEF InsertRow, Refuse
  <2> QED BY <2>1, RefuseDoes
<1>3. CASE \A i \in DOMAIN rows : ~Clash(row, rows[i])
  <2>1. q \in Request /\ q.own = Append(req[r].own, row) /\ q.op = req[r].op
        /\ q.files = (req[r].files \/ filed = 0)
    <3>1. req[r] \in Request /\ req[r].own \in Seq(Row)
      BY <1>1 DEF Request
    <3>2. Append(req[r].own, row) \in Seq(Row)
      BY <3>1
    <3>3. PICK own \in Seq(Row) : own = Append(req[r].own, row)
      BY <3>2
    <3>4. q = [req[r] EXCEPT !.at = l, !.own = own, !.files = @ \/ filed = 0]
      BY <3>3 DEF Gets
    <3>5. (req[r].files \/ filed = 0) \in BOOLEAN
      OBVIOUS
    <3>6. PICK file \in BOOLEAN : file = (req[r].files \/ filed = 0)
      BY <3>5
    <3>7. q = [req[r] EXCEPT !.at = l, !.own = own, !.files = file]
      BY <3>4, <3>6
    <3> QED BY <3>1, <3>3, <3>6, <3>7 DEF Request
  <2>2. q.key = req[r].key /\ q.amount = req[r].amount
        /\ q.fuel = req[r].fuel /\ q.pick = req[r].pick /\ q.seen = req[r].seen
    BY <1>1 DEF Request, Gets
  <2>3. req' = [req EXCEPT ![r] = q] /\ held' = held /\ rows' = rows /\ filed' = filed
    <3>1. req' = [req EXCEPT ![r].at = l, ![r].own = Append(@, row), ![r].files = @ \/ filed = 0]
      BY <1>3 DEF InsertRow
    <3> QED BY <1>1, <1>3, <3>1 DEF InsertRow, Gets
  <2>4. Turn(r, q)
    BY <2>1, <2>3, Turns
  <2>5. Puts(r)
    <3>1. Free(r, {Trip} \cup Parent(r) \cup IF row.billed THEN {Invoice} ELSE {})
          /\ (filed = 0 => MayFile(r))
          /\ \A p \in Others(r) : \A i \in DOMAIN req[p].own : ~Clash(row, req[p].own[i])
      BY DEF InsertRow
    <3>2. req'[r].own = Append(req[r].own, row) /\ req'[r].files = (req[r].files \/ filed = 0)
      BY <2>1, <2>4 DEF Turn
    <3> QED BY <1>3, <2>3, <3>1, <3>2 DEF Puts
  <2>6. Brings(q)
    BY <2>1, <2>2, SameCall DEF Base, Bringing
  <2> QED BY <2>1, <2>3, <2>4, <2>5, <2>6, TablesSame, TurnDoes DEF vendor, pump
<1> QED BY <1>2, <1>3

\* Every row of a request is a row of the table once it commits.
LEMMA SeenIsRows ==
  ASSUME Base, NEW r \in Requests
  PROVE  /\ Seen(r) \in Seq(Row) /\ Len(Seen(r)) = Len(rows) + Len(req[r].own)
         /\ DOMAIN rows \subseteq DOMAIN Seen(r) /\ \A i \in DOMAIN rows : Seen(r)[i] = rows[i]
<1>1. rows \in Seq(Row) /\ req[r].own \in Seq(Row)
  BY DEF Base, Tables, Playing, Request
<1> QED BY <1>1 DEF Seen

LEMMA CommitDoes ==
  ASSUME Base, NEW r \in Requests, Commit(r), invoice' \in InvoiceStates, lapped' = lapped,
         UNCHANGED <<vendor, pump, booked, mix>>
  PROVE  Does(r) /\ Turn(r, Idle) /\ Commits(r)
<1>1. Turn(r, Idle)
  BY Turns, IdleIsIdle DEF Commit, End
<1>2. Commits(r)
  <2>1. ~Idle.files
    BY DEF Idle
  <2> QED BY <1>1, <2>1, IdleIsIdle DEF Commit, End, Commits, Turn
<1>3. Len(advances) \in Nat /\ Len(rows) \in Nat /\ Len(req[r].own) \in Nat /\ Len(bills) \in Nat
  BY DEF Base, Tables, Playing, Request
<1>4. Tables'
  BY <1>2, <1>3, SeenIsRows DEF Base, Tables, Commits, vendor, pump
<1>5. Grows
  BY <1>2, <1>3, SeenIsRows DEF Grows, Commits, vendor, pump
<1>6. Plays(req[r])' /\ Brings(req[r])' /\ Inserts(req[r])' /\ req'[r].op # "editHire"
  <2>1. req'[r] = Idle
    BY <1>1 DEF Turn
  <2>2. Plays(req[r])' /\ Inserts(req[r])'
    BY <2>1, IdleIsIdle DEF Plays, Fits, Inserts, Idle, PostSteps
  <2>3. Brings(req[r])' /\ req'[r].op # "editHire"
    BY <2>1 DEF Brings, Idle, Receipts, PayOps, HireSteps
  <2> QED BY <2>2, <2>3
<1>7. Edits(r)
  BY <1>6 DEF Edits, vendor
<1> QED BY <1>1, <1>2, <1>4, <1>5, <1>6, <1>7, IdleIsIdle DEF Does

-----------------------------------------------------------------------------
(***************************************************************************)
(* Arrivals.                                                                *)
(***************************************************************************)

LEMMA CallTypes ==
  /\ Amounts \subseteq Nat /\ 0 .. MaxAmount \subseteq Nat /\ Nets \subseteq Nat
  /\ None \in CallKeys \cup Periods /\ CallKeys \subseteq CallKeys \cup Periods
  /\ Receipts \subseteq Ops /\ PayOps \subseteq Ops /\ HireSteps \subseteq Ops \cap Steps
  /\ {"reverse", "adjust", "recordFuel", "payPump", "billPump"} \subseteq Ops
  /\ {"key", "findFinancial", "lockEntry", "reference", "lockAdvance", "fuelKey", "payKey",
      "billRead"} \subseteq Steps
BY LedgerAssumption, VendorAssumption
   DEF Amounts, CallKeys, Ops, Steps, HireSteps

LEMMA CustomerArrives ==
  ASSUME Base, NEW r \in Requests, CustomerArrive(r, mix), UNCHANGED <<vendor, pump, booked, mix>>
  PROVE  Does(r)
<1>1. CASE CreateInvoice(r)
  <2>1. UNCHANGED <<ledger, vendor, pump, booked, mix, lapped>> /\ invoice' = "UNPAID"
    BY <1>1 DEF CreateInvoice
  <2>2. Tables' /\ rows' = rows /\ held' = held /\ req' = req /\ filed' = filed
    BY <2>1 DEF Base, Tables, ledger, vendor, pump, InvoiceStates
  <2>3. req[r] \in Request /\ Turn(r, req[r]) /\ Stays(r)
    BY <2>2 DEF Turn, Aged, Others, Stays, Base, Playing, LocksApart
  <2> QED BY <2>1, <2>2, <2>3, TurnDoes DEF Base, Playing, Bringing, Inserting, vendor, pump
<1>2. ASSUME NEW op \in Receipts, Receive(r, op)  PROVE Does(r)
  <2>1. PICK k \in CallKeys, a \in Amounts :
          Begin(r, [Idle EXCEPT !.op = op, !.key = k, !.amount = a,
                                !.at = IF op = "customerPayment" THEN "findFinancial" ELSE "key"])
    BY <1>2 DEF Receive, CallKeys
  <2>2. PICK l \in {"findFinancial", "key"} : l = IF op = "customerPayment" THEN "findFinancial" ELSE "key"
    OBVIOUS
  <2>3. PICK q \in Request :
          /\ Begin(r, q) /\ q.at = l /\ q.op = op /\ q.key = k /\ q.amount = a
          /\ q.fuel = 0 /\ q.pick = 0 /\ q.seen = 0 /\ q.own = << >> /\ ~q.files
    <3>1. PICK q : q = [Idle EXCEPT !.op = op, !.key = k, !.amount = a, !.at = IF op = "customerPayment" THEN "findFinancial" ELSE "key"]
      OBVIOUS
    <3>2. Begin(r, q)
      BY <3>1, <2>1, <2>2
    <3>3. q \in Request
      BY <3>1, CallTypes, IdleIsIdle, <2>2, <2>1 DEF Request
    <3>4. /\ q.at = l /\ q.op = op /\ q.key = k /\ q.amount = a
          /\ q.fuel = 0 /\ q.pick = 0 /\ q.seen = 0 /\ q.own = << >> /\ ~q.files
      BY <3>1, <2>2 DEF Idle
    <3> QED BY <3>2, <3>3, <3>4
  <2>4. Plays(q)
    BY <2>3, <2>1, <2>2 DEF Plays, Fits, ReceiptSteps, ReverseSteps, PostSteps, PaySteps, HireSteps, AdvanceSteps,
           FuelSteps, PayPumpSteps, BillSteps
  <2>5. Brings(q)
    BY <2>3, <2>1 DEF Brings, Receipts, PayOps, HireSteps
  <2>6. l \in Steps /\ op \in Ops /\ k \in CallKeys \cup Periods /\ a \in Nat
    BY LedgerAssumption DEF Steps, Ops, Amounts
  <2> QED BY <1>2, <2>2, <2>3, <2>4, <2>5, <2>6, BeginDoes DEF Receive, PostSteps, Receipts, customer
<1>3. CASE Reverse(r) /\ UNCHANGED customer
  <2>1. PICK i \in DOMAIN rows :
          Begin(r, [Idle EXCEPT !.at = "lockEntry", !.op = "reverse", !.pick = i])
    BY <1>3 DEF Reverse
  <2>2. i \in Nat
    BY DEF Base, Tables
  <2>3. PICK q \in Request :
          /\ Begin(r, q) /\ q.at = "lockEntry" /\ q.op = "reverse" /\ q.key = None /\ q.amount = 0
          /\ q.fuel = 0 /\ q.pick = i /\ q.seen = 0 /\ q.own = << >> /\ ~q.files
    <3>1. PICK q : q = [Idle EXCEPT !.at = "lockEntry", !.op = "reverse", !.pick = i]
      OBVIOUS
    <3>2. Begin(r, q)
      BY <3>1, <2>1
    <3>3. q \in Request
      BY <3>1, CallTypes, IdleIsIdle, <2>1, <2>2 DEF Request
    <3>4. /\ q.at = "lockEntry" /\ q.op = "reverse" /\ q.key = None /\ q.amount = 0
          /\ q.fuel = 0 /\ q.pick = i /\ q.seen = 0 /\ q.own = << >> /\ ~q.files
      BY <3>1 DEF Idle
    <3> QED BY <3>2, <3>3, <3>4
  <2>4. Plays(q)
    BY <2>3, <2>1 DEF Plays, Fits, ReceiptSteps, ReverseSteps, PostSteps, PaySteps, HireSteps, AdvanceSteps,
           FuelSteps, PayPumpSteps, BillSteps
  <2>5. Brings(q)
    BY <2>3, <2>1 DEF Brings, Receipts, PayOps, HireSteps
  <2>6. "lockEntry" \in Steps /\ "reverse" \in Ops /\ None \in CallKeys \cup Periods
    BY DEF Steps, Ops, CallKeys
  <2> QED BY <1>3, <2>2, <2>3, <2>4, <2>5, <2>6, BeginDoes DEF Reverse, PostSteps
<1> QED BY <1>1, <1>2, <1>3 DEF CustomerArrive

LEMMA VendorArrives ==
  ASSUME Base, NEW r \in Requests, VendorArrive(r, mix), UNCHANGED <<customer, pump, booked, mix>>
  PROVE  Does(r)
<1>1. ASSUME NEW op \in {"hireVehicle", "editHire", "confirmHire", "cancelHire"}, HireOp(r, op)
      PROVE  Does(r)
  <2>1. PICK n \in Nets \cup {0} : Begin(r, [Idle EXCEPT !.at = op, !.op = op, !.seen = n])
    BY <1>1 DEF HireOp
  <2>2. n \in Nat /\ op \in Steps /\ op \in Ops /\ None \in CallKeys \cup Periods
    BY VendorAssumption DEF Steps, Ops, HireSteps, CallKeys
  <2>3. PICK q \in Request :
          /\ Begin(r, q) /\ q.at = op /\ q.op = op /\ q.key = None /\ q.amount = 0
          /\ q.fuel = 0 /\ q.pick = 0 /\ q.seen = n /\ q.own = << >> /\ ~q.files
    <3>1. PICK q : q = [Idle EXCEPT !.at = op, !.op = op, !.seen = n]
      OBVIOUS
    <3>2. Begin(r, q)
      BY <3>1, <2>1
    <3>3. q \in Request
      <4>1. n \in Int /\ op \in Steps /\ op \in Ops
        BY <2>2
      <4> QED BY <3>1, <4>1, IdleIsIdle DEF Request
    <3>4. /\ q.at = op /\ q.op = op /\ q.key = None /\ q.amount = 0
          /\ q.fuel = 0 /\ q.pick = 0 /\ q.seen = n /\ q.own = << >> /\ ~q.files
      BY <3>1 DEF Idle
    <3> QED BY <3>2, <3>3, <3>4
  <2>4. Plays(q)
    BY <2>3, <2>1 DEF Plays, Fits, ReceiptSteps, ReverseSteps, PostSteps, PaySteps, HireSteps, AdvanceSteps,
           FuelSteps, PayPumpSteps, BillSteps
  <2>5. op # "hireVehicle" => hire.status # "NONE"
    BY <1>1 DEF HireOp
  <2>6. Brings(q)
    BY <2>3, <2>1, <2>5 DEF Brings, Receipts, PayOps, HireSteps
  <2>7. op = "editHire" => hire.edits + Coming("editHire") < MaxEdits
    BY <1>1 DEF HireOp
  <2>8. UNCHANGED <<rows, held, filed, customer, vendor, pump, booked, mix>>
    BY <1>1 DEF HireOp
  <2>9. op \notin PostSteps \cup {"insertPayment", "commitPayment"}
    BY DEF PostSteps
  <2> QED BY <2>2, <2>3, <2>4, <2>6, <2>7, <2>8, <2>9, BeginDoes
<1>2. ASSUME NEW op \in PayOps, PayOwner(r, op)  PROVE Does(r)
  <2>1. PICK k \in CallKeys, a \in 0 .. MaxAmount, f \in 0 .. MaxAmount :
          /\ IF op = "vendorPayment" THEN a + f > 0 ELSE a > 0 /\ f = 0
          /\ Begin(r, [Idle EXCEPT !.at = "reference", !.op = op, !.key = k,
                                   !.amount = a, !.fuel = f])
    BY <1>2 DEF PayOwner, CallKeys
  <2>2. a \in Nat /\ f \in Nat /\ "reference" \in Steps /\ op \in Ops /\ k \in CallKeys \cup Periods
    BY LedgerAssumption DEF Steps, Ops, CallKeys
  <2>3. PICK q \in Request :
          /\ Begin(r, q) /\ q.at = "reference" /\ q.op = op /\ q.key = k /\ q.amount = a
          /\ q.fuel = f /\ q.pick = 0 /\ q.seen = 0 /\ q.own = << >> /\ ~q.files
    <3>1. PICK q : q = [Idle EXCEPT !.at = "reference", !.op = op, !.key = k, !.amount = a, !.fuel = f]
      OBVIOUS
    <3>2. Begin(r, q)
      BY <3>1, <2>1
    <3>3. q \in Request
      BY <3>1, CallTypes, IdleIsIdle, <2>1 DEF Request
    <3>4. /\ q.at = "reference" /\ q.op = op /\ q.key = k /\ q.amount = a
          /\ q.fuel = f /\ q.pick = 0 /\ q.seen = 0 /\ q.own = << >> /\ ~q.files
      BY <3>1 DEF Idle
    <3> QED BY <3>2, <3>3, <3>4
  <2>4. Plays(q)
    BY <2>3, <2>1 DEF Plays, Fits, ReceiptSteps, ReverseSteps, PostSteps, PaySteps, HireSteps, AdvanceSteps,
           FuelSteps, PayPumpSteps, BillSteps
  <2>5. Brings(q)
    BY <2>3, <2>1 DEF Brings, Receipts, PayOps, HireSteps
  <2>6. UNCHANGED <<rows, held, filed, customer, vendor, pump, booked, mix>> /\ op # "editHire"
    BY <1>2 DEF PayOwner, PayOps
  <2> QED BY <2>2, <2>3, <2>4, <2>5, <2>6, BeginDoes DEF PostSteps
<1>3. CASE Adjust(r)
  <2>1. PICK i \in DOMAIN advances, a \in Amounts :
          Begin(r, [Idle EXCEPT !.at = "lockAdvance", !.op = "adjust", !.pick = i, !.amount = a])
    BY <1>3 DEF Adjust
  <2>2. a \in Nat /\ i \in Nat /\ "lockAdvance" \in Steps /\ "adjust" \in Ops /\ None \in CallKeys \cup Periods
    BY LedgerAssumption DEF Steps, Ops, CallKeys, Base, Tables, Amounts
  <2>3. PICK q \in Request :
          /\ Begin(r, q) /\ q.at = "lockAdvance" /\ q.op = "adjust" /\ q.key = None /\ q.amount = a
          /\ q.fuel = 0 /\ q.pick = i /\ q.seen = 0 /\ q.own = << >> /\ ~q.files
    <3>1. PICK q : q = [Idle EXCEPT !.at = "lockAdvance", !.op = "adjust", !.pick = i, !.amount = a]
      OBVIOUS
    <3>2. Begin(r, q)
      BY <3>1, <2>1
    <3>3. q \in Request
      BY <3>1, CallTypes, IdleIsIdle, <2>1, <2>2 DEF Request
    <3>4. /\ q.at = "lockAdvance" /\ q.op = "adjust" /\ q.key = None /\ q.amount = a
          /\ q.fuel = 0 /\ q.pick = i /\ q.seen = 0 /\ q.own = << >> /\ ~q.files
      BY <3>1 DEF Idle
    <3> QED BY <3>2, <3>3, <3>4
  <2>4. Plays(q)
    BY <2>3, <2>1 DEF Plays, Fits, ReceiptSteps, ReverseSteps, PostSteps, PaySteps, HireSteps, AdvanceSteps,
           FuelSteps, PayPumpSteps, BillSteps
  <2>5. Brings(q)
    BY <2>3, <2>1 DEF Brings, Receipts, PayOps, HireSteps
  <2>6. UNCHANGED <<rows, held, filed, customer, vendor, pump, booked, mix>>
    BY <1>3 DEF Adjust
  <2> QED BY <2>2, <2>3, <2>4, <2>5, <2>6, BeginDoes DEF PostSteps
<1> QED BY <1>1, <1>2, <1>3 DEF VendorArrive

LEMMA PumpArrives ==
  ASSUME Base, NEW r \in Requests, PumpArrive(r, mix), UNCHANGED <<customer, vendor, booked, mix>>
  PROVE  Does(r)
<1>1. UNCHANGED <<rows, held, filed, customer, vendor, pump, booked, mix>>
  BY DEF PumpArrive
<1>2. ASSUME NEW k \in CallKeys, NEW a \in Amounts,
             Begin(r, [Idle EXCEPT !.at = "fuelKey", !.op = "recordFuel", !.key = k, !.amount = a])
      PROVE  Does(r)
  <2>1. PICK q \in Request :
          /\ Begin(r, q) /\ q.at = "fuelKey" /\ q.op = "recordFuel" /\ q.key = k /\ q.amount = a
          /\ q.fuel = 0 /\ q.pick = 0 /\ q.seen = 0 /\ q.own = << >> /\ ~q.files
    <3>1. PICK q : q = [Idle EXCEPT !.at = "fuelKey", !.op = "recordFuel", !.key = k, !.amount = a]
      OBVIOUS
    <3>2. Begin(r, q)
      BY <3>1, <1>2
    <3>3. q \in Request
      BY <3>1, CallTypes, IdleIsIdle DEF Request
    <3>4. /\ q.at = "fuelKey" /\ q.op = "recordFuel" /\ q.key = k /\ q.amount = a
          /\ q.fuel = 0 /\ q.pick = 0 /\ q.seen = 0 /\ q.own = << >> /\ ~q.files
      BY <3>1 DEF Idle
    <3> QED BY <3>2, <3>3, <3>4
  <2>2. Plays(q)
    BY <2>1 DEF Plays, Fits, ReceiptSteps, ReverseSteps, PostSteps, PaySteps, HireSteps, AdvanceSteps,
           FuelSteps, PayPumpSteps, BillSteps
  <2>3. Brings(q)
    BY <2>1 DEF Brings, Receipts, PayOps, HireSteps
  <2>4. a \in Nat /\ "fuelKey" \in Steps /\ "recordFuel" \in Ops /\ k \in CallKeys \cup Periods
    BY LedgerAssumption DEF Steps, Ops, CallKeys, Amounts
  <2> QED BY <1>1, <2>1, <2>2, <2>3, <2>4, BeginDoes DEF PostSteps
<1>3. ASSUME NEW k \in CallKeys, NEW a \in Amounts, NEW b \in 0 .. Len(bills),
             Begin(r, [Idle EXCEPT !.at = "payKey", !.op = "payPump", !.key = k,
                                   !.amount = a, !.pick = b])
      PROVE  Does(r)
  <2>0. b \in Nat
    BY DEF Base, Tables
  <2>1. PICK q \in Request :
          /\ Begin(r, q) /\ q.at = "payKey" /\ q.op = "payPump" /\ q.key = k /\ q.amount = a
          /\ q.fuel = 0 /\ q.pick = b /\ q.seen = 0 /\ q.own = << >> /\ ~q.files
    <3>1. PICK q : q = [Idle EXCEPT !.at = "payKey", !.op = "payPump", !.key = k, !.amount = a, !.pick = b]
      OBVIOUS
    <3>2. Begin(r, q)
      BY <3>1, <1>3
    <3>3. q \in Request
      BY <3>1, CallTypes, IdleIsIdle, <2>0 DEF Request
    <3>4. /\ q.at = "payKey" /\ q.op = "payPump" /\ q.key = k /\ q.amount = a
          /\ q.fuel = 0 /\ q.pick = b /\ q.seen = 0 /\ q.own = << >> /\ ~q.files
      BY <3>1 DEF Idle
    <3> QED BY <3>2, <3>3, <3>4
  <2>2. Plays(q)
    BY <2>1 DEF Plays, Fits, ReceiptSteps, ReverseSteps, PostSteps, PaySteps, HireSteps, AdvanceSteps,
           FuelSteps, PayPumpSteps, BillSteps
  <2>3. Brings(q)
    BY <2>1 DEF Brings, Receipts, PayOps, HireSteps
  <2>4. a \in Nat /\ b \in Nat /\ "payKey" \in Steps /\ "payPump" \in Ops /\ k \in CallKeys \cup Periods
    BY LedgerAssumption DEF Steps, Ops, CallKeys, Amounts, Base, Tables
  <2> QED BY <1>1, <2>1, <2>2, <2>3, <2>4, BeginDoes DEF PostSteps
<1>4. ASSUME NEW k \in Periods, NEW a \in Adjustments,
             Begin(r, [Idle EXCEPT !.at = "billRead", !.op = "billPump", !.key = k, !.adjustment = a])
      PROVE  Does(r)
  <2>1. PICK q \in Request :
          /\ Begin(r, q) /\ q.at = "billRead" /\ q.op = "billPump" /\ q.key = k /\ q.amount = 0
          /\ q.fuel = 0 /\ q.pick = 0 /\ q.seen = 0 /\ q.own = << >> /\ ~q.files
    <3>1. PICK q : q = [Idle EXCEPT !.at = "billRead", !.op = "billPump", !.key = k, !.adjustment = a]
      OBVIOUS
    <3>2. Begin(r, q)
      BY <3>1, <1>4
    <3>3. q \in Request
      BY <3>1, CallTypes, IdleIsIdle, PumpAssumption DEF Request
    <3>4. /\ q.at = "billRead" /\ q.op = "billPump" /\ q.key = k /\ q.amount = 0
          /\ q.fuel = 0 /\ q.pick = 0 /\ q.seen = 0 /\ q.own = << >> /\ ~q.files
      BY <3>1 DEF Idle
    <3> QED BY <3>2, <3>3, <3>4
  <2>2. Plays(q)
    BY <2>1 DEF Plays, Fits, ReceiptSteps, ReverseSteps, PostSteps, PaySteps, HireSteps, AdvanceSteps,
           FuelSteps, PayPumpSteps, BillSteps
  <2>3. Brings(q)
    BY <2>1 DEF Brings, Receipts, PayOps, HireSteps
  <2>4. "billRead" \in Steps /\ "billPump" \in Ops /\ k \in CallKeys \cup Periods
    BY DEF Steps, Ops, CallKeys
  <2> QED BY <1>1, <2>1, <2>2, <2>3, <2>4, BeginDoes DEF PostSteps
<1> QED BY <1>2, <1>3, <1>4 DEF PumpArrive, CallKeys

-----------------------------------------------------------------------------
(***************************************************************************)
(* Steps.                                                                   *)
(***************************************************************************)

\* What is known of a request from where it is.
LEMMA WhereItIs ==
  ASSUME Base, NEW r \in Requests
  PROVE  /\ req[r] \in Request /\ Plays(req[r]) /\ Brings(req[r]) /\ Inserts(req[r])
         /\ Fits(req[r].at, req[r].op)
         /\ req[r].at \notin PostSteps \cup {"insertPayment", "commitPayment"} => req[r].own = << >>
BY DEF Base, Playing, Bringing, Inserting, Plays, Inserts

LEMMA CheckKeyDoes ==
  ASSUME Base, NEW r \in Requests, CheckKey(r), UNCHANGED <<vendor, pump, booked, mix>>
  PROVE  Does(r)
<1>1. req[r].at = "key" /\ req[r].own = << >> /\ req[r].op \in Receipts
  BY WhereItIs DEF CheckKey, Fits, ReceiptSteps, PostSteps
<1>2. CASE Refuse(r)
  BY <1>2, RefuseDoes DEF CheckKey
<1>3. ASSUME NEW l \in {"sum", "lockFinancial", "lockTripForReceipt"}, Goto(r, l), UNCHANGED <<rows, held, filed>>,
             l = "sum" => req[r].op = "receipt"
      PROVE  Does(r)
  <2>1. Fits(l, req[r].op) /\ l \in Steps
    BY <1>1, <1>3 DEF Fits, Steps, ReceiptSteps, ReverseSteps, PostSteps, PaySteps, HireSteps,
           AdvanceSteps, FuelSteps, PayPumpSteps, BillSteps
  <2>2. UNCHANGED <<customer, vendor, pump, booked, mix>>
    BY DEF CheckKey
  <2> QED BY <1>1, <1>3, <2>1, <2>2, GoDoes
<1> QED BY <1>2, <1>3 DEF CheckKey, SameReceipt

LEMMA LockForReceiptDoes ==
  ASSUME Base, NEW r \in Requests, UNCHANGED <<vendor, pump, booked, mix>>,
         LockTripForReceipt(r) \/ LockInvoice(r) \/ LockFinancial(r)
  PROVE  Does(r)
<1>1. req[r].own = << >> /\ req[r].op \in Receipts
  BY WhereItIs DEF LockTripForReceipt, LockInvoice, LockFinancial, Fits, ReceiptSteps, PostSteps
<1>2. \A l \in {"lockInvoice", "insertReceipt", "guard"} :
        Fits(l, req[r].op) /\ l \in Steps /\ l \notin PostSteps \cup {"idle", "commitPayment"}
  BY <1>1 DEF Fits, Steps, ReceiptSteps, ReverseSteps, PostSteps, PaySteps, HireSteps,
         AdvanceSteps, FuelSteps, PayPumpSteps, BillSteps
<1>3. UNCHANGED <<customer, vendor, pump, booked, mix>>
  BY DEF LockTripForReceipt, LockInvoice, LockFinancial
<1>4. CASE LockTripForReceipt(r) \/ LockInvoice(r)
  <2>1. PICK l \in {"lockInvoice", "insertReceipt", "guard"}, x \in {Trip, Invoice} : LockRow(r, x, l)
    BY <1>4 DEF LockTripForReceipt, LockInvoice
  <2>2. x \in Lockable /\ x # Financial
    BY DEF Lockable, Trip, Invoice, Financial
  <2>3. l \in Steps /\ Fits(l, req[r].op) /\ l \notin PostSteps \cup {"idle", "commitPayment"}
    BY <1>2
  <2> QED BY <1>1, <1>3, <2>1, <2>2, <2>3, GoDoes DEF PostSteps
<1>5. CASE LockFinancial(r)
  <2>1. TakeFinancial(r, "guard")
    BY <1>5 DEF LockFinancial
  <2> QED BY <1>1, <1>2, <1>3, <2>1, TakeDoes DEF PostSteps
<1> QED BY <1>4, <1>5

\* recordCustomerPayment at the ledger row it needs, which it makes in a statement of its own.
LEMMA FindFinancialDoes ==
  ASSUME Base, NEW r \in Requests, FindFinancial(r), UNCHANGED <<vendor, pump, booked, mix>>
  PROVE  Does(r)
<1>1. req[r].own = << >> /\ req[r].op \in Receipts /\ ~req[r].files
  BY WhereItIs DEF FindFinancial, Fits, ReceiptSteps, PostSteps, Inserts
<1>2. PICK l \in {"insertReceipt", "createFinancial"} : Goto(r, l) /\ UNCHANGED <<rows, held, filed>>
  BY DEF FindFinancial
<1>3. Fits(l, req[r].op) /\ l \in Steps
  BY <1>1 DEF Fits, Steps, ReceiptSteps, ReverseSteps, PostSteps, PaySteps, HireSteps,
         AdvanceSteps, FuelSteps, PayPumpSteps, BillSteps
<1>4. UNCHANGED <<customer, vendor, pump, booked, mix>>
  BY DEF FindFinancial
<1> QED BY <1>1, <1>2, <1>3, <1>4, GoDoes

LEMMA CreateFinancialDoes ==
  ASSUME Base, NEW r \in Requests, CreateFinancial(r), UNCHANGED <<vendor, pump, booked, mix>>
  PROVE  /\ Does(r) /\ rows' = rows
         /\ Turn(r, Idle) \/ Turn(r, [req[r] EXCEPT !.at = "insertReceipt"])
<1>1. req[r].own = << >> /\ req[r].op \in Receipts /\ ~req[r].files
  BY WhereItIs DEF CreateFinancial, Fits, ReceiptSteps, PostSteps, Inserts
<1>2. UNCHANGED <<customer, vendor, pump, booked, mix>>
  BY DEF CreateFinancial
<1>3. CASE Refuse(r)
  BY <1>2, <1>3, RefuseDoes
<1>4. CASE /\ Goto(r, "insertReceipt") /\ filed' = OneMore /\ UNCHANGED <<rows, held>>
           /\ ~(booked /\ filed > 0)
  <2> PICK q : q = [req[r] EXCEPT !.at = "insertReceipt"]
    OBVIOUS
  <2>1. req \in [Requests -> Request] /\ "insertReceipt" \in Steps /\ filed \in 0 .. 2
    BY DEF Base, Playing, Steps, Filing
  <2>2. q \in Request /\ q.at = "insertReceipt" /\ q.op = req[r].op /\ q.own = << >>
        /\ q.files = req[r].files /\ q.key = req[r].key /\ q.amount = req[r].amount
        /\ q.fuel = req[r].fuel /\ q.pick = req[r].pick /\ q.seen = req[r].seen
    BY <1>1, <2>1 DEF Request
  <2>3. req' = [req EXCEPT ![r] = q]
    BY <1>4, <2>1 DEF Goto
  <2>4. Turn(r, q)
    BY <2>2, <2>3, Turns
  <2>6. Creates(r)
    BY <1>1, <1>4, <2>1, <2>2, <2>4 DEF Creates, Turn, CreateFinancial
  <2>7. Brings(q) /\ Plays(q) /\ Inserts(q)
    <3>1. Fits("insertReceipt", req[r].op)
      BY <1>1 DEF Fits, ReceiptSteps, ReverseSteps, PostSteps, PaySteps, HireSteps,
             AdvanceSteps, FuelSteps, PayPumpSteps, BillSteps
    <3> QED BY <2>2, <3>1, SameCall DEF Base, Bringing, Plays, Inserts, PostSteps
  <2>8. q.op # "editHire"
    BY <1>1, <2>2 DEF Receipts
  <2> QED BY <1>2, <1>4, <2>2, <2>4, <2>6, <2>7, <2>8, TablesSame, TurnDoes DEF vendor, pump
<1> QED BY <1>3, <1>4 DEF CreateFinancial

LEMMA GuardAmountDoes ==
  ASSUME Base, NEW r \in Requests, GuardAmount(r), UNCHANGED <<vendor, pump, booked, mix>>
  PROVE  Does(r)
<1>1. req[r].own = << >> /\ req[r].op \in Receipts
  BY WhereItIs DEF GuardAmount, Fits, ReceiptSteps, PostSteps
<1>2. UNCHANGED <<customer, vendor, pump, booked, mix>>
  BY DEF GuardAmount
<1>3. CASE Refuse(r)
  BY <1>2, <1>3, RefuseDoes
<1>4. CASE Goto(r, "insertReceipt") /\ UNCHANGED <<rows, held, filed>>
  <2>1. Fits("insertReceipt", req[r].op) /\ "insertReceipt" \in Steps
    BY <1>1 DEF Fits, Steps, ReceiptSteps, ReverseSteps, PostSteps, PaySteps, HireSteps,
           AdvanceSteps, FuelSteps, PayPumpSteps, BillSteps
  <2> QED BY <1>1, <1>2, <1>4, <2>1, GoDoes
<1> QED BY <1>3, <1>4 DEF GuardAmount

LEMMA ReverseDoes ==
  ASSUME Base, NEW r \in Requests, LockEntry(r) \/ CheckReversible(r),
         UNCHANGED <<customer, vendor, pump, booked, mix>>
  PROVE  Does(r)
<1>1. req[r].own = << >> /\ req[r].op = "reverse"
  BY WhereItIs DEF LockEntry, CheckReversible, Fits, ReverseSteps, PostSteps
<1>2. \A l \in {"reversible", "insertReversal"} : Fits(l, req[r].op) /\ l \in Steps
  BY <1>1 DEF Fits, Steps, ReceiptSteps, ReverseSteps, PostSteps, PaySteps, HireSteps,
         AdvanceSteps, FuelSteps, PayPumpSteps, BillSteps
<1>3. CASE LockEntry(r)
  <2>1. req[r].pick \in DOMAIN rows
    BY <1>1, WhereItIs DEF Brings
  <2>2. req[r].pick \in 1 .. MaxRows
    BY <2>1, LedgerAssumption DEF Base, Tables
  <2>3. Entry(req[r].pick) \in Lockable
    BY <2>2 DEF Lockable
  <2>4. LockRow(r, Entry(req[r].pick), "reversible") /\ Entry(req[r].pick) # Financial
    BY <1>3 DEF LockEntry, Entry, Financial
  <2> QED BY <1>1, <1>2, <2>3, <2>4, GoDoes
<1>4. CASE CheckReversible(r)
  <2>1. CASE Refuse(r)
    BY <2>1, RefuseDoes
  <2>2. CASE Goto(r, "insertReversal") /\ UNCHANGED <<rows, held, filed>>
    BY <1>1, <1>2, <2>2, GoDoes
  <2> QED BY <1>4, <2>1, <2>2 DEF CheckReversible
<1> QED BY <1>3, <1>4

\* A request that has inserted its first row.
LEMMA FirstRow ==
  ASSUME Base, NEW r \in Requests, NEW row \in Row, NEW l \in Steps, NEW q, q = Gets(req[r], l, row),
         req[r].own = << >>, Fits(l, req[r].op), l # "idle"
  PROVE  /\ \A i \in DOMAIN req[r].own : ~Clash(row, req[r].own[i])
         /\ q.at = l /\ q.own = <<row>> /\ q.op = req[r].op /\ q.pick = req[r].pick
         /\ q.amount = req[r].amount /\ q.fuel = req[r].fuel /\ Plays(q)
<1>1. req[r] \in Request
  BY DEF Base, Playing
<1>2. /\ q.at = l /\ q.own = Append(req[r].own, row) /\ q.op = req[r].op /\ q.pick = req[r].pick
      /\ q.amount = req[r].amount /\ q.fuel = req[r].fuel
  BY <1>1 DEF Request, Gets
<1>3. Append(req[r].own, row) = <<row>>
  BY <1>1
<1> QED BY <1>2, <1>3 DEF Plays

LEMMA InsertReversalDoes ==
  ASSUME Base, NEW r \in Requests, InsertReversal(r), UNCHANGED <<customer, vendor, pump, booked, mix>>
  PROVE  Does(r)
<1>1. req[r].own = << >> /\ req[r].op = "reverse" /\ req[r].pick \in DOMAIN rows
  BY WhereItIs DEF InsertReversal, Fits, ReverseSteps, PostSteps, Brings
<1>2. rows[req[r].pick] \in Row /\ req[r].pick \in 0 .. MaxRows
  BY <1>1, LedgerAssumption DEF Base, Tables
<1>3. PICK row : row = [NewRow("reverse", rows[req[r].pick].amount) EXCEPT
                          !.billed = rows[req[r].pick].billed, !.undoes = req[r].pick]
  OBVIOUS
<1>4. /\ row \in Row /\ row.by = "reverse" /\ row.undoes = req[r].pick
      /\ row.amount = rows[req[r].pick].amount /\ row.billed = rows[req[r].pick].billed
  <2>1. NewRow("reverse", rows[req[r].pick].amount) \in Row
    BY <1>2, LedgerAssumption DEF NewRow, Row, Writers
  <2> QED BY <1>2, <1>3, <2>1 DEF NewRow, Row
<1>5. PICK l \in {"sum", "commit"} : l = IF row.billed THEN "sum" ELSE "commit"
  OBVIOUS
<1>6. InsertRow(r, row, l)
  BY <1>3, <1>4, <1>5 DEF InsertReversal
<1>7. Fits(l, req[r].op) /\ l \in Steps /\ l # "idle"
  BY <1>1 DEF Fits, Steps, ReceiptSteps, ReverseSteps, PostSteps, PaySteps, HireSteps,
         AdvanceSteps, FuelSteps, PayPumpSteps, BillSteps
<1>8. PICK q : q = Gets(req[r], l, row)
  OBVIOUS
<1>9. /\ q.at = l /\ q.own = <<row>> /\ q.op = req[r].op /\ q.pick = req[r].pick /\ Plays(q)
      /\ \A i \in DOMAIN req[r].own : ~Clash(row, req[r].own[i])
  <2>1. row \in Row /\ req[r].own = << >>
    BY <1>1, <1>4
  <2> QED BY <2>1, <1>7, <1>8, FirstRow
<1>10. Inserts(q)
  <2>1. Posting(q, row) /\ row.billed = (q.at # "commit")
    BY <1>1, <1>2, <1>4, <1>5, <1>9 DEF Posting, Row
  <2> QED BY <1>4, <1>9, <2>1 DEF Inserts, PostSteps
<1> QED BY <1>4, <1>6, <1>7, <1>8, <1>9, <1>10, InsertDoes

LEMMA InsertReceiptDoes ==
  ASSUME Base, NEW r \in Requests, InsertReceipt(r), UNCHANGED <<vendor, pump, booked, mix>>
  PROVE  Does(r)
<1>1. /\ req[r].own = << >> /\ req[r].op \in Receipts
      /\ req[r].amount \in Amounts /\ req[r].key \in CallKeys
  <2>1. req[r].at = "insertReceipt"
    BY DEF InsertReceipt
  <2>2. req[r].own = << >> /\ req[r].op \in Receipts
    BY <2>1, WhereItIs DEF Fits, ReceiptSteps, PostSteps
  <2> QED BY <2>2, WhereItIs DEF Brings
<1>2. PICK row : row = [NewRow(req[r].op, req[r].amount) EXCEPT
            !.key = IF req[r].op \in {"receipt", "customerAdvance"} THEN req[r].key ELSE None,
            !.ref = IF req[r].op \in {"receipt", "customerAdvance"} THEN None ELSE req[r].key,
            !.billed = req[r].op # "customerAdvance" /\ invoice # "ABSENT"]
  OBVIOUS
<1>3. row \in Row /\ row.by = req[r].op /\ row.undoes = 0 /\ row.amount = req[r].amount
  <2>1. NewRow(req[r].op, req[r].amount) \in Row
    BY <1>1, LedgerAssumption DEF NewRow, Row, Writers
  <2>2. req[r].key \in Keys \cup {None}
    BY <1>1 DEF CallKeys
  <2>3. row \in Row
    BY <1>2, <2>1, <2>2 DEF Row
  <2> QED BY <1>2, <2>3 DEF NewRow
<1>4. PICK l \in {"sum", "commit"} : l = IF row.billed THEN "sum" ELSE "commit"
  OBVIOUS
<1>5. InsertRow(r, row, l)
  <2>1. row.billed = (req[r].op # "customerAdvance" /\ invoice # "ABSENT")
    BY <1>2 DEF NewRow
  <2>2. InsertRow(r, row, IF req[r].op # "customerAdvance" /\ invoice # "ABSENT"
                          THEN "sum" ELSE "commit")
    BY <1>2 DEF InsertReceipt
  <2> QED BY <1>4, <2>1, <2>2
<1>6. Fits(l, req[r].op) /\ l \in Steps /\ l # "idle"
  BY <1>1 DEF Fits, Steps, ReceiptSteps, ReverseSteps, PostSteps, PaySteps, HireSteps,
         AdvanceSteps, FuelSteps, PayPumpSteps, BillSteps
<1>7. PICK q : q = Gets(req[r], l, row)
  OBVIOUS
<1>8. /\ q.at = l /\ q.own = <<row>> /\ q.op = req[r].op /\ q.amount = req[r].amount /\ Plays(q)
      /\ \A i \in DOMAIN req[r].own : ~Clash(row, req[r].own[i])
  <2>1. row \in Row /\ req[r].own = << >> /\ Fits(l, req[r].op) /\ l \in Steps /\ l # "idle"
    BY <1>1, <1>3, <1>6
  <2> QED BY <1>7, <2>1, FirstRow
<1>9. Inserts(q)
  <2>1. Posting(q, row) /\ row.billed = (q.at # "commit")
    BY <1>1, <1>3, <1>4, <1>8 DEF Posting, Receipts, Row
  <2> QED BY <1>3, <1>8, <2>1 DEF Inserts, PostSteps
<1>10. UNCHANGED <<customer, vendor, pump, booked, mix>>
  BY DEF InsertReceipt
<1> QED BY <1>3, <1>5, <1>6, <1>7, <1>8, <1>9, <1>10, InsertDoes

LEMMA SumReceiptsDoes ==
  ASSUME Base, NEW r \in Requests, SumReceipts(r), UNCHANGED <<vendor, pump, booked, mix>>
  PROVE  Does(r)
<1>1. req[r].at = "sum" /\ req[r] \in Request /\ req[r].op \in Receipts \cup {"reverse"}
  BY WhereItIs DEF SumReceipts, Fits, PostSteps
<1>2. Received(Seen(r)) \in Int
  <2>1. Seen(r) \in Seq(Row)
    BY SeenIsRows
  <2>2. \A n \in 1 .. Len(Seen(r)) : Seen(r)[n] \in Row
    BY <2>1
  <2>3. \A n \in 1 .. Len(Seen(r)) : Seen(r)[n].amount \in Nat
    BY <2>2, CallTypes DEF Row
  <2> QED BY <2>1, <2>3, SumNat DEF Received, Billed
<1>3. PICK seen \in Int : seen = Received(Seen(r))
  BY <1>2
<1>4. PICK q : q = [req[r] EXCEPT !.at = "stamp", !.seen = seen]
  OBVIOUS
<1>5. /\ q \in Request /\ q.at = "stamp" /\ q.op = req[r].op /\ q.own = req[r].own /\ q.key = req[r].key
      /\ q.amount = req[r].amount /\ q.fuel = req[r].fuel /\ q.pick = req[r].pick
      /\ q.files = req[r].files
  BY <1>1, <1>4 DEF Request, Steps
<1>6. req' = [req EXCEPT ![r] = q]
  BY <1>3, <1>4 DEF SumReceipts, Base, Playing
<1>7. Turn(r, q)
  BY <1>5, <1>6, Turns
<1>8. UNCHANGED <<rows, held, filed, invoice>> /\ lapped' \in BOOLEAN
  BY DEF SumReceipts, Base, Tables
<1>9. Stays(r) /\ Tables'
  BY <1>5, <1>7, <1>8 DEF Stays, Turn, Base, LocksApart, Tables, vendor, pump
<1>10. Plays(q)
  BY <1>1, <1>5 DEF Plays, Fits, ReceiptSteps, ReverseSteps, PostSteps, PaySteps, HireSteps,
         AdvanceSteps, FuelSteps, PayPumpSteps, BillSteps
<1>11. Brings(q)
  <2>1. q.op \in Receipts \cup {"reverse"}
    BY <1>1, <1>5
  <2>2. q.op \notin PayOps \cup HireSteps \cup {"adjust", "recordFuel", "payPump", "billPump"}
    BY <2>1 DEF Receipts, PayOps, HireSteps
  <2> QED BY <1>5, <2>2, WhereItIs DEF Brings
<1>12. Inserts(q)
  BY <1>1, <1>5, WhereItIs DEF Inserts, PostSteps, Posting
<1>13. q.op # "editHire"
  BY <1>1, <1>5 DEF Receipts
<1> QED BY <1>5, <1>7, <1>8, <1>9, <1>10, <1>11, <1>12, <1>13, TurnDoes DEF vendor, pump

LEMMA PostDoes ==
  ASSUME Base, NEW r \in Requests, Stamp(r) \/ CommitUnbilled(r), UNCHANGED <<vendor, pump, booked, mix>>
  PROVE  Does(r) /\ Turn(r, Idle) /\ Commits(r)
<1>1. Commit(r) /\ invoice' \in InvoiceStates /\ lapped' = lapped
  BY DEF Stamp, CommitUnbilled, StatusFor, InvoiceStates, customer, Base, Tables
<1> QED BY <1>1, CommitDoes

\* A request that ends, whatever it wrote.
LEMMA IdleDoes ==
  ASSUME Base, NEW r \in Requests, Turn(r, Idle), Stays(r) \/ Commits(r), Tables', Grows, Edits(r),
         booked' = booked
  PROVE  Does(r)
<1>1. req'[r] = Idle
  BY DEF Turn
<1>2. Plays(req[r])' /\ Inserts(req[r])'
  BY <1>1, IdleIsIdle DEF Plays, Inserts, Idle, PostSteps
<1>3. Brings(req[r])'
  BY <1>1 DEF Brings, Idle, Receipts, PayOps, HireSteps
<1> QED BY <1>2, <1>3, IdleIsIdle DEF Does

LEMMA RefuseTurns ==
  ASSUME Base, NEW r \in Requests, Refuse(r)
  PROVE  Turn(r, Idle) /\ Stays(r) /\ rows' = rows /\ filed' = filed /\ held' = [held EXCEPT ![r] = {}]
<1>1. Turn(r, Idle)
  BY Turns, IdleIsIdle DEF Refuse, End
<1>2. rows' = rows /\ filed' = filed /\ held' = [held EXCEPT ![r] = {}] /\ ~Idle.files
  BY DEF Refuse, End, Idle
<1> QED BY <1>1, <1>2, IdleIsIdle DEF Stays, Turn, Base, LocksApart, Others

LEMMA HireDoes ==
  ASSUME Base, NEW r \in Requests, AgreeHire(r) \/ EditHire(r) \/ ConfirmOrCancelHire(r),
         UNCHANGED <<customer, pump, booked, mix>>
  PROVE  Does(r)
<1>1. Turn(r, Idle) /\ Stays(r) /\ rows' = rows /\ UNCHANGED <<book, advances>>
  BY RefuseTurns DEF AgreeHire, EditHire, ConfirmOrCancelHire
<1>2. req[r].op = req[r].at /\ req[r].seen \in Nets \cup {0}
      /\ (req[r].op # "hireVehicle" => hire.status # "NONE")
  <2>1. req[r].at \in HireSteps
    BY DEF AgreeHire, EditHire, ConfirmOrCancelHire, HireSteps
  <2> QED BY <2>1, WhereItIs DEF Fits, Brings
<1>3. hire \in [status : HireStates, net : Nets \cup {0}, edits : Nat]
  BY DEF Base, Tables
<1>4. /\ hire' \in [status : HireStates, net : Nets \cup {0}, edits : Nat]
      /\ hire.status # "NONE" => hire'.status # "NONE"
      /\ \/ hire'.edits = hire.edits
         \/ hire'.edits = hire.edits + 1 /\ req[r].op = "editHire"
  <2>1. CASE AgreeHire(r)
    BY <1>2, <1>3, <2>1 DEF AgreeHire, HireStates
  <2>2. CASE EditHire(r)
    <3>1. PICK n \in Nets \cup {0}, e \in Nat : n = req[r].seen /\ e = hire.edits + 1
      BY <1>2, <1>3
    <3>2. hire' = [hire EXCEPT !.net = n, !.edits = e]
      BY <2>2, <3>1 DEF EditHire
    <3>3. req[r].op = "editHire"
      BY <1>2, <2>2 DEF EditHire
    <3> QED BY <1>2, <1>3, <3>1, <3>2, <3>3
  <2>3. CASE ConfirmOrCancelHire(r)
    BY <1>2, <1>3, <2>3 DEF ConfirmOrCancelHire, HireStates
  <2> QED BY <2>1, <2>2, <2>3
<1>5. Tables'
  BY <1>1, <1>4 DEF Base, Tables, customer, pump
<1>6. Len(bills) \in Nat
  BY DEF Base, Tables
<1>7. Grows
  BY <1>1, <1>4, <1>6 DEF Grows, pump
<1>8. Edits(r)
  <2>1. req'[r].op # "editHire"
    BY <1>1 DEF Turn, Idle
  <2> QED BY <1>4, <2>1 DEF Edits
<1> QED BY <1>1, <1>5, <1>7, <1>8, IdleDoes

LEMMA PaymentStepDoes ==
  ASSUME Base, NEW r \in Requests, CheckReference(r) \/ LockTripForPayment(r) \/ LockFinancialToPay(r),
         UNCHANGED <<customer, pump, booked, mix>>
  PROVE  Does(r)
<1>1. req[r].own = << >> /\ req[r].op \in PayOps
  BY WhereItIs DEF CheckReference, LockTripForPayment, LockFinancialToPay, Fits, PaySteps, PostSteps
<1>2. UNCHANGED <<customer, vendor, pump, booked, mix>>
  BY DEF CheckReference, LockTripForPayment, LockFinancialToPay
<1>3. \A l \in {"insertPayment", "lockTripForPayment", "position"} : Fits(l, req[r].op) /\ l \in Steps
  BY <1>1 DEF Fits, Steps, ReceiptSteps, ReverseSteps, PostSteps, PaySteps, HireSteps,
         AdvanceSteps, FuelSteps, PayPumpSteps, BillSteps
<1>4. Trip \in Lockable /\ Financial \in Lockable
  BY DEF Lockable
<1>5. CASE CheckReference(r)
  <2>1. CASE Refuse(r)
    BY <1>2, <2>1, RefuseDoes
  <2>2. ASSUME NEW l \in {"insertPayment", "lockTripForPayment"}, Goto(r, l), UNCHANGED <<rows, held, filed>>
        PROVE  Does(r)
    BY <1>1, <1>2, <1>3, <2>2, GoDoes
  <2> QED BY <1>5, <2>1, <2>2 DEF CheckReference
<1>6. CASE LockTripForPayment(r)
  <2>1. PICK l \in {"insertPayment", "position"} : LockRow(r, Trip, l) /\ Trip # Financial
    BY <1>6 DEF LockTripForPayment, Trip, Financial
  <2> QED BY <1>1, <1>2, <1>3, <1>4, <2>1, GoDoes
<1>7. CASE LockFinancialToPay(r)
  <2>1. TakeFinancial(r, "insertPayment") /\ "insertPayment" \notin PostSteps \cup {"idle", "commitPayment"}
    BY <1>7 DEF LockFinancialToPay, PostSteps
  <2> QED BY <1>1, <1>2, <1>3, <2>1, TakeDoes DEF PostSteps
<1> QED BY <1>5, <1>6, <1>7

\* A request that notes what it read and goes on.
Notes(p, l, n) == [p EXCEPT !.at = l, !.seen = n]

LEMMA NoteDoes ==
  ASSUME Base, NEW r \in Requests, NEW l \in Steps, NEW n \in Nat, NEW q, q = Notes(req[r], l, n),
         req' = [req EXCEPT ![r] = q], UNCHANGED <<rows, held, filed, customer, vendor, pump, booked, mix>>,
         req[r].own = << >>, Fits(l, req[r].op), req[r].op \in PayOps \cup {"adjust"},
         l \notin PostSteps \cup {"idle", "commitPayment"} \cup ReceiptSteps
  PROVE  Does(r) /\ Turn(r, q)
<1>1. req[r] \in Request /\ Brings(req[r])
  BY WhereItIs
<1>2. /\ q \in Request /\ q.at = l /\ q.op = req[r].op /\ q.own = req[r].own /\ q.key = req[r].key
      /\ q.amount = req[r].amount /\ q.fuel = req[r].fuel /\ q.pick = req[r].pick /\ q.seen = n
      /\ q.files = req[r].files
  <2>1. n \in Int /\ req[r] \in Request /\ q = [req[r] EXCEPT !.at = l, !.seen = n]
    BY <1>1 DEF Notes
  <2> QED BY <2>1 DEF Request
<1>3. Turn(r, q)
  BY <1>2, Turns
<1>4. Stays(r)
  BY <1>2, <1>3 DEF Stays, Turn, Base, LocksApart
<1>5. Plays(q)
  BY <1>2 DEF Plays
<1>6. Brings(q)
  <2>1. q.op \notin Receipts \cup HireSteps \cup {"reverse", "recordFuel", "payPump", "billPump"}
    BY <1>2 DEF Receipts, PayOps, HireSteps
  <2> QED BY <1>1, <1>2, <2>1 DEF Brings
<1>7. Inserts(q)
  BY <1>2 DEF Inserts, ReceiptSteps
<1>8. q.op # "editHire"
  BY <1>2 DEF PayOps
<1> QED BY <1>2, <1>3, <1>4, <1>5, <1>6, <1>7, <1>8, TablesSame, TurnDoes DEF vendor, pump

LEMMA CheckPositionDoes ==
  ASSUME Base, NEW r \in Requests, CheckPosition(r), UNCHANGED <<customer, pump, booked, mix>>
  PROVE  Does(r)
<1>1. req[r].own = << >> /\ req[r].op \in PayOps /\ book \in Nat
  BY WhereItIs DEF CheckPosition, Fits, PaySteps, PostSteps, Base, Tables
<1>2. UNCHANGED <<customer, vendor, pump, booked, mix>>
  BY DEF CheckPosition
<1>3. CASE Refuse(r)
  BY <1>2, <1>3, RefuseDoes
<1>4. CASE ~Refuse(r)
  <2>1. PICK l \in {"insertPayment", "lockFinancialToPay"} :
          l = IF req[r].op = "ownerSettlement" THEN "insertPayment" ELSE "lockFinancialToPay"
    OBVIOUS
  <2>2. PICK q : q = Notes(req[r], l, book)
    OBVIOUS
  <2>3. req' = [req EXCEPT ![r] = q] /\ UNCHANGED <<rows, held, filed>>
    BY <1>4, <2>1, <2>2 DEF CheckPosition, Notes, Base, Playing
  <2>4. Fits(l, req[r].op) /\ l \in Steps
    BY <1>1 DEF Fits, Steps, ReceiptSteps, ReverseSteps, PostSteps, PaySteps, HireSteps,
           AdvanceSteps, FuelSteps, PayPumpSteps, BillSteps
  <2>5. l \notin PostSteps \cup {"idle", "commitPayment"} \cup ReceiptSteps
    BY DEF PostSteps, ReceiptSteps
  <2> QED BY <1>1, <1>2, <2>2, <2>3, <2>4, <2>5, NoteDoes
<1> QED BY <1>3, <1>4

\* The row of a payment.
KeyedRow(by, a, key, ref) == [NewRow(by, a) EXCEPT !.key = key, !.ref = ref]

LEMMA NewRowFields ==
  ASSUME NEW by \in Writers, NEW a \in Amounts, NEW key \in CallKeys, NEW ref \in CallKeys,
         NEW row, row = KeyedRow(by, a, key, ref)
  PROVE  /\ row \in Row /\ row.by = by /\ row.amount = a /\ row.key = key /\ row.ref = ref
         /\ row.undoes = 0 /\ ~row.billed
<1>1. NewRow(by, a) \in Row
  BY LedgerAssumption DEF NewRow, Row
<1>2. row \in Row
  BY <1>1 DEF Row, CallKeys, KeyedRow
<1> QED BY <1>2 DEF NewRow, KeyedRow

LEMMA InsertPaymentDoes ==
  ASSUME Base, NEW r \in Requests, InsertPayment(r), UNCHANGED <<customer, pump, booked, mix>>
  PROVE  Does(r)
<1>1. req[r].at = "insertPayment" /\ req[r] \in Request /\ req[r].op \in PayOps /\ Inserts(req[r])
  BY WhereItIs DEF InsertPayment, Fits, PaySteps
<1>2. /\ req[r].amount \in Nat /\ req[r].fuel \in Nat /\ req[r].key \in CallKeys
      /\ IF req[r].op = "vendorPayment" THEN req[r].amount + req[r].fuel > 0 ELSE req[r].amount > 0 /\ req[r].fuel = 0
      /\ req[r].amount > 0 => req[r].amount \in Amounts
      /\ req[r].fuel > 0 => req[r].fuel \in Amounts
  <2>1. Brings(req[r])
    BY WhereItIs
  <2> QED BY <1>1, <2>1, LedgerAssumption DEF Brings, Amounts
<1>3. \/ req[r].own = << >>
      \/ /\ req[r].op = "vendorPayment" /\ req[r].amount > 0 /\ req[r].fuel > 0
         /\ \E row \in Row : req[r].own = <<row>> /\ Plain(row, "vendorPayment", req[r].amount)
  BY <1>1 DEF Inserts, PostSteps
<1>4. req[r].op \in Writers /\ "vendorFuel" \in Writers /\ None \in CallKeys
  BY <1>1 DEF Writers, OwnerMoney, ToOwner, ToVendor, PayOps, CallKeys
<1>5. \A l \in {"insertPayment", "commitPayment"} : Fits(l, req[r].op) /\ l \in Steps /\ l # "idle"
  BY <1>1 DEF Fits, Steps, ReceiptSteps, ReverseSteps, PostSteps, PaySteps, HireSteps,
         AdvanceSteps, FuelSteps, PayPumpSteps, BillSteps
<1>6. UNCHANGED <<customer, vendor, pump, booked, mix>>
  BY DEF InsertPayment
<1>7. InsertRow(r, KeyedRow(IF req[r].amount > 0 /\ req[r].own = << >> THEN req[r].op ELSE "vendorFuel",
                            IF req[r].amount > 0 /\ req[r].own = << >> THEN req[r].amount ELSE req[r].fuel,
                            IF req[r].op = "vendorPayment" /\ req[r].amount * req[r].fuel = 0 THEN req[r].key ELSE None,
                            IF req[r].op = "vendorPayment" THEN None ELSE req[r].key),
                IF (req[r].amount > 0 /\ req[r].own = << >>) /\ req[r].fuel > 0 THEN "insertPayment" ELSE "commitPayment")
  BY DEF InsertPayment, KeyedRow
<1>8. CASE req[r].own = << >> /\ req[r].amount > 0 /\ req[r].fuel > 0
  <2>1. req[r].op = "vendorPayment" /\ req[r].amount * req[r].fuel # 0
    BY <1>2, <1>8
  <2>2. PICK row : row = KeyedRow(req[r].op, req[r].amount, None, None)
    OBVIOUS
  <2>3. InsertRow(r, row, "insertPayment")
    BY <1>7, <1>8, <2>1, <2>2
  <2>4. /\ row \in Row /\ row.by = req[r].op /\ row.amount = req[r].amount /\ row.key = None /\ row.ref = None
        /\ row.undoes = 0 /\ ~row.billed
    <3>1. req[r].op \in Writers /\ req[r].amount \in Amounts /\ None \in CallKeys
      BY <1>2, <1>4, <1>8
    <3> QED BY <2>2, <3>1, NewRowFields
  <2>5. PICK q : q = Gets(req[r], "insertPayment", row)
    OBVIOUS
  <2>6. /\ q.at = "insertPayment" /\ q.own = <<row>> /\ q.op = req[r].op /\ q.amount = req[r].amount
        /\ q.fuel = req[r].fuel /\ Plays(q) /\ \A i \in DOMAIN req[r].own : ~Clash(row, req[r].own[i])
    <3>1. row \in Row /\ "insertPayment" \in Steps /\ Fits("insertPayment", req[r].op)
      BY <1>5, <2>4
    <3> QED BY <1>8, <2>5, <3>1, FirstRow
  <2>7. Inserts(q)
    <3>1. Plain(row, "vendorPayment", q.amount)
      BY <2>1, <2>4, <2>6 DEF Plain
    <3> QED BY <1>8, <2>1, <2>4, <2>6, <3>1 DEF Inserts, PostSteps
  <2>8. row \in Row /\ "insertPayment" \in Steps
    BY <1>5, <2>4
  <2> QED BY <1>6, <2>3, <2>5, <2>6, <2>7, <2>8, InsertDoes
<1>9. ASSUME NEW by \in Writers, NEW a \in Amounts, NEW key \in CallKeys, NEW ref \in CallKeys,
             req[r].own = << >>,
             InsertRow(r, KeyedRow(by, a, key, ref), "commitPayment"),
             IF req[r].op = "vendorPayment" THEN by \in {"vendorPayment", "vendorFuel"}
             ELSE by = req[r].op /\ a = req[r].amount
      PROVE  Does(r)
  <2>1. PICK row : row = KeyedRow(by, a, key, ref)
    OBVIOUS
  <2>2. InsertRow(r, row, "commitPayment")
    BY <1>9, <2>1
  <2>3. /\ row \in Row /\ row.by = by /\ row.amount = a /\ row.undoes = 0 /\ ~row.billed
    BY <2>1, NewRowFields
  <2>4. PICK q : q = Gets(req[r], "commitPayment", row)
    OBVIOUS
  <2>5. row \in Row /\ "commitPayment" \in Steps /\ Fits("commitPayment", req[r].op)
    BY <1>5, <2>3
  <2>6. /\ q.at = "commitPayment" /\ q.own = <<row>> /\ q.op = req[r].op /\ q.amount = req[r].amount
        /\ q.fuel = req[r].fuel /\ Plays(q) /\ \A i \in DOMAIN req[r].own : ~Clash(row, req[r].own[i])
    <3>1. req[r].own = << >> /\ "commitPayment" # "idle"
      BY <1>9
    <3>2. Plays(q) /\ q.own = <<row>>
      <4>1. q.own = Append(req[r].own, row) /\ Append(req[r].own, row) = <<row>>
        BY <1>1, <2>4, <3>1 DEF Gets, Request
      <4>2. q.at = "commitPayment" /\ q.op = req[r].op
        BY <1>1, <2>4 DEF Gets, Request
      <4>3. Fits(q.at, q.op) /\ q.at # "idle"
        BY <2>5, <4>2
      <4> QED BY <4>1, <4>3 DEF Plays
    <3>4. \A i \in DOMAIN req[r].own : ~Clash(row, req[r].own[i])
      BY <3>1
    <3>3. q.at = "commitPayment" /\ q.op = req[r].op /\ q.amount = req[r].amount /\ q.fuel = req[r].fuel
      BY <1>1, <2>4 DEF Gets, Request
    <3> QED BY <3>2, <3>3, <3>4
  <2>7. Inserts(q)
    <3>1. Paying(q, row)
      BY <1>9, <2>3, <2>6 DEF Paying
    <3> QED BY <2>3, <2>6, <3>1 DEF Inserts, PostSteps
  <2> QED BY <1>6, <2>2, <2>4, <2>5, <2>6, <2>7, InsertDoes
<1>10. CASE req[r].own = << >> /\ req[r].amount > 0 /\ ~(req[r].fuel > 0)
  <2>1. PICK key \in CallKeys, ref \in CallKeys :
          /\ key = IF req[r].op = "vendorPayment" /\ req[r].amount * req[r].fuel = 0 THEN req[r].key ELSE None
          /\ ref = IF req[r].op = "vendorPayment" THEN None ELSE req[r].key
    BY <1>2, <1>4
  <2>2. InsertRow(r, KeyedRow(req[r].op, req[r].amount, key, ref), "commitPayment")
    BY <1>7, <1>10, <2>1
  <2> QED BY <1>2, <1>4, <1>9, <1>10, <2>2
<1>11. CASE req[r].own = << >> /\ ~(req[r].amount > 0)
  <2>1. PICK key \in CallKeys, ref \in CallKeys :
          /\ key = IF req[r].op = "vendorPayment" /\ req[r].amount * req[r].fuel = 0 THEN req[r].key ELSE None
          /\ ref = IF req[r].op = "vendorPayment" THEN None ELSE req[r].key
    BY <1>2, <1>4
  <2>2. InsertRow(r, KeyedRow("vendorFuel", req[r].fuel, key, ref), "commitPayment")
    BY <1>7, <1>11, <2>1
  <2>3. req[r].op = "vendorPayment" /\ req[r].fuel \in Amounts
    BY <1>2, <1>11
  <2> QED BY <1>4, <1>9, <1>11, <2>2, <2>3
<1>12. CASE req[r].own # << >>
  <2>1. PICK first \in Row : req[r].own = <<first>> /\ Plain(first, "vendorPayment", req[r].amount)
    BY <1>3, <1>12
  <2>2. req[r].op = "vendorPayment" /\ req[r].amount > 0 /\ req[r].fuel > 0 /\ req[r].amount * req[r].fuel # 0
    BY <1>2, <1>3, <1>12
  <2>3. PICK row : row = KeyedRow("vendorFuel", req[r].fuel, None, None)
    OBVIOUS
  <2>4. InsertRow(r, row, "commitPayment")
    BY <1>7, <1>12, <2>2, <2>3
  <2>5. /\ row \in Row /\ row.by = "vendorFuel" /\ row.amount = req[r].fuel /\ row.key = None
        /\ row.ref = None /\ row.undoes = 0 /\ ~row.billed
    <3>1. "vendorFuel" \in Writers /\ req[r].fuel \in Amounts /\ None \in CallKeys
      BY <1>2, <1>4, <2>2
    <3> QED BY <2>3, <3>1, NewRowFields
  <2>6. Plain(row, "vendorFuel", req[r].fuel) /\ ~Clash(row, first)
    BY <2>5 DEF Plain, Clash
  <2>7. PICK q : q = Gets(req[r], "commitPayment", row)
    OBVIOUS
  <2>8. q.at = "commitPayment" /\ q.own = Append(req[r].own, row) /\ q.op = req[r].op /\ q.amount = req[r].amount
        /\ q.fuel = req[r].fuel
    BY <1>1, <2>7 DEF Request, Gets
  <2>9. Len(q.own) = 2 /\ q.own[1] = first /\ q.own[2] = row
    BY <2>1, <2>8
  <2>10. Plays(q) /\ "commitPayment" \in Steps
    BY <1>5, <2>8 DEF Plays
  <2>11. Inserts(q)
    BY <2>1, <2>2, <2>5, <2>6, <2>8, <2>9 DEF Inserts, PostSteps
  <2>12. \A i \in DOMAIN req[r].own : ~Clash(row, req[r].own[i])
    BY <2>1, <2>6
  <2> QED BY <1>6, <2>4, <2>5, <2>7, <2>10, <2>11, <2>12, InsertDoes
<1> QED BY <1>8, <1>10, <1>11, <1>12

LEMMA CommitPaymentDoes ==
  ASSUME Base, NEW r \in Requests, CommitPayment(r), UNCHANGED <<customer, booked, mix>>
  PROVE  Does(r) /\ Turn(r, Idle) /\ Commits(r)
<1>1. /\ req[r] \in Request /\ req[r].op \in PayOps /\ req[r].amount \in 0 .. MaxAmount
      /\ req[r].fuel \in 0 .. MaxAmount /\ req[r].key \in CallKeys /\ req[r].seen \in Nat
      /\ req[r].op # "vendorPayment" => req[r].amount > 0
  <2>1. req[r].at = "commitPayment"
    BY DEF CommitPayment
  <2>2. req[r] \in Request /\ req[r].op \in PayOps
    BY <2>1, WhereItIs DEF Fits, PaySteps
  <2> QED BY <2>2, WhereItIs DEF Brings
<1>2. Turn(r, Idle)
  <2>1. CASE req[r].fuel > 0
    BY <2>1, AgingTurns, IdleIsIdle DEF CommitPayment
  <2>2. CASE ~(req[r].fuel > 0)
    BY <2>2, Turns, IdleIsIdle DEF CommitPayment
  <2> QED BY <2>1, <2>2
<1>3. Commits(r)
  <2>1. ~Idle.files
    BY DEF Idle
  <2> QED BY <1>2, <2>1, IdleIsIdle DEF CommitPayment, Commits, Turn
<1>4. rows' \in Seq(Row) /\ Len(rows)' = Len(rows) + Len(req[r].own) /\ Len(rows)' <= MaxRows
      /\ DOMAIN rows \subseteq DOMAIN rows' /\ \A i \in DOMAIN rows : rows'[i] = rows[i]
  BY <1>3, SeenIsRows DEF Commits
<1>5. Len(req[r].own) >= 1 /\ Len(rows) \in Nat /\ Len(advances) \in Nat /\ Len(bills) \in Nat
      /\ Len(advances) <= Len(rows) /\ Len(req[r].own) \in Nat
  <2>1. req[r].own # << >>
    <3>1. req[r].at = "commitPayment" /\ Inserts(req[r])
      BY WhereItIs DEF CommitPayment
    <3>2. (\E row \in Row : req[r].own = <<row>>) \/ Len(req[r].own) = 2
      BY <3>1 DEF Inserts
    <3>3. Len(<< >>) # 2 /\ \A row : <<row>> # << >>
      OBVIOUS
    <3> QED BY <3>2, <3>3, Zenon
  <2> QED BY <1>1, <2>1 DEF Base, Tables, Request
<1>6. book' \in Nat /\ balance' \in Int
  <2>1. book \in Nat /\ balance \in Int /\ req[r].seen \in Nat /\ req[r].amount \in Nat /\ req[r].fuel \in Nat
    BY <1>1 DEF Base, Tables
  <2> QED BY <2>1 DEF CommitPayment
<1>7. /\ advances' \in Seq(AdvanceRow) /\ Len(advances)' <= Len(rows)'
      /\ DOMAIN advances \subseteq DOMAIN advances'
  <2>1. advances \in Seq(AdvanceRow)
    BY DEF Base, Tables
  <2>2. CASE req[r].op # "ownerAdvance"
    BY <1>4, <1>5, <2>1, <2>2 DEF CommitPayment
  <2>3. CASE req[r].op = "ownerAdvance"
    <3>1. PICK new : new = [amount |-> req[r].amount, ref |-> req[r].key, adjusted |-> 0, answered |-> 0]
      OBVIOUS
    <3>2. new \in AdvanceRow
      BY <1>1, <2>3, <3>1, LedgerAssumption DEF AdvanceRow, Amounts
    <3>3. advances' = Append(advances, new)
      BY <2>3, <3>1 DEF CommitPayment
    <3> QED BY <1>4, <1>5, <2>1, <3>2, <3>3
  <2> QED BY <2>2, <2>3
<1>8. fuels' \in Seq(FuelRow) /\ \A i \in DOMAIN fuels' : fuels'[i].bill <= Len(bills)
  <2>1. fuels \in Seq(FuelRow) /\ \A i \in DOMAIN fuels : fuels[i].bill <= Len(bills)
    BY DEF Base, Tables
  <2>2. CASE ~(req[r].fuel > 0)
    BY <2>1, <2>2 DEF CommitPayment
  <2>3. CASE req[r].fuel > 0
    <3>1. PICK new : new = [amount |-> req[r].fuel, receipt |-> None, bill |-> 0]
      OBVIOUS
    <3>2. new \in FuelRow /\ new.bill = 0
      BY <1>1, <2>3, <3>1, LedgerAssumption DEF FuelRow, Amounts, CallKeys
    <3>3. fuels' = Append(fuels, new)
      BY <2>3, <3>1 DEF CommitPayment, Booked
    <3>4. \A i \in DOMAIN fuels' : (i \in DOMAIN fuels /\ fuels'[i] = fuels[i]) \/ fuels'[i] = new
      BY <2>1, <3>3
    <3> QED BY <1>5, <2>1, <3>2, <3>3, <3>4
  <2> QED BY <2>2, <2>3
<1>9. UNCHANGED <<hire, bills, pays, customer, booked, mix>>
  BY DEF CommitPayment
<1>10. Tables'
  BY <1>4, <1>6, <1>7, <1>8, <1>9 DEF Base, Tables, customer
<1>11. Grows
  BY <1>4, <1>5, <1>7, <1>9 DEF Grows
<1>12. Edits(r)
  BY <1>2, <1>9 DEF Edits, Turn, Idle
<1> QED BY <1>2, <1>3, <1>9, <1>10, <1>11, <1>12, IdleDoes

LEMMA AdvanceDoes ==
  ASSUME Base, NEW r \in Requests, LockAdvance(r) \/ CheckUnadjusted(r) \/ WriteAdjusted(r),
         UNCHANGED <<customer, pump, booked, mix>>
  PROVE  Does(r)
<1>1. /\ req[r].own = << >> /\ req[r].op = "adjust" /\ req[r].pick \in DOMAIN advances
      /\ req[r].amount \in Amounts /\ req[r].seen \in Nat
  <2>1. req[r].at \in AdvanceSteps
    BY DEF LockAdvance, CheckUnadjusted, WriteAdjusted, AdvanceSteps
  <2>2. req[r].own = << >> /\ req[r].op = "adjust"
    BY <2>1, WhereItIs DEF Fits, AdvanceSteps, PostSteps
  <2> QED BY <2>2, WhereItIs DEF Brings
<1>2. advances \in Seq(AdvanceRow) /\ Len(advances) <= Len(rows) /\ Len(rows) <= MaxRows
      /\ Len(rows) \in Nat /\ advances[req[r].pick] \in AdvanceRow
  BY <1>1 DEF Base, Tables
<1>3. \A l \in {"unadjusted", "adjust"} :
        /\ Fits(l, req[r].op) /\ l \in Steps
        /\ l \notin PostSteps \cup {"idle", "commitPayment"} \cup ReceiptSteps
  BY <1>1 DEF Fits, Steps, ReceiptSteps, ReverseSteps, PostSteps, PaySteps, HireSteps,
         AdvanceSteps, FuelSteps, PayPumpSteps, BillSteps
<1>4. CASE LockAdvance(r)
  <2>1. req[r].pick \in 1 .. MaxRows
    BY <1>1, <1>2, LedgerAssumption
  <2>2. Advance(req[r].pick) \in Lockable
    BY <2>1 DEF Lockable
  <2>3. LockRow(r, Advance(req[r].pick), "unadjusted") /\ UNCHANGED vendor
        /\ Advance(req[r].pick) # Financial
    BY <1>4 DEF LockAdvance, Advance, Financial
  <2> QED BY <1>1, <1>3, <2>2, <2>3, GoDoes
<1>5. CASE CheckUnadjusted(r)
  <2>1. UNCHANGED <<customer, vendor, pump, booked, mix>>
    BY <1>5 DEF CheckUnadjusted
  <2>2. CASE Refuse(r)
    BY <2>1, <2>2, RefuseDoes
  <2>3. CASE ~Refuse(r)
    <3>1. PICK n \in Nat : n = advances[req[r].pick].adjusted
      BY <1>2 DEF AdvanceRow
    <3>2. PICK q : q = Notes(req[r], "adjust", n)
      OBVIOUS
    <3>3. req' = [req EXCEPT ![r] = q] /\ UNCHANGED <<rows, held, filed>>
      BY <1>5, <2>3, <3>1, <3>2 DEF CheckUnadjusted, Notes, Base, Playing
    <3> QED BY <1>1, <1>3, <2>1, <3>2, <3>3, NoteDoes
  <2> QED BY <2>2, <2>3
<1>6. CASE WriteAdjusted(r)
  <2>1. Turn(r, Idle) /\ Stays(r) /\ rows' = rows /\ UNCHANGED <<hire, book>>
    BY <1>6, RefuseTurns DEF WriteAdjusted
  <2>2. advances' \in Seq(AdvanceRow) /\ Len(advances)' = Len(advances)
    <3>1. PICK new : new = [advances[req[r].pick] EXCEPT !.adjusted = req[r].seen + req[r].amount,
                                                         !.answered = @ + req[r].amount]
      OBVIOUS
    <3>2. new \in AdvanceRow
      <4>1. req[r].seen \in Nat /\ req[r].amount \in Nat /\ advances[req[r].pick].answered \in Nat
        BY <1>1, <1>2, CallTypes DEF AdvanceRow
      <4>2. PICK m \in Nat, n \in Nat : /\ m = req[r].seen + req[r].amount
                                        /\ n = advances[req[r].pick].answered + req[r].amount
        BY <4>1
      <4>3. new = [advances[req[r].pick] EXCEPT !.adjusted = m, !.answered = n]
        BY <3>1, <4>2
      <4> QED BY <1>2, <4>3 DEF AdvanceRow
    <3>3. advances' = [advances EXCEPT ![req[r].pick] = new]
      BY <1>1, <1>2, <1>6, <3>1 DEF WriteAdjusted
    <3> QED BY <1>1, <1>2, <3>2, <3>3
  <2>3. Tables'
    BY <2>1, <2>2 DEF Base, Tables, customer, pump
  <2>4. Grows
    <3>1. Len(bills) \in Nat
      BY DEF Base, Tables
    <3>2. DOMAIN advances' = DOMAIN advances
      BY <1>2, <2>2
    <3> QED BY <2>1, <3>1, <3>2 DEF Grows, pump
  <2>5. Edits(r)
    BY <2>1 DEF Edits, Turn, Idle
  <2> QED BY <2>1, <2>3, <2>4, <2>5, IdleDoes
<1> QED BY <1>4, <1>5, <1>6

\* What the pump's operations bring.
LEMMA PumpCalls ==
  ASSUME Base, NEW r \in Requests, req[r].at \in FuelSteps \cup PayPumpSteps \cup BillSteps
  PROVE  /\ req[r] \in Request /\ req[r].own = << >>
         /\ req[r].at \in FuelSteps => /\ req[r].op = "recordFuel" /\ req[r].amount \in Amounts
                                       /\ req[r].key \in CallKeys
         /\ req[r].at \in PayPumpSteps => /\ req[r].op = "payPump" /\ req[r].amount \in Amounts
                                          /\ req[r].key \in CallKeys /\ req[r].pick \in 0 .. Len(bills)
         /\ req[r].at \in BillSteps => req[r].op = "billPump" /\ req[r].key \in Periods
<1>1. req[r] \in Request /\ Fits(req[r].at, req[r].op) /\ Brings(req[r])
  BY WhereItIs
<1>2. req[r].own = << >>
  BY WhereItIs DEF FuelSteps, PayPumpSteps, BillSteps, PostSteps
<1> QED BY <1>1, <1>2 DEF Fits, Brings

LEMMA PumpGoes ==
  ASSUME Base, NEW r \in Requests, UNCHANGED <<customer, vendor, booked, mix>>,
         \/ FuelKey(r) \/ PayKey(r)
         \/ PayWrite(r) /\ req[r].stale
         \/ BillWrite(r) /\ req[r].stale
  PROVE  /\ Does(r) /\ UNCHANGED <<rows, pump>>
         /\ \/ Turn(r, Idle)
            \/ \E l \in {"fuelWrite", "payRead", "payKey", "billRead"} :
                 Turn(r, [req[r] EXCEPT !.at = l])
<1>1. req[r].at \in FuelSteps \cup PayPumpSteps \cup BillSteps
  BY DEF FuelKey, PayKey, PayWrite, BillWrite, FuelSteps, PayPumpSteps, BillSteps
<1>2. req[r].own = << >>
  BY <1>1, PumpCalls
<1>3. UNCHANGED <<rows, customer, vendor, pump, booked, mix>>
  BY DEF FuelKey, PayKey, PayWrite, BillWrite, Refuse
<1>4. CASE Refuse(r)
  BY <1>3, <1>4, RefuseDoes
<1>5. ASSUME NEW l \in {"fuelWrite", "payRead", "payKey", "billRead"}, Goto(r, l),
             UNCHANGED <<rows, held, filed>>, Fits(l, req[r].op)
      PROVE  Does(r) /\ Turn(r, [req[r] EXCEPT !.at = l])
  <2>1. l \in Steps
    BY DEF Steps
  <2> QED BY <1>2, <1>3, <1>5, <2>1, GoDoes
<1>6. \/ Refuse(r)
      \/ Goto(r, "fuelWrite") /\ UNCHANGED <<rows, held, filed>> /\ req[r].at = "fuelKey"
      \/ Goto(r, "payRead") /\ UNCHANGED <<rows, held, filed>> /\ req[r].at = "payKey"
      \/ Goto(r, "payKey") /\ UNCHANGED <<rows, held, filed>> /\ req[r].at = "payWrite"
      \/ Goto(r, "billRead") /\ UNCHANGED <<rows, held, filed>> /\ req[r].at = "billWrite"
  BY DEF FuelKey, PayKey, PayWrite, BillWrite
<1>7. /\ req[r].at = "fuelKey" => req[r].op = "recordFuel"
      /\ req[r].at \in {"payKey", "payWrite"} => req[r].op = "payPump"
      /\ req[r].at = "billWrite" => req[r].op = "billPump"
  BY <1>1, PumpCalls DEF FuelSteps, PayPumpSteps, BillSteps
<1>8. /\ Fits("fuelWrite", "recordFuel") /\ Fits("payRead", "payPump")
      /\ Fits("payKey", "payPump") /\ Fits("billRead", "billPump")
  BY DEF Fits, ReceiptSteps, ReverseSteps, PostSteps, PaySteps, HireSteps,
         AdvanceSteps, FuelSteps, PayPumpSteps, BillSteps
<1> QED BY <1>3, <1>4, <1>5, <1>6, <1>7, <1>8

\* A snapshot of the pump's account.
Reads(p, l, n, a) == [p EXCEPT !.at = l, !.seen = n, !.amount = a, !.stale = FALSE]

LEMMA ReadDoes ==
  ASSUME Base, NEW r \in Requests, NEW l \in {"payWrite", "billWrite"}, NEW n \in Int, NEW a \in Nat,
         NEW q, q = Reads(req[r], l, n, a), req' = [req EXCEPT ![r] = q],
         req[r].at = IF l = "payWrite" THEN "payRead" ELSE "billRead",
         l = "payWrite" => a = req[r].amount,
         UNCHANGED <<rows, held, filed, customer, vendor, pump, booked, mix>>
  PROVE  Does(r) /\ Turn(r, q)
<1>1. req[r].at \in FuelSteps \cup PayPumpSteps \cup BillSteps
  BY DEF FuelSteps, PayPumpSteps, BillSteps
<1>2. /\ req[r] \in Request /\ req[r].own = << >>
      /\ l = "payWrite" => /\ req[r].op = "payPump" /\ req[r].amount \in Amounts
                           /\ req[r].key \in CallKeys /\ req[r].pick \in 0 .. Len(bills)
      /\ l = "billWrite" => req[r].op = "billPump" /\ req[r].key \in Periods
  BY <1>1, PumpCalls DEF PayPumpSteps, BillSteps
<1>3. /\ q \in Request /\ q.at = l /\ q.op = req[r].op /\ q.own = req[r].own /\ q.key = req[r].key
      /\ q.amount = a /\ q.pick = req[r].pick /\ q.files = req[r].files
  <2>1. l \in Steps /\ FALSE \in BOOLEAN
    BY DEF Steps
  <2> QED BY <1>2, <2>1 DEF Reads, Request
<1>4. Turn(r, q)
  BY <1>3, Turns
<1>5. Stays(r)
  BY <1>3, <1>4 DEF Stays, Turn, Base, LocksApart
<1>6. Plays(q)
  BY <1>2, <1>3 DEF Plays, Fits, ReceiptSteps, ReverseSteps, PostSteps, PaySteps, HireSteps,
         AdvanceSteps, FuelSteps, PayPumpSteps, BillSteps
<1>7. Brings(q)
  BY <1>2, <1>3 DEF Brings, Receipts, PayOps, HireSteps
<1>8. Inserts(q)
  BY <1>2, <1>3 DEF Inserts, PostSteps
<1>9. q.op # "editHire"
  BY <1>2, <1>3
<1> QED BY <1>3, <1>4, <1>5, <1>6, <1>7, <1>8, <1>9, TablesSame, TurnDoes DEF vendor, pump

LEMMA FuelAmounts ==
  ASSUME Base
  PROVE  fuels \in Seq(FuelRow) /\ \A n \in 1 .. Len(fuels) : fuels[n].amount \in Nat
<1>1. fuels \in Seq(FuelRow)
  BY DEF Base, Tables
<1>2. \A n \in 1 .. Len(fuels) : fuels[n] \in FuelRow
  BY <1>1
<1> QED BY <1>1, <1>2, CallTypes DEF FuelRow

LEMMA PumpReads ==
  ASSUME Base, NEW r \in Requests, PayRead(r) \/ BillRead(r), UNCHANGED <<customer, vendor, booked, mix>>
  PROVE  /\ Does(r) /\ UNCHANGED <<rows, pump>>
         /\ \/ Turn(r, Idle)
            \/ /\ req[r].at = "payRead"
               /\ req[r].pick # 0 => req[r].amount <= Outstanding(req[r].pick)
               /\ Turn(r, Reads(req[r], "payWrite", balance, req[r].amount))
            \/ /\ req[r].at = "billRead"
               /\ Turn(r, Reads(req[r], "billWrite", Len(fuels), Sum(fuels, Unbilled)))
<1>1. UNCHANGED <<rows, customer, vendor, pump, booked, mix>>
  BY DEF PayRead, BillRead, Refuse
<1>2. CASE Refuse(r)
  BY <1>1, <1>2, RefuseDoes
<1>3. req[r].at \in FuelSteps \cup PayPumpSteps \cup BillSteps /\ req \in [Requests -> Request]
  BY DEF PayRead, BillRead, FuelSteps, PayPumpSteps, BillSteps, Base, Playing
<1>4. CASE PayRead(r) /\ ~Refuse(r)
  <2>1. req[r].amount \in Amounts /\ balance \in Int
    BY <1>3, <1>4, PumpCalls DEF PayRead, PayPumpSteps, Base, Tables
  <2>2. PICK q : q = Reads(req[r], "payWrite", balance, req[r].amount)
    OBVIOUS
  <2>3. /\ req[r].at = "payRead" /\ UNCHANGED <<rows, held, filed>>
        /\ req[r].pick # 0 => ~(req[r].amount > Outstanding(req[r].pick))
        /\ req' = [req EXCEPT ![r].at = "payWrite", ![r].seen = balance, ![r].stale = FALSE]
    BY <1>4 DEF PayRead
  <2>4. q = [req[r] EXCEPT !.at = "payWrite", !.seen = balance, !.stale = FALSE]
    <3>1. req[r] \in Request
      BY <1>3
    <3> QED BY <2>2, <3>1 DEF Reads, Request
  <2>5. req' = [req EXCEPT ![r] = q]
    BY <1>3, <2>3, <2>4
  <2>6. req[r].amount \in Nat
    BY <2>1, CallTypes
  <2>7. Does(r) /\ Turn(r, q)
    BY <1>1, <2>1, <2>2, <2>3, <2>5, <2>6, ReadDoes
  <2>8. req[r].pick # 0 => req[r].amount <= Outstanding(req[r].pick)
    <3> SUFFICES ASSUME req[r].pick # 0  PROVE req[r].amount <= Outstanding(req[r].pick)
      OBVIOUS
    <3>1. req[r].pick \in DOMAIN bills /\ bills \in Seq(BillRow)
      BY <1>3, <2>3, PumpCalls DEF PayPumpSteps, Base, Tables
    <3>2. bills[req[r].pick] \in BillRow
      BY <3>1
    <3>3. Outstanding(req[r].pick) \in Int
      BY <3>2 DEF Outstanding, BillRow
    <3> QED BY <2>3, <2>6, <3>3
  <2> QED BY <1>1, <2>2, <2>3, <2>7, <2>8
<1>5. CASE BillRead(r) /\ ~Refuse(r)
  <2>1. PICK n \in Nat, a \in Nat : n = Len(fuels) /\ a = Sum(fuels, Unbilled)
    BY FuelAmounts, SumNat
  <2>2. PICK q : q = Reads(req[r], "billWrite", n, a)
    OBVIOUS
  <2>3. /\ req[r].at = "billRead" /\ UNCHANGED <<rows, held, filed>>
        /\ req' = [req EXCEPT ![r].at = "billWrite", ![r].stale = FALSE, ![r].seen = n, ![r].amount = a]
    BY <1>5, <2>1 DEF BillRead
  <2>4. req' = [req EXCEPT ![r] = q]
    BY <1>3, <2>2, <2>3 DEF Reads
  <2>5. n \in Int
    BY <2>1
  <2>6. Does(r) /\ Turn(r, q)
    BY <1>1, <2>1, <2>5, <2>2, <2>3, <2>4, ReadDoes
  <2> QED BY <1>1, <2>1, <2>2, <2>3, <2>6
<1> QED BY <1>2, <1>4, <1>5

LEMMA FuelWriteDoes ==
  ASSUME Base, NEW r \in Requests, FuelWrite(r), UNCHANGED <<customer, vendor, booked, mix>>
  PROVE  Does(r) /\ Turn(r, Idle) /\ rows' = rows
<1>1. req[r].at \in FuelSteps
  BY DEF FuelWrite, FuelSteps
<1>2. req[r].amount \in Amounts /\ req[r].key \in CallKeys /\ req[r].amount \in Nat
  BY <1>1, PumpCalls, CallTypes
<1>3. CASE Refuse(r) /\ UNCHANGED pump
  BY <1>3, RefuseDoes
<1>4. CASE ~(Refuse(r) /\ UNCHANGED pump)
  <2>1. /\ fuels' = Booked(req[r].amount, req[r].key) /\ balance' = balance + req[r].amount
        /\ req' = Age(r, [req EXCEPT ![r] = Idle], "payWrite")
        /\ UNCHANGED <<rows, held, filed, bills, pays>>
    BY <1>4 DEF FuelWrite
  <2>2. Turn(r, Idle)
    BY <2>1, AgingTurns, IdleIsIdle
  <2>3. Stays(r)
    BY <2>1, <2>2, IdleIsIdle DEF Stays, Turn, Base, LocksApart, Idle
  <2>4. fuels' \in Seq(FuelRow) /\ \A i \in DOMAIN fuels' : fuels'[i].bill <= Len(bills)
    <3>1. fuels \in Seq(FuelRow) /\ (\A i \in DOMAIN fuels : fuels[i].bill <= Len(bills)) /\ Len(bills) \in Nat
      BY DEF Base, Tables
    <3>2. PICK new : new = [amount |-> req[r].amount, receipt |-> req[r].key, bill |-> 0]
      OBVIOUS
    <3>3. new \in FuelRow /\ new.bill = 0
      BY <1>2, <3>2 DEF FuelRow
    <3>4. fuels' = Append(fuels, new)
      BY <2>1, <3>2 DEF Booked
    <3>5. \A i \in DOMAIN fuels' : (i \in DOMAIN fuels /\ fuels'[i] = fuels[i]) \/ fuels'[i] = new
      BY <3>1, <3>4
    <3> QED BY <3>1, <3>3, <3>4, <3>5
  <2>5. Tables'
    BY <1>2, <2>1, <2>4 DEF Base, Tables, customer, vendor
  <2>6. Len(bills) \in Nat
    BY DEF Base, Tables
  <2>7. Grows
    BY <2>1, <2>6 DEF Grows, vendor
  <2>8. Edits(r)
    BY <2>2 DEF Edits, Turn, Idle, vendor
  <2> QED BY <2>1, <2>2, <2>3, <2>5, <2>7, <2>8, IdleDoes
<1> QED BY <1>3, <1>4

LEMMA PayAsDoes ==
  ASSUME Base, NEW r \in Requests, req[r].at = "payWrite", PayAs(r), UNCHANGED <<customer, vendor, booked, mix>>
  PROVE  Does(r) /\ Turn(r, Idle) /\ rows' = rows
<1>1. req[r].at \in PayPumpSteps
  BY DEF PayPumpSteps
<1>2. req[r].amount \in Amounts /\ req[r].key \in CallKeys /\ req[r].pick \in 0 .. Len(bills)
      /\ req[r].amount \in Nat /\ req[r].seen \in Int
  BY <1>1, PumpCalls, CallTypes DEF Request
<1>3. Turn(r, Idle) /\ UNCHANGED <<rows, held, filed, fuels>> /\ ~Idle.files
  BY AgingTurns, IdleIsIdle DEF PayAs, Idle
<1>4. Stays(r)
  BY <1>3, IdleIsIdle DEF Stays, Turn, Base, LocksApart
<1>5. /\ bills \in Seq(BillRow) /\ pays \in Seq(PayRow) /\ Len(bills) \in Nat
      /\ \A i \in DOMAIN pays : pays[i].bill <= Len(bills)
      /\ \A i \in DOMAIN fuels : fuels[i].bill <= Len(bills)
  BY DEF Base, Tables
<1>6. bills' \in Seq(BillRow) /\ Len(bills)' = Len(bills)
  <2>1. CASE req[r].pick = 0
    BY <1>5, <2>1 DEF PayAs
  <2>2. CASE req[r].pick # 0
    <3>1. req[r].pick \in DOMAIN bills /\ bills[req[r].pick] \in BillRow
      BY <1>2, <1>5, <2>2
    <3>2. PICK n \in Nat : n = bills[req[r].pick].paid + req[r].amount
      BY <1>2, <3>1 DEF BillRow
    <3>3. PICK new : new = [bills[req[r].pick] EXCEPT !.paid = n]
      OBVIOUS
    <3>4. new \in BillRow
      BY <3>1, <3>3 DEF BillRow
    <3>5. bills' = [bills EXCEPT ![req[r].pick] = new]
      BY <2>2, <3>1, <3>2, <3>3 DEF PayAs
    <3> QED BY <1>5, <3>1, <3>4, <3>5
  <2> QED BY <2>1, <2>2
<1>7. pays' \in Seq(PayRow) /\ \A i \in DOMAIN pays' : pays'[i].bill <= Len(bills)
  <2>1. PICK new : new = [amount |-> req[r].amount, bill |-> req[r].pick, key |-> req[r].key]
    OBVIOUS
  <2>2. new \in PayRow /\ new.bill <= Len(bills)
    BY <1>2, <1>5, <2>1 DEF PayRow
  <2>3. pays' = Append(pays, new)
    BY <2>1 DEF PayAs
  <2>4. \A i \in DOMAIN pays' : (i \in DOMAIN pays /\ pays'[i] = pays[i]) \/ pays'[i] = new
    BY <1>5, <2>3
  <2> QED BY <1>5, <2>2, <2>3, <2>4
<1>8. balance' \in Int
  BY <1>2 DEF PayAs
<1>9. Tables'
  BY <1>3, <1>5, <1>6, <1>7, <1>8 DEF Base, Tables, customer, vendor
<1>10. Grows
  BY <1>3, <1>5, <1>6 DEF Grows, vendor
<1>11. Edits(r)
  BY <1>3 DEF Edits, Turn, Idle, vendor
<1> QED BY <1>3, <1>4, <1>9, <1>10, <1>11, IdleDoes

LEMMA BillAsDoes ==
  ASSUME Base, NEW r \in Requests, req[r].at = "billWrite", BillAs(r), UNCHANGED <<customer, vendor, booked, mix>>
  PROVE  Does(r) /\ Turn(r, Idle) /\ rows' = rows
<1>1. req[r].at \in BillSteps
  BY DEF BillSteps
<1>2. req[r].key \in Periods /\ req[r].amount \in Nat /\ req[r].seen \in Int /\ req[r].adjustment \in Int
  BY <1>1, PumpCalls DEF Request
<1>3. Turn(r, Idle) /\ UNCHANGED <<rows, held, filed, pays, balance>> /\ ~Idle.files
  BY AgingTurns, IdleIsIdle DEF BillAs, Idle
<1>4. Stays(r)
  BY <1>3, IdleIsIdle DEF Stays, Turn, Base, LocksApart
<1>5. /\ bills \in Seq(BillRow) /\ fuels \in Seq(FuelRow) /\ pays \in Seq(PayRow) /\ Len(bills) \in Nat
      /\ \A i \in DOMAIN pays : pays[i].bill <= Len(bills)
      /\ \A i \in DOMAIN fuels : fuels[i].bill <= Len(bills)
  BY DEF Base, Tables
<1>6. bills' \in Seq(BillRow) /\ Len(bills)' = Len(bills) + 1
  <2>0. PICK n \in Int : n = req[r].amount + req[r].adjustment
    BY <1>2
  <2>1. PICK new : new = [period |-> req[r].key, adjustment |-> req[r].adjustment,
                         amount |-> n, paid |-> 0]
    OBVIOUS
  <2>2. new \in BillRow
    BY <1>2, <2>1 DEF BillRow
  <2>3. bills' = Append(bills, new)
    BY <2>0, <2>1 DEF BillAs
  <2> QED BY <1>5, <2>2, <2>3
<1>7. fuels' \in Seq(FuelRow) /\ \A i \in DOMAIN fuels' : fuels'[i].bill <= Len(bills) + 1
  <2>1. PICK n \in Nat : n = Len(bills) + 1
    BY <1>5
  <2>7. /\ DOMAIN fuels = 1 .. Len(fuels)
        /\ fuels' = [i \in DOMAIN fuels |-> IF i \in Unbilled /\ i <= req[r].seen
                                           THEN [fuels[i] EXCEPT !.bill = Len(bills) + 1] ELSE fuels[i]]
    BY <1>5 DEF BillAs
  <2>2. DOMAIN fuels' = 1 .. Len(fuels) /\ fuels' = [i \in 1 .. Len(fuels) |-> fuels'[i]]
    BY <2>7
  <2>3. \A i \in 1 .. Len(fuels) : fuels'[i] = fuels[i] \/ fuels'[i] = [fuels[i] EXCEPT !.bill = n]
    BY <2>1, <2>7
  <2>4. \A i \in 1 .. Len(fuels) : fuels[i] \in FuelRow /\ fuels[i].bill <= Len(bills)
    BY <1>5
  <2>5. \A i \in 1 .. Len(fuels) : fuels'[i] \in FuelRow /\ fuels'[i].bill <= n
    <3> SUFFICES ASSUME NEW i \in 1 .. Len(fuels)  PROVE fuels'[i] \in FuelRow /\ fuels'[i].bill <= n
      OBVIOUS
    <3>1. fuels[i] \in FuelRow /\ fuels[i].bill <= Len(bills) /\ fuels[i].bill \in Nat
      BY <2>4 DEF FuelRow
    <3>2. CASE fuels'[i] = fuels[i]
      BY <1>5, <2>1, <3>1, <3>2
    <3>3. CASE fuels'[i] = [fuels[i] EXCEPT !.bill = n]
      BY <2>1, <3>1, <3>3 DEF FuelRow
    <3> QED BY <2>3, <3>2, <3>3
  <2>6. fuels' \in Seq(FuelRow)
    <3>1. PICK m \in Nat : m = Len(fuels)
      BY <1>5
    <3>2. fuels' \in [1 .. m -> FuelRow]
      BY <2>2, <2>5, <3>1
    <3> QED BY <3>2
  <2> QED BY <2>1, <2>2, <2>5, <2>6
<1>8. pays' = pays /\ \A i \in DOMAIN pays : pays[i].bill <= Len(bills) + 1
  <2>1. \A i \in DOMAIN pays : pays[i] \in PayRow
    BY <1>5
  <2>2. \A i \in DOMAIN pays : pays[i].bill \in Nat
    BY <2>1 DEF PayRow
  <2> QED BY <1>3, <1>5, <2>2
<1>9. Tables'
  BY <1>3, <1>5, <1>6, <1>7, <1>8 DEF Base, Tables, customer, vendor
<1>10. Grows
  BY <1>3, <1>5, <1>6 DEF Grows, vendor
<1>11. Edits(r)
  BY <1>3 DEF Edits, Turn, Idle, vendor
<1> QED BY <1>3, <1>4, <1>9, <1>10, <1>11, IdleDoes

\* A receipt from the start.
Again(p) == [Idle EXCEPT !.op = "receipt", !.at = "key", !.key = p.key, !.amount = p.amount]

LEMMA TryAgainDoes ==
  ASSUME Base, NEW r \in Requests, TryAgain(r), UNCHANGED <<booked, mix>>
  PROVE  /\ Does(r) /\ Turn(r, Again(req[r])) /\ rows' = rows /\ held' = [held EXCEPT ![r] = {}]
         /\ UNCHANGED <<customer, vendor, pump>>
<1>1. req[r].op = "receipt" /\ req[r].amount \in Amounts /\ req[r].key \in CallKeys
      /\ req[r].amount \in Nat /\ req[r].key \in CallKeys \cup Periods
  <2>1. req[r].op = "receipt" /\ Brings(req[r])
    BY WhereItIs DEF TryAgain
  <2> QED BY <2>1, CallTypes DEF Brings, Receipts
<1>2. PICK q : q = Again(req[r])
  OBVIOUS
<1>3. q = [Idle EXCEPT !.op = "receipt", !.at = "key", !.key = req[r].key, !.amount = req[r].amount]
  BY <1>2 DEF Again
<1>4. q \in Request
  <2>1. "receipt" \in Ops /\ "key" \in Steps
    BY DEF Ops, Receipts, Steps
  <2> QED BY <1>1, <1>3, <2>1, IdleIsIdle DEF Request
<1>5. q.at = "key" /\ q.op = "receipt" /\ q.key = req[r].key /\ q.amount = req[r].amount /\ q.own = << >> /\ ~q.files
  BY <1>3 DEF Idle
<1>6. req' = [req EXCEPT ![r] = q] /\ held' = [held EXCEPT ![r] = {}]
      /\ UNCHANGED <<rows, filed, customer, vendor, pump, booked, mix>>
  BY <1>3 DEF TryAgain
<1>7. Turn(r, q)
  BY <1>4, <1>6, Turns
<1>8. Stays(r)
  BY <1>5, <1>6, <1>7 DEF Stays, Turn, Base, LocksApart, Others
<1>9. Plays(q)
  BY <1>5 DEF Plays, Fits, Receipts, ReceiptSteps, ReverseSteps, PostSteps, PaySteps, HireSteps,
         AdvanceSteps, FuelSteps, PayPumpSteps, BillSteps
<1>10. Brings(q)
  BY <1>1, <1>5 DEF Brings, PayOps, HireSteps
<1>11. Inserts(q)
  BY <1>5 DEF Inserts, PostSteps
<1>12. Does(r)
  BY <1>4, <1>5, <1>6, <1>7, <1>8, <1>9, <1>10, <1>11, TablesSame, TurnDoes DEF vendor, pump
<1> QED BY <1>2, <1>6, <1>7, <1>12

LEMMA RollBackDoes ==
  ASSUME Base, NEW r \in Requests, RollBack(r), UNCHANGED <<booked, mix>>
  PROVE  /\ Does(r) /\ Turn(r, Idle) /\ rows' = rows /\ held' = [held EXCEPT ![r] = {}]
         /\ UNCHANGED <<customer, vendor, pump>>
<1>1. Refuse(r) /\ UNCHANGED <<customer, vendor, pump, booked, mix>>
  BY DEF RollBack, Refuse
<1> QED BY <1>1, RefuseDoes

-----------------------------------------------------------------------------
(***************************************************************************)
(* Every step is a step of one request that does its part.                  *)
(***************************************************************************)

LEMMA StepDoes ==
  ASSUME Base, Next
  PROVE  \E r \in Requests : Does(r) /\ (Arrive(r) \/ Step(r)) /\ UNCHANGED <<booked, mix>>
<1>1. PICK r \in Requests : (Arrive(r) \/ Step(r)) /\ UNCHANGED <<booked, mix>>
  BY DEF Next
<1> SUFFICES Does(r)
  BY <1>1
<1>2. CASE Arrive(r)
  BY <1>1, <1>2, CustomerArrives, VendorArrives, PumpArrives DEF Arrive
<1>3. CASE CustomerStep(r) /\ UNCHANGED <<vendor, pump>>
  <2>1. UNCHANGED <<vendor, pump, booked, mix>>
    BY <1>1, <1>3
  <2>2. CASE CheckKey(r)
    BY <2>1, <2>2, CheckKeyDoes
  <2>3. CASE LockTripForReceipt(r) \/ LockInvoice(r) \/ LockFinancial(r)
    BY <2>1, <2>3, LockForReceiptDoes
  <2>4. CASE GuardAmount(r)
    BY <2>1, <2>4, GuardAmountDoes
  <2>5. CASE (LockEntry(r) \/ CheckReversible(r) \/ InsertReversal(r)) /\ UNCHANGED customer
    BY <2>1, <2>5, ReverseDoes, InsertReversalDoes
  <2>6. CASE InsertReceipt(r)
    BY <2>1, <2>6, InsertReceiptDoes
  <2>7. CASE SumReceipts(r)
    BY <2>1, <2>7, SumReceiptsDoes
  <2>8. CASE Stamp(r) \/ CommitUnbilled(r)
    BY <2>1, <2>8, PostDoes
  <2>9. CASE FindFinancial(r) \/ CreateFinancial(r)
    BY <2>1, <2>9, FindFinancialDoes, CreateFinancialDoes
  <2> QED BY <1>3, <2>2, <2>3, <2>4, <2>5, <2>6, <2>7, <2>8, <2>9 DEF CustomerStep
<1>4. CASE VendorStep(r) /\ UNCHANGED <<customer, pump>>
  <2>1. UNCHANGED <<customer, pump, booked, mix>>
    BY <1>1, <1>4
  <2>2. CASE AgreeHire(r) \/ EditHire(r) \/ ConfirmOrCancelHire(r)
    BY <2>1, <2>2, HireDoes
  <2>3. CASE CheckReference(r) \/ LockTripForPayment(r) \/ LockFinancialToPay(r)
    BY <2>1, <2>3, PaymentStepDoes
  <2>4. CASE CheckPosition(r)
    BY <2>1, <2>4, CheckPositionDoes
  <2>5. CASE InsertPayment(r)
    BY <2>1, <2>5, InsertPaymentDoes
  <2>6. CASE LockAdvance(r) \/ CheckUnadjusted(r) \/ WriteAdjusted(r)
    BY <2>1, <2>6, AdvanceDoes
  <2> QED BY <1>4, <2>2, <2>3, <2>4, <2>5, <2>6 DEF VendorStep
<1>5. CASE CommitPayment(r) /\ UNCHANGED customer
  BY <1>1, <1>5, CommitPaymentDoes
<1>6. CASE PumpStep(r) /\ UNCHANGED <<customer, vendor>>
  <2>1. UNCHANGED <<customer, vendor, booked, mix>>
    BY <1>1, <1>6
  <2>2. CASE FuelWrite(r)
    BY <2>1, <2>2, FuelWriteDoes
  <2>3. CASE PayRead(r) \/ BillRead(r)
    BY <2>1, <2>3, PumpReads
  <2>4. CASE FuelKey(r) \/ PayKey(r)
    BY <2>1, <2>4, PumpGoes
  <2>5. CASE PayWrite(r)
    <3>1. CASE req[r].stale
      BY <2>1, <2>5, <3>1, PumpGoes
    <3>2. CASE ~req[r].stale
      <4>1. req[r].at = "payWrite" /\ PayAs(r)
        BY <2>5, <3>2 DEF PayWrite
      <4> QED BY <2>1, <4>1, PayAsDoes
    <3> QED BY <3>1, <3>2
  <2>6. CASE BillWrite(r)
    <3>1. CASE req[r].stale
      BY <2>1, <2>6, <3>1, PumpGoes
    <3>2. CASE ~req[r].stale
      <4>1. req[r].at = "billWrite" /\ BillAs(r)
        BY <2>6, <3>2 DEF BillWrite
      <4> QED BY <2>1, <4>1, BillAsDoes
    <3> QED BY <3>1, <3>2
  <2> QED BY <1>6, <2>2, <2>3, <2>4, <2>5, <2>6 DEF PumpStep
<1>7. CASE RollBack(r)
  BY <1>1, <1>7, RollBackDoes
<1>8. CASE TryAgain(r)
  BY <1>1, <1>8, TryAgainDoes
<1> QED BY <1>1, <1>2, <1>3, <1>4, <1>5, <1>6, <1>7, <1>8 DEF Step

LEMMA BaseStarts ==
  ASSUME Init  PROVE Base
<1>1. rows = << >> /\ held = [r \in Requests |-> {}] /\ req = [r \in Requests |-> Idle]
      /\ invoice = "ABSENT" /\ lapped = FALSE
      /\ hire = [status |-> "NONE", net |-> 0, edits |-> 0] /\ book = 0 /\ advances = << >>
      /\ fuels = << >> /\ bills = << >> /\ pays = << >> /\ balance = 0 /\ mix \in {d.uses : d \in Days}
  BY DEF Init
<1>2. Tables
  <2>1. rows \in Seq(Row) /\ Len(rows) <= MaxRows /\ advances \in Seq(AdvanceRow)
        /\ Len(advances) <= Len(rows) /\ fuels \in Seq(FuelRow) /\ bills \in Seq(BillRow) /\ pays \in Seq(PayRow)
        /\ (\A i \in DOMAIN fuels : fuels[i].bill <= Len(bills))
        /\ (\A i \in DOMAIN pays : pays[i].bill <= Len(bills))
    BY <1>1, LedgerAssumption
  <2>2. hire \in [status : HireStates, net : Nets \cup {0}, edits : Nat]
    BY <1>1 DEF HireStates
  <2>3. invoice \in InvoiceStates /\ book \in Nat /\ balance \in Int /\ mix \in {d.uses : d \in Days}
    BY <1>1 DEF InvoiceStates
  <2>4. lapped \in BOOLEAN
    BY <1>1
  <2> QED BY <2>1, <2>2, <2>3, <2>4 DEF Tables
<1>3. EditsFit
  <2>1. {r \in Requests : req[r].op = "editHire"} = {}
    BY <1>1 DEF Idle
  <2>2. Coming("editHire") = 0
    BY <2>1, FS_EmptySet DEF Coming
  <2> QED BY <1>1, <2>2, VendorAssumption DEF EditsFit
<1>4. \A r \in Requests : req[r] = Idle /\ req[r].own = << >>
  BY <1>1, IdleIsIdle
<1>5. LocksApart
  BY <1>1 DEF LocksApart
<1>6. RowsApart
  BY <1>1, <1>4 DEF RowsApart
<1>7. Playing /\ Bringing /\ Inserting
  BY <1>1, <1>4, IdleIsIdle DEF Playing, Bringing, Inserting
<1>8. Filing
  <2>1. PICK d \in Days : booked = d.booked /\ filed = d.filed
    BY DEF Init
  <2>2. d.booked \in BOOLEAN /\ d.filed \in {0, 1}
    BY LedgerDays
  <2> QED BY <1>1, <1>4, <2>1, <2>2 DEF Filing, Idle
<1> QED BY <1>2, <1>3, <1>5, <1>6, <1>7, <1>8 DEF Base

LEMMA BaseStutters ==
  ASSUME Base, UNCHANGED vars  PROVE Base'
<1> USE DEF vars, ledger, customer, vendor, pump
<1>1. Tables' /\ EditsFit' /\ LocksApart' /\ RowsApart' /\ Filing'
  <2>1. Tables'
    BY DEF Base, Tables
  <2>2. EditsFit'
    BY DEF Base, EditsFit, Coming
  <2>3. LocksApart'
    BY DEF Base, LocksApart, Shared, Parent, Others
  <2>5. Filing'
    BY DEF Base, Filing, Others
  <2>4. RowsApart'
    BY DEF Base, RowsApart, Clash, Others
  <2> QED BY <2>1, <2>2, <2>3, <2>4, <2>5
<1>2. Playing'
  BY DEF Base, Playing, Plays, Fits
<1>3. Bringing'
  BY DEF Base, Bringing, Brings
<1>4. Inserting'
  BY DEF Base, Inserting, Inserts, Posting, Paying
<1> QED BY <1>1, <1>2, <1>3, <1>4 DEF Base

LEMMA BaseSteps ==
  ASSUME Base, [Next]_vars  PROVE Base'
<1>1. CASE Next
  BY <1>1, StepDoes, BaseKept
<1>2. CASE UNCHANGED vars
  BY <1>2, BaseStutters
<1> QED BY <1>1, <1>2

LEMMA BaseHolds == Spec => []Base
<1> QED BY BaseStarts, BaseSteps, PTL DEF Spec

LEMMA BaseTypes ==
  ASSUME Base  PROVE LedgerTypeOK
<1>1. \A r \in Requests : req[r].at \in Steps /\ req[r].own \in Seq(Row)
  BY DEF Base, Playing, Request
<1>2. \A r \in Requests : \A q \in Others(r) : held[q] \cap held[r] = {}
  BY DEF Base, LocksApart, Others
<1>3. hire \in [status : HireStates, net : Nets \cup {0}, edits : 0 .. MaxEdits]
  <2>1. IsFiniteSet({r \in Requests : req[r].op = "editHire"})
    BY LedgerAssumption, FS_Subset
  <2>2. Coming("editHire") \in Nat
    BY <2>1, FS_CardinalityType DEF Coming
  <2>3. hire \in [status : HireStates, net : Nets \cup {0}, edits : Nat]
        /\ hire.edits + Coming("editHire") <= MaxEdits
    BY DEF Base, Tables, EditsFit
  <2>4. hire.edits \in 0 .. MaxEdits
    BY <2>2, <2>3, VendorAssumption
  <2> QED BY <2>3, <2>4
<1>4. \A i \in DOMAIN fuels : fuels[i].bill \in 0 .. Len(bills)
  <2>1. fuels \in Seq(FuelRow) /\ \A i \in DOMAIN fuels : fuels[i].bill <= Len(bills)
    BY DEF Base, Tables
  <2>2. \A i \in DOMAIN fuels : fuels[i] \in FuelRow
    BY <2>1
  <2> QED BY <2>1, <2>2 DEF FuelRow
<1> QED BY <1>1, <1>2, <1>3, <1>4 DEF LedgerTypeOK, Base, Tables, LocksApart, RowsApart, Filing

\* The state keeps its types; no row is locked by two requests; and the unique indexes hold,
\* although every writer of the table looked for a clash before it inserted: for any number
\* of requests, keys and amounts.
THEOREM LedgerTypes == Spec => []LedgerTypeOK
<1>1. Base => LedgerTypeOK
  BY BaseTypes
<1> QED BY <1>1, BaseHolds, PTL

-----------------------------------------------------------------------------
(***************************************************************************)
(* What the promises share: how an operation goes from step to step, what a *)
(* step leaves of the other requests, and which rows a commit brings.        *)
(***************************************************************************)

LEMMA OthersSame ==
  ASSUME Base, NEW r \in Requests, Does(r), NEW p \in Others(r)
  PROVE  /\ req'[p].at = req[p].at /\ req'[p].op = req[p].op /\ req'[p].key = req[p].key
         /\ req'[p].amount = req[p].amount /\ req'[p].fuel = req[p].fuel /\ req'[p].pick = req[p].pick
         /\ req'[p].seen = req[p].seen /\ req'[p].own = req[p].own /\ req'[p].files = req[p].files
         /\ req'[p].adjustment = req[p].adjustment
         /\ held'[p] = held[p]
<1>1. p \in Requests /\ p # r /\ Aged(req[p], req'[p]) /\ req'[p] \in Request /\ req[p] \in Request
      /\ held \in [Requests -> SUBSET Lockable]
  BY DEF Others, Does, Turn, Base, Playing, LocksApart
<1>2. /\ req'[p].at = req[p].at /\ req'[p].op = req[p].op /\ req'[p].key = req[p].key
      /\ req'[p].amount = req[p].amount /\ req'[p].fuel = req[p].fuel /\ req'[p].pick = req[p].pick
      /\ req'[p].seen = req[p].seen /\ req'[p].own = req[p].own /\ req'[p].files = req[p].files
      /\ req'[p].adjustment = req[p].adjustment
  <2>1. CASE req'[p] = req[p]
    BY <2>1
  <2>2. CASE req[p].at \in {"payWrite", "billWrite"} /\ req'[p] = [req[p] EXCEPT !.stale = TRUE]
    <3> HIDE DEF Request
    <3>1. DOMAIN req[p] = {"at", "op", "key", "amount", "fuel", "adjustment", "pick", "seen",
                           "stale", "files", "own"}
      BY <1>1 DEF Request
    <3>2. \A x \in DOMAIN req[p] : x # "stale" => req'[p][x] = req[p][x]
      BY <2>2
    <3> QED BY <3>1, <3>2
  <2> QED BY <1>1, <2>1, <2>2 DEF Aged
<1>3. held'[p] = held[p]
  BY <1>1 DEF Does, Stays, Locks, Files, Creates, Puts, Commits
<1> QED BY <1>2, <1>3

\* An operation that has just arrived.
Starts(q) ==
  \/ q.at \in {"idle", "key", "lockEntry", "reference", "lockAdvance", "fuelKey", "payKey", "billRead"}
  \/ q.at \in HireSteps
  \/ q.at = "findFinancial" /\ q.op = "customerPayment"

LEMMA ArriveStarts ==
  ASSUME Base, NEW r \in Requests, Arrive(r), UNCHANGED <<booked, mix>>
  PROVE  /\ Starts(req'[r]) /\ req'[r].own = << >> /\ ~req'[r].files /\ UNCHANGED <<rows, held, filed, vendor, pump, lapped>>
         /\ invoice' = invoice \/ (CreateInvoice(r) /\ invoice = "ABSENT" /\ invoice' = "UNPAID" /\ req' = req)
<1>1. req \in [Requests -> Request] /\ req[r] \in Request
  BY DEF Base, Playing
<1>2. CASE CustomerArrive(r, mix) /\ UNCHANGED <<vendor, pump>>
  <2>1. CASE CreateInvoice(r)
    <3>1. UNCHANGED <<rows, held, filed, vendor, pump, lapped>> /\ req' = req /\ req[r] = Idle
          /\ invoice = "ABSENT" /\ invoice' = "UNPAID"
      BY <1>2, <2>1 DEF CreateInvoice, ledger
    <3> QED BY <1>2, <2>1, <3>1, IdleIsIdle DEF Starts, Idle
  <2>2. ASSUME NEW op \in Receipts, Receive(r, op)
        PROVE  Starts(req'[r]) /\ req'[r].own = << >> /\ ~req'[r].files /\ UNCHANGED <<rows, held, filed, lapped, invoice>>
    <3>1. PICK k \in CallKeys, a \in Amounts :
            Begin(r, [Idle EXCEPT !.op = op, !.key = k, !.amount = a,
                                  !.at = IF op = "customerPayment" THEN "findFinancial" ELSE "key"])
      BY <2>2 DEF Receive, CallKeys
    <3>2. /\ req'[r].at = (IF op = "customerPayment" THEN "findFinancial" ELSE "key")
          /\ req'[r].op = op /\ req'[r].own = << >> /\ ~req'[r].files
      BY <1>1, <3>1 DEF Idle, Begin
    <3>3. UNCHANGED <<rows, held, filed, lapped, invoice>>
      BY <2>2 DEF Receive, customer
    <3> QED BY <3>2, <3>3 DEF Starts
  <2>3. CASE Reverse(r) /\ UNCHANGED customer
    <3>1. UNCHANGED <<rows, held, filed, lapped, invoice>>
      BY <2>3 DEF Reverse, customer
    <3>2. req'[r].at = "lockEntry" /\ req'[r].own = << >> /\ ~req'[r].files
      BY <1>1, <2>3 DEF Reverse, Begin, Idle
    <3> QED BY <1>2, <3>1, <3>2 DEF Starts
  <2>4. CreateInvoice(r) \/ (\E op \in Receipts : Receive(r, op)) \/ (Reverse(r) /\ UNCHANGED customer)
    BY <1>2 DEF CustomerArrive
  <2> QED BY <1>2, <2>1, <2>2, <2>3, <2>4
<1>3. CASE VendorArrive(r, mix) /\ UNCHANGED <<customer, pump>>
  <2>1. ASSUME NEW op \in HireSteps, HireOp(r, op)
        PROVE  Starts(req'[r]) /\ req'[r].own = << >> /\ ~req'[r].files /\ UNCHANGED <<rows, held, filed, vendor>>
    <3>1. PICK n \in Nets \cup {0} : Begin(r, [Idle EXCEPT !.at = op, !.op = op, !.seen = n])
      BY <2>1 DEF HireOp, HireSteps
    <3>2. req'[r].at = op /\ req'[r].own = << >> /\ ~req'[r].files
      BY <1>1, <3>1 DEF Idle, Begin
    <3> QED BY <2>1, <3>2 DEF Starts, HireOp
  <2>2. ASSUME NEW op \in PayOps, PayOwner(r, op)
        PROVE  Starts(req'[r]) /\ req'[r].own = << >> /\ ~req'[r].files /\ UNCHANGED <<rows, held, filed, vendor>>
    <3>1. PICK k \in CallKeys, a \in 0 .. MaxAmount, f \in 0 .. MaxAmount :
            Begin(r, [Idle EXCEPT !.at = "reference", !.op = op, !.key = k, !.amount = a, !.fuel = f])
      BY <2>2 DEF PayOwner, CallKeys
    <3>2. req'[r].at = "reference" /\ req'[r].own = << >> /\ ~req'[r].files
      BY <1>1, <3>1 DEF Idle, Begin
    <3> QED BY <2>2, <3>2 DEF Starts, PayOwner
  <2>3. CASE Adjust(r)
    <3>1. req'[r].at = "lockAdvance" /\ req'[r].own = << >> /\ ~req'[r].files
      BY <1>1, <2>3 DEF Adjust, Begin, Idle
    <3> QED BY <1>3, <2>3, <3>1 DEF Starts, Adjust, customer
  <2>4. (\E op \in HireSteps : HireOp(r, op)) \/ (\E op \in PayOps : PayOwner(r, op)) \/ Adjust(r)
    BY <1>3 DEF VendorArrive, HireSteps
  <2> QED BY <1>3, <2>1, <2>2, <2>3, <2>4 DEF customer
<1>4. CASE PumpArrive(r, mix) /\ UNCHANGED <<customer, vendor>>
  <2>1. UNCHANGED <<rows, held, filed, vendor, pump, lapped, invoice>>
    <3>1. UNCHANGED <<rows, held, filed, pump>>
      BY <1>4 DEF PumpArrive
    <3> QED BY <1>4, <3>1 DEF customer
  <2>2. ASSUME NEW k \in CallKeys, NEW a \in Amounts,
               Begin(r, [Idle EXCEPT !.at = "fuelKey", !.op = "recordFuel", !.key = k, !.amount = a])
        PROVE  Starts(req'[r]) /\ req'[r].own = << >> /\ ~req'[r].files
    BY <1>1, <2>2 DEF Idle, Begin, Starts
  <2>3. ASSUME NEW k \in CallKeys, NEW a \in Amounts, NEW b \in 0 .. Len(bills),
               Begin(r, [Idle EXCEPT !.at = "payKey", !.op = "payPump", !.key = k,
                                     !.amount = a, !.pick = b])
        PROVE  Starts(req'[r]) /\ req'[r].own = << >> /\ ~req'[r].files
    BY <1>1, <2>3 DEF Idle, Begin, Starts
  <2>4. ASSUME NEW k \in Periods, NEW a \in Adjustments,
               Begin(r, [Idle EXCEPT !.at = "billRead", !.op = "billPump", !.key = k, !.adjustment = a])
        PROVE  Starts(req'[r]) /\ req'[r].own = << >> /\ ~req'[r].files
    BY <1>1, <2>4 DEF Idle, Begin, Starts
  <2>5. Starts(req'[r]) /\ req'[r].own = << >> /\ ~req'[r].files
    <3>1. PumpArrive(r, mix)
      BY <1>4
    <3> QED BY <2>2, <2>3, <2>4, <3>1 DEF PumpArrive, CallKeys
  <2> QED BY <2>1, <2>5
<1> QED BY <1>2, <1>3, <1>4 DEF Arrive

\* An operation stays what it is until it ends.
SameOp(p, q) == q.op = p.op /\ q.key = p.key /\ q.fuel = p.fuel
Keeps(p, q)  == SameOp(p, q) /\ q.amount = p.amount /\ q.pick = p.pick

LEMMA MovesKeep ==
  ASSUME Base, NEW r \in Requests
  PROVE  /\ \A l : Goto(r, l) => Keeps(req[r], req'[r])
         /\ \A x, l : LockRow(r, x, l) => Keeps(req[r], req'[r])
         /\ \A l : TakeFinancial(r, l) => Keeps(req[r], req'[r])
         /\ \A row, l : InsertRow(r, row, l) => req'[r] = Idle \/ Keeps(req[r], req'[r])
         /\ Refuse(r) => req'[r] = Idle
         /\ Commit(r) => req'[r] = Idle
         /\ End(r) => req'[r] = Idle
<1>1. req \in [Requests -> Request] /\ req[r] \in Request
  BY DEF Base, Playing
<1>2. ASSUME NEW l, Goto(r, l)  PROVE Keeps(req[r], req'[r])
  BY <1>1, <1>2 DEF Goto, Keeps, SameOp, Request
<1>3. ASSUME NEW x, NEW l, LockRow(r, x, l)  PROVE Keeps(req[r], req'[r])
  BY <1>2, <1>3 DEF LockRow
<1>6. ASSUME NEW l, TakeFinancial(r, l)  PROVE Keeps(req[r], req'[r])
  <2>1. \/ req' = [req EXCEPT ![r].at = l, ![r].files = TRUE]
        \/ LockRow(r, Financial, l) \/ Goto(r, l)
    BY <1>6 DEF TakeFinancial
  <2> QED BY <1>1, <1>2, <1>3, <2>1 DEF Keeps, SameOp, Request
<1>4. End(r) => req'[r] = Idle
  BY <1>1 DEF End
<1>5. ASSUME NEW row, NEW l, InsertRow(r, row, l)  PROVE req'[r] = Idle \/ Keeps(req[r], req'[r])
  <2>1. CASE End(r)
    BY <1>4, <2>1
  <2>2. CASE ~End(r)
    <3>1. req' = [req EXCEPT ![r].at = l, ![r].own = Append(@, row), ![r].files = @ \/ filed = 0]
      BY <1>5, <2>2 DEF InsertRow
    <3> QED BY <1>1, <3>1 DEF Keeps, SameOp, Request
  <2> QED BY <2>1, <2>2
<1> QED BY <1>2, <1>3, <1>4, <1>5, <1>6 DEF Refuse, Commit

LEMMA OpKept ==
  ASSUME Base, NEW r \in Requests, Step(r)
  PROVE  \/ req'[r] = Idle
         \/ Keeps(req[r], req'[r])
         \/ TryAgain(r) /\ req'[r].op = "receipt" /\ req[r].op = "receipt"
         \/ BillRead(r) /\ req'[r].op = "billPump" /\ req[r].op = "billPump"
<1>1. req \in [Requests -> Request] /\ req[r] \in Request
  BY DEF Base, Playing
<1>2. CASE CustomerStep(r)
  <2>1. CASE CheckKey(r)
    BY <2>1, MovesKeep DEF CheckKey
  <2>2. CASE LockTripForReceipt(r) \/ LockInvoice(r) \/ LockFinancial(r) \/ LockEntry(r)
    BY <2>2, MovesKeep DEF LockTripForReceipt, LockInvoice, LockFinancial, LockEntry
  <2>3. CASE GuardAmount(r) \/ CheckReversible(r)
    <3>1. Refuse(r) \/ (\E l : Goto(r, l))
      BY <2>3 DEF GuardAmount, CheckReversible
    <3> QED BY <3>1, MovesKeep
  <2>4. CASE InsertReversal(r) \/ InsertReceipt(r)
    <3>1. \E row, l : InsertRow(r, row, l)
      BY <2>4, Zenon DEF InsertReversal, InsertReceipt
    <3> QED BY <3>1, MovesKeep
  <2>5. CASE SumReceipts(r)
    BY <1>1, <2>5 DEF SumReceipts, Keeps, SameOp, Request
  <2>6. CASE Stamp(r) \/ CommitUnbilled(r)
    BY <2>6, MovesKeep DEF Stamp, CommitUnbilled
  <2>7. CASE FindFinancial(r) \/ CreateFinancial(r)
    <3>1. Refuse(r) \/ (\E l : Goto(r, l))
      BY <2>7 DEF FindFinancial, CreateFinancial
    <3> QED BY <3>1, MovesKeep
  <2> QED BY <1>2, <2>1, <2>2, <2>3, <2>4, <2>5, <2>6, <2>7 DEF CustomerStep
<1>3. CASE VendorStep(r)
  <2>1. CASE AgreeHire(r) \/ EditHire(r) \/ ConfirmOrCancelHire(r) \/ WriteAdjusted(r)
    BY <2>1, MovesKeep DEF AgreeHire, EditHire, ConfirmOrCancelHire, WriteAdjusted
  <2>2. CASE CheckReference(r)
    <3>1. Refuse(r) \/ (\E l : Goto(r, l))
      BY <2>2 DEF CheckReference
    <3> QED BY <3>1, MovesKeep
  <2>3. CASE LockTripForPayment(r) \/ LockFinancialToPay(r) \/ LockAdvance(r)
    BY <2>3, MovesKeep DEF LockTripForPayment, LockFinancialToPay, LockAdvance
  <2>4. CASE CheckPosition(r)
    <3>1. Refuse(r) \/ \E l : req' = [req EXCEPT ![r].seen = book, ![r].at = l]
      BY <2>4 DEF CheckPosition
    <3>2. (\E l : req' = [req EXCEPT ![r].seen = book, ![r].at = l]) => Keeps(req[r], req'[r])
      BY <1>1 DEF Keeps, SameOp, Request
    <3> QED BY <3>1, <3>2, MovesKeep
  <2>5. CASE CheckUnadjusted(r)
    <3>1. Refuse(r) \/ \E n : req' = [req EXCEPT ![r].at = "adjust", ![r].seen = n]
      BY <2>5 DEF CheckUnadjusted
    <3>2. (\E n : req' = [req EXCEPT ![r].at = "adjust", ![r].seen = n]) => Keeps(req[r], req'[r])
      BY <1>1 DEF Keeps, SameOp, Request
    <3> QED BY <3>1, <3>2, MovesKeep
  <2>6. CASE InsertPayment(r)
    <3>1. \E row, l : InsertRow(r, row, l)
      BY <2>6, Zenon DEF InsertPayment
    <3> QED BY <3>1, MovesKeep
  <2> QED BY <1>3, <2>1, <2>2, <2>3, <2>4, <2>5, <2>6 DEF VendorStep
<1>4. CASE CommitPayment(r)
  BY <1>1, <1>4 DEF CommitPayment, Age
<1>5. CASE PumpStep(r)
  <2>1. CASE FuelKey(r) \/ PayKey(r)
    <3>1. Refuse(r) \/ (\E l : Goto(r, l))
      BY <2>1 DEF FuelKey, PayKey
    <3> QED BY <3>1, MovesKeep
  <2>2. CASE FuelWrite(r)
    <3>1. Refuse(r) \/ req' = Age(r, [req EXCEPT ![r] = Idle], "payWrite")
      BY <2>2 DEF FuelWrite
    <3> QED BY <1>1, <3>1, MovesKeep DEF Age
  <2>3. CASE PayWrite(r) \/ BillWrite(r)
    <3>1. \/ \E l : Goto(r, l)
          \/ \E l : req' = Age(r, [req EXCEPT ![r] = Idle], l)
      BY <2>3 DEF PayWrite, BillWrite, PayAs, BillAs
    <3> QED BY <1>1, <3>1, MovesKeep DEF Age
  <2>4. CASE PayRead(r)
    <3>1. Refuse(r) \/ req' = [req EXCEPT ![r].at = "payWrite", ![r].seen = balance, ![r].stale = FALSE]
      BY <2>4 DEF PayRead
    <3>2. req' = [req EXCEPT ![r].at = "payWrite", ![r].seen = balance, ![r].stale = FALSE]
          => Keeps(req[r], req'[r])
      BY <1>1 DEF Keeps, SameOp, Request
    <3> QED BY <3>1, <3>2, MovesKeep
  <2>5. CASE BillRead(r)
    <3>1. req[r].op = "billPump"
      BY <2>5, WhereItIs DEF BillRead, Fits, BillSteps
    <3>2. Refuse(r) \/ \E n, a : req' = [req EXCEPT ![r].at = "billWrite", ![r].stale = FALSE,
                                                 ![r].seen = n, ![r].amount = a]
      BY <2>5 DEF BillRead
    <3>3. (\E n, a : req' = [req EXCEPT ![r].at = "billWrite", ![r].stale = FALSE,
                                                 ![r].seen = n, ![r].amount = a])
          => req'[r].op = req[r].op
      BY <1>1 DEF Request
    <3> QED BY <2>5, <3>1, <3>2, <3>3, MovesKeep
  <2> QED BY <1>5, <2>1, <2>2, <2>3, <2>4, <2>5 DEF PumpStep
<1>6. CASE RollBack(r)
  BY <1>6, MovesKeep DEF RollBack
<1>7. CASE TryAgain(r)
  <2>1. req'[r].op = "receipt" /\ req[r].op = "receipt"
    BY <1>1, <1>7 DEF TryAgain, Idle
  <2> QED BY <1>7, <2>1
<1> QED BY <1>2, <1>3, <1>4, <1>5, <1>6, <1>7 DEF Step

\* Which statement a request is at settles what it may do next.
LEMMA StepsOfReceipt ==
  ASSUME Base, NEW r \in Requests, Step(r), req[r].op \in Receipts
  PROVE  \/ CheckKey(r) \/ LockTripForReceipt(r) \/ LockInvoice(r) \/ LockFinancial(r)
         \/ GuardAmount(r) \/ InsertReceipt(r) \/ SumReceipts(r) \/ Stamp(r) \/ CommitUnbilled(r)
         \/ FindFinancial(r) \/ CreateFinancial(r) \/ RollBack(r) \/ TryAgain(r)
<1>1. /\ req[r].at \notin ReverseSteps \cup PaySteps \cup HireSteps \cup AdvanceSteps
      /\ req[r].at \notin FuelSteps \cup PayPumpSteps \cup BillSteps
  BY WhereItIs DEF Fits, Receipts, PayOps, HireSteps
<1>2. ~ VendorStep(r)
  BY <1>1 DEF VendorStep, AgreeHire, EditHire, ConfirmOrCancelHire, CheckReference,
         LockTripForPayment, CheckPosition, LockFinancialToPay, InsertPayment, LockAdvance,
         CheckUnadjusted, WriteAdjusted, PaySteps, HireSteps, AdvanceSteps
<1>3. ~ PumpStep(r) /\ ~ CommitPayment(r)
  BY <1>1 DEF PumpStep, FuelKey, FuelWrite, PayKey, PayRead, PayWrite, BillRead, BillWrite,
         CommitPayment, PaySteps, FuelSteps, PayPumpSteps, BillSteps
<1>4. ~ LockEntry(r) /\ ~ CheckReversible(r) /\ ~ InsertReversal(r)
  BY <1>1 DEF LockEntry, CheckReversible, InsertReversal, ReverseSteps
<1> QED BY <1>2, <1>3, <1>4 DEF Step, CustomerStep

LEMMA StepsOfReversal ==
  ASSUME Base, NEW r \in Requests, Step(r), req[r].op = "reverse"
  PROVE  \/ LockEntry(r) /\ UNCHANGED customer
         \/ CheckReversible(r) /\ UNCHANGED customer
         \/ InsertReversal(r) /\ UNCHANGED customer
         \/ SumReceipts(r) \/ Stamp(r) \/ CommitUnbilled(r) \/ RollBack(r)
<1>1. /\ req[r].at \notin ReceiptSteps \cup PaySteps \cup HireSteps \cup AdvanceSteps
      /\ req[r].at \notin FuelSteps \cup PayPumpSteps \cup BillSteps
  BY WhereItIs DEF Fits, Receipts, PayOps, HireSteps
<1>2. ~ VendorStep(r)
  BY <1>1 DEF VendorStep, AgreeHire, EditHire, ConfirmOrCancelHire, CheckReference,
         LockTripForPayment, CheckPosition, LockFinancialToPay, InsertPayment, LockAdvance,
         CheckUnadjusted, WriteAdjusted, PaySteps, HireSteps, AdvanceSteps
<1>3. ~ PumpStep(r) /\ ~ CommitPayment(r)
  BY <1>1 DEF PumpStep, FuelKey, FuelWrite, PayKey, PayRead, PayWrite, BillRead, BillWrite,
         CommitPayment, PaySteps, FuelSteps, PayPumpSteps, BillSteps
<1>4. ~ CheckKey(r) /\ ~ LockTripForReceipt(r) /\ ~ LockInvoice(r) /\ ~ LockFinancial(r)
      /\ ~ GuardAmount(r) /\ ~ InsertReceipt(r) /\ ~ TryAgain(r)
      /\ ~ FindFinancial(r) /\ ~ CreateFinancial(r)
  BY <1>1 DEF CheckKey, LockTripForReceipt, LockInvoice, LockFinancial, GuardAmount, InsertReceipt,
         FindFinancial, CreateFinancial, TryAgain, ReceiptSteps
<1> QED BY <1>2, <1>3, <1>4 DEF Step, CustomerStep

LEMMA StepsOfPayment ==
  ASSUME Base, NEW r \in Requests, Step(r), req[r].op \in PayOps
  PROVE  \/ CheckReference(r) \/ LockTripForPayment(r) \/ CheckPosition(r) \/ LockFinancialToPay(r)
         \/ InsertPayment(r) \/ CommitPayment(r) \/ RollBack(r)
<1>1. /\ req[r].at \notin ReceiptSteps \cup ReverseSteps \cup PostSteps \cup HireSteps \cup AdvanceSteps
      /\ req[r].at \notin FuelSteps \cup PayPumpSteps \cup BillSteps
  BY WhereItIs DEF Fits, Receipts, PayOps, HireSteps
<1>2. ~ AgreeHire(r) /\ ~ EditHire(r) /\ ~ ConfirmOrCancelHire(r) /\ ~ LockAdvance(r)
      /\ ~ CheckUnadjusted(r) /\ ~ WriteAdjusted(r)
  BY <1>1 DEF AgreeHire, EditHire, ConfirmOrCancelHire, LockAdvance,
         CheckUnadjusted, WriteAdjusted, HireSteps, AdvanceSteps
<1>3. ~ PumpStep(r)
  BY <1>1 DEF PumpStep, FuelKey, FuelWrite, PayKey, PayRead, PayWrite, BillRead, BillWrite,
         FuelSteps, PayPumpSteps, BillSteps
<1>4. ~ CustomerStep(r)
  BY <1>1 DEF CustomerStep, CheckKey, LockTripForReceipt, LockInvoice, LockFinancial, GuardAmount,
         InsertReceipt, LockEntry, CheckReversible, InsertReversal, SumReceipts, Stamp,
         CommitUnbilled, FindFinancial, CreateFinancial, ReceiptSteps, ReverseSteps, PostSteps
<1>5. ~ TryAgain(r)
  BY DEF TryAgain, PayOps
<1> QED BY <1>2, <1>3, <1>4, <1>5 DEF Step, VendorStep

LEMMA StepsOfAdjustment ==
  ASSUME Base, NEW r \in Requests, Step(r), req[r].op = "adjust"
  PROVE  \/ (LockAdvance(r) \/ CheckUnadjusted(r) \/ WriteAdjusted(r)) /\ UNCHANGED customer
         \/ RollBack(r)
<1>1. /\ req[r].at \notin ReceiptSteps \cup ReverseSteps \cup PostSteps \cup HireSteps \cup PaySteps
      /\ req[r].at \notin FuelSteps \cup PayPumpSteps \cup BillSteps
  BY WhereItIs DEF Fits, Receipts, PayOps, HireSteps
<1>2. /\ ~ AgreeHire(r) /\ ~ EditHire(r) /\ ~ ConfirmOrCancelHire(r) /\ ~ CheckReference(r)
      /\ ~ LockTripForPayment(r) /\ ~ CheckPosition(r) /\ ~ LockFinancialToPay(r)
      /\ ~ InsertPayment(r) /\ ~ CommitPayment(r)
  BY <1>1 DEF AgreeHire, EditHire, ConfirmOrCancelHire, CheckReference, LockTripForPayment,
         CheckPosition, LockFinancialToPay, InsertPayment, CommitPayment, HireSteps, PaySteps
<1>3. ~ PumpStep(r)
  BY <1>1 DEF PumpStep, FuelKey, FuelWrite, PayKey, PayRead, PayWrite, BillRead, BillWrite,
         FuelSteps, PayPumpSteps, BillSteps
<1>4. ~ CustomerStep(r)
  BY <1>1 DEF CustomerStep, CheckKey, LockTripForReceipt, LockInvoice, LockFinancial, GuardAmount,
         InsertReceipt, LockEntry, CheckReversible, InsertReversal, SumReceipts, Stamp,
         CommitUnbilled, FindFinancial, CreateFinancial, ReceiptSteps, ReverseSteps, PostSteps
<1>5. ~ TryAgain(r)
  BY DEF TryAgain
<1> QED BY <1>2, <1>3, <1>4, <1>5 DEF Step, VendorStep

\* A step that commits is one of three, and it ends its request.
LEMMA WhoCommits ==
  ASSUME Base, NEW r \in Requests, Arrive(r) \/ Step(r), UNCHANGED <<booked, mix>>
  PROVE  \/ rows' = rows
         \/ /\ Commits(r) /\ Turn(r, Idle)
            /\ \/ Stamp(r) /\ req[r].at = "stamp" /\ UNCHANGED <<vendor, pump>>
               \/ CommitUnbilled(r) /\ req[r].at = "commit" /\ UNCHANGED <<vendor, pump>>
               \/ CommitPayment(r) /\ req[r].at = "commitPayment" /\ UNCHANGED customer
<1>1. CASE Arrive(r)
  BY <1>1, ArriveStarts
<1>2. CASE Step(r)
  <2>1. CASE CustomerStep(r) /\ UNCHANGED <<vendor, pump>>
    <3>1. CASE Stamp(r) \/ CommitUnbilled(r)
      BY <2>1, <3>1, PostDoes DEF Stamp, CommitUnbilled
    <3>2. CASE ~(Stamp(r) \/ CommitUnbilled(r))
      <4>1. rows' = rows
        BY <2>1, <3>2 DEF CustomerStep, CheckKey, LockTripForReceipt, LockInvoice, LockFinancial,
               GuardAmount, InsertReceipt, LockEntry, CheckReversible, InsertReversal, SumReceipts,
               FindFinancial, CreateFinancial, TakeFinancial, LockRow, InsertRow, Refuse
      <4> QED BY <4>1
    <3> QED BY <3>1, <3>2
  <2>2. CASE VendorStep(r) /\ UNCHANGED <<customer, pump>>
    <3>1. rows' = rows
      BY <2>2 DEF VendorStep, AgreeHire, EditHire, ConfirmOrCancelHire, CheckReference,
           LockTripForPayment, CheckPosition, LockFinancialToPay, InsertPayment, LockAdvance,
           CheckUnadjusted, WriteAdjusted, TakeFinancial, LockRow, InsertRow, Refuse
    <3> QED BY <3>1
  <2>3. CASE CommitPayment(r) /\ UNCHANGED customer
    <3>1. req[r].at = "commitPayment"
      BY <2>3 DEF CommitPayment
    <3> QED BY <2>3, <3>1, CommitPaymentDoes
  <2>4. CASE PumpStep(r) /\ UNCHANGED <<customer, vendor>>
    <3>1. PayAs(r) \/ BillAs(r) => rows' = rows
      BY Zenon DEF PayAs, BillAs
    <3>2. rows' = rows
      BY <2>4, <3>1 DEF PumpStep, FuelKey, FuelWrite, PayKey, PayRead, PayWrite, BillRead, BillWrite,
           Refuse
    <3> QED BY <3>2
  <2>5. CASE RollBack(r) \/ TryAgain(r)
    BY <2>5 DEF RollBack, Refuse, TryAgain
  <2> QED BY <1>2, <2>1, <2>2, <2>3, <2>4, <2>5 DEF Step
<1> QED BY <1>1, <1>2

\* The rows a request may have inserted.
LEMMA OwnRows ==
  ASSUME Base, NEW r \in Requests, req[r].own # << >>
  PROVE  /\ req[r].at \in PostSteps \cup {"insertPayment", "commitPayment"}
         /\ \/ \E row \in Row : /\ req[r].own = <<row>> /\ Posting(req[r], row)
                                /\ req[r].at \in PostSteps /\ row.billed = (req[r].at # "commit")
                                /\ req[r].op \in Receipts \cup {"reverse"}
            \/ \E row \in Row : /\ req[r].own = <<row>> /\ Paying(req[r], row) /\ req[r].op \in PayOps
            \/ /\ req[r].op = "vendorPayment" /\ Len(req[r].own) = 2
               /\ Plain(req[r].own[1], "vendorPayment", req[r].amount)
               /\ Plain(req[r].own[2], "vendorFuel", req[r].fuel)
<1>1. Inserts(req[r]) /\ Fits(req[r].at, req[r].op)
  BY WhereItIs
<1>2. req[r].at \in PostSteps \cup {"insertPayment", "commitPayment"}
  BY <1>1 DEF Inserts
<1>3. CASE req[r].at \in PostSteps
  BY <1>1, <1>2, <1>3 DEF Inserts, Fits
<1>4. CASE req[r].at = "insertPayment"
  <2>1. req[r].op = "vendorPayment" /\ req[r].op \in PayOps
    BY <1>1, <1>4 DEF Inserts, Fits, PaySteps, PostSteps
  <2>2. PICK row \in Row : req[r].own = <<row>> /\ Plain(row, "vendorPayment", req[r].amount)
    BY <1>1, <1>4 DEF Inserts, PostSteps
  <2>3. Paying(req[r], row)
    BY <2>1, <2>2 DEF Paying, Plain
  <2> QED BY <1>2, <2>1, <2>2, <2>3
<1>5. CASE req[r].at = "commitPayment"
  <2>1. req[r].op \in PayOps
    BY <1>1, <1>5 DEF Fits, PaySteps
  <2> QED BY <1>1, <1>2, <1>5, <2>1 DEF Inserts, PostSteps
<1> QED BY <1>2, <1>3, <1>4, <1>5

-----------------------------------------------------------------------------
(***************************************************************************)
(* Reversals: one that may still write holds its original and has found it   *)
(* not undone, and nobody else can undo it as long as it is held.            *)
(***************************************************************************)

Undoing(r) ==
  (req[r].op = "reverse" /\ req[r].at \in {"reversible", "insertReversal"} \cup PostSteps) =>
    /\ Entry(req[r].pick) \in held[r]
    /\ req[r].at # "reversible" =>
         /\ rows[req[r].pick].by # "reverse"
         /\ \A j \in DOMAIN rows : rows[j].undoes # req[r].pick

UndoesRows ==
  \A i \in DOMAIN rows :
    IF rows[i].by = "reverse" THEN rows[i].undoes \in DOMAIN rows ELSE rows[i].undoes = 0

Reversals == UndoesRows /\ ReversedOnce /\ \A r \in Requests : Undoing(r)

\* The row of a request that undoes something is that of a reversal.
LEMMA OwnUndoes ==
  ASSUME Base, NEW r \in Requests, NEW i \in DOMAIN req[r].own
  PROVE  \/ req[r].own[i].undoes = 0 /\ req[r].own[i].by # "reverse"
         \/ /\ req[r].op = "reverse" /\ req[r].at \in PostSteps /\ req[r].own[i].by = "reverse"
            /\ req[r].own[i].undoes = req[r].pick /\ req[r].pick \in DOMAIN rows /\ i = 1
            /\ Len(req[r].own) = 1
<1>1. req[r].own \in Seq(Row) /\ Brings(req[r])
  BY WhereItIs DEF Request
<1>2. req[r].own # << >>
  BY <1>1
<1>3. CASE \E row \in Row : /\ req[r].own = <<row>> /\ Posting(req[r], row)
                            /\ req[r].at \in PostSteps /\ req[r].op \in Receipts \cup {"reverse"}
  <2>1. PICK row \in Row : /\ req[r].own = <<row>> /\ Posting(req[r], row)
                           /\ req[r].at \in PostSteps /\ req[r].op \in Receipts \cup {"reverse"}
    BY <1>3
  <2>2. i = 1 /\ req[r].own[i] = row /\ Len(req[r].own) = 1
    BY <2>1
  <2>3. CASE req[r].op = "reverse"
    BY <1>1, <2>1, <2>2, <2>3 DEF Posting, Brings
  <2>4. CASE req[r].op # "reverse"
    BY <2>1, <2>2, <2>4 DEF Posting
  <2> QED BY <2>3, <2>4
<1>4. CASE \E row \in Row : req[r].own = <<row>> /\ Paying(req[r], row) /\ req[r].op \in PayOps
  <2>1. PICK row \in Row : req[r].own = <<row>> /\ Paying(req[r], row) /\ req[r].op \in PayOps
    BY <1>4
  <2>2. req[r].own[i] = row
    BY <2>1
  <2>3. row.by # "reverse" /\ row.undoes = 0
    BY <2>1 DEF Paying, PayOps
  <2> QED BY <2>2, <2>3
<1>5. CASE Len(req[r].own) = 2 /\ Plain(req[r].own[1], "vendorPayment", req[r].amount)
           /\ Plain(req[r].own[2], "vendorFuel", req[r].fuel)
  <2>1. i = 1 \/ i = 2
    BY <1>1, <1>5
  <2> QED BY <1>5, <2>1 DEF Plain
<1> QED BY <1>2, <1>3, <1>4, <1>5, OwnRows

\* The rows after a commit: those before it, and those of the request.
LEMMA RowsAfter ==
  ASSUME Base, NEW r \in Requests, rows' = Seen(r)
  PROVE  /\ DOMAIN rows' = 1 .. (Len(rows) + Len(req[r].own)) /\ DOMAIN rows = 1 .. Len(rows)
         /\ \A i \in DOMAIN rows' :
              \/ i \in DOMAIN rows /\ rows'[i] = rows[i]
              \/ /\ i \notin DOMAIN rows /\ i - Len(rows) \in DOMAIN req[r].own
                 /\ rows'[i] = req[r].own[i - Len(rows)]
<1>1. rows \in Seq(Row) /\ req[r].own \in Seq(Row)
  BY DEF Base, Tables, Playing, Request
<1> QED BY <1>1 DEF Seen

LEMMA UndoingKept ==
  ASSUME Base, Reversals, NEW r \in Requests, Does(r), Arrive(r) \/ Step(r), UNCHANGED <<booked, mix>>
  PROVE  Undoing(r)'
<1> SUFFICES ASSUME req'[r].op = "reverse",
                    req'[r].at \in {"reversible", "insertReversal"} \cup PostSteps
             PROVE  /\ Entry(req'[r].pick) \in held'[r]
                    /\ req'[r].at # "reversible" =>
                         /\ rows'[req'[r].pick].by # "reverse"
                         /\ \A j \in DOMAIN rows' : rows'[j].undoes # req'[r].pick
  BY DEF Undoing
<1>0. req \in [Requests -> Request] /\ req[r] \in Request /\ held \in [Requests -> SUBSET Lockable]
  BY DEF Base, Playing, LocksApart
<1>1. ~Arrive(r)
  <2>1. ~Starts(req'[r])
    BY DEF Starts, HireSteps, PostSteps
  <2> QED BY <2>1, ArriveStarts
<1>2. req'[r] # Idle
  BY DEF Idle
<1>3. ~RollBack(r) /\ ~Commit(r) /\ ~Refuse(r)
  BY <1>0, <1>2 DEF RollBack, Commit, Refuse, End
<1>4. req[r].op = "reverse"
  BY <1>1, <1>2, OpKept DEF Keeps, SameOp
<1>5. \/ LockEntry(r) \/ CheckReversible(r) \/ InsertReversal(r) \/ SumReceipts(r)
  BY <1>1, <1>3, <1>4, StepsOfReversal DEF Stamp, CommitUnbilled
<1>6. CASE LockEntry(r)
  BY <1>0, <1>6 DEF LockEntry, LockRow, Goto
<1>7. CASE CheckReversible(r)
  <2>1. req' = [req EXCEPT ![r].at = "insertReversal"] /\ UNCHANGED <<rows, held, filed>> /\ req[r].at = "reversible"
        /\ rows[req[r].pick].by # "reverse" /\ \A j \in DOMAIN rows : rows[j].undoes # req[r].pick
    <3>1. \A n, i : n = i => Names(n, i)
      BY Zenon DEF Names
    <3> QED BY <1>3, <1>7, <3>1 DEF CheckReversible, Goto
  <2>2. Entry(req[r].pick) \in held[r]
    BY <1>4, <2>1 DEF Reversals, Undoing
  <2>3. req'[r].pick = req[r].pick
    BY <1>0, <2>1 DEF Request
  <2> QED BY <2>1, <2>2, <2>3
<1>8. CASE InsertReversal(r) \/ SumReceipts(r)
  <2>1. req[r].at \in {"insertReversal"} \cup PostSteps
    BY <1>8 DEF InsertReversal, SumReceipts, PostSteps
  <2>2. Undoing(r) /\ req[r].at # "reversible"
    BY <2>1 DEF Reversals, PostSteps
  <2>3. UNCHANGED <<rows, held, filed>> /\ req'[r].pick = req[r].pick
    BY <1>0, <1>2, <1>8 DEF InsertReversal, SumReceipts, InsertRow, End, Request
  <2> QED BY <1>4, <2>1, <2>2, <2>3 DEF Undoing
<1> QED BY <1>5, <1>6, <1>7, <1>8

LEMMA ReversalsKept ==
  ASSUME Base, Reversals, NEW r \in Requests, Does(r), Arrive(r) \/ Step(r), UNCHANGED <<booked, mix>>
  PROVE  Reversals'
<1>1. rows \in Seq(Row) /\ Len(rows) \in Nat /\ req[r].own \in Seq(Row) /\ Len(req[r].own) \in Nat
  BY DEF Base, Tables, Playing, Request
<1>2. UndoesRows /\ ReversedOnce /\ Undoing(r)'
  BY UndoingKept DEF Reversals
<1>3. CASE rows' = rows
  <2>1. UndoesRows' /\ ReversedOnce'
    BY <1>2, <1>3 DEF UndoesRows, ReversedOnce, Those
  <2>2. ASSUME NEW p \in Others(r)  PROVE Undoing(p)'
    <3>1. Undoing(p)
      BY DEF Reversals, Others
    <3> QED BY <1>3, <3>1, OthersSame DEF Undoing
  <2> QED BY <1>2, <2>1, <2>2 DEF Reversals, Others
<1>4. CASE rows' = Seen(r)
  <2>1. /\ DOMAIN rows' = 1 .. (Len(rows) + Len(req[r].own)) /\ DOMAIN rows = 1 .. Len(rows)
        /\ \A i \in DOMAIN rows' :
              \/ i \in DOMAIN rows /\ rows'[i] = rows[i]
              \/ /\ i \notin DOMAIN rows /\ i - Len(rows) \in DOMAIN req[r].own
                 /\ rows'[i] = req[r].own[i - Len(rows)]
    BY <1>4, RowsAfter
  <2>2. \A i \in DOMAIN rows : i \in DOMAIN rows' /\ rows'[i] = rows[i]
    BY <1>1, <2>1
  \* A row that is new and undoes something.
  <2>3. ASSUME NEW i \in DOMAIN rows', i \notin DOMAIN rows
        PROVE  \/ rows'[i].undoes = 0 /\ rows'[i].by # "reverse"
               \/ /\ req[r].op = "reverse" /\ req[r].at \in PostSteps /\ rows'[i].by = "reverse"
                  /\ rows'[i].undoes = req[r].pick /\ req[r].pick \in DOMAIN rows
                  /\ i - Len(rows) = 1
    <3>1. i - Len(rows) \in DOMAIN req[r].own /\ rows'[i] = req[r].own[i - Len(rows)]
      BY <2>1, <2>3
    <3> QED BY <3>1, OwnUndoes
  <2>4. (req[r].op = "reverse" /\ req[r].at \in PostSteps) =>
          /\ Entry(req[r].pick) \in held[r] /\ rows[req[r].pick].by # "reverse"
          /\ \A j \in DOMAIN rows : rows[j].undoes # req[r].pick
    BY DEF Reversals, Undoing, PostSteps
  <2>5. UndoesRows'
    <3> SUFFICES ASSUME NEW i \in DOMAIN rows'
                 PROVE  IF rows'[i].by = "reverse" THEN rows'[i].undoes \in DOMAIN rows'
                        ELSE rows'[i].undoes = 0
      BY DEF UndoesRows
    <3>1. CASE i \in DOMAIN rows
      BY <1>2, <2>2, <3>1 DEF UndoesRows
    <3>2. CASE i \notin DOMAIN rows
      BY <2>2, <2>3, <3>2
    <3> QED BY <3>1, <3>2
  <2>6. ReversedOnce'
    <3>1. ASSUME NEW i \in DOMAIN rows', rows'[i].by = "reverse"
          PROVE  rows'[rows'[i].undoes].by # "reverse"
      <4>1. CASE i \in DOMAIN rows
        <5>1. rows[i].by = "reverse" /\ rows'[i] = rows[i] /\ rows[i].undoes \in DOMAIN rows
          BY <1>2, <2>2, <3>1, <4>1 DEF UndoesRows
        <5>2. i \in Those(rows, {"reverse"})
          BY <4>1, <5>1 DEF Those
        <5>3. rows[rows[i].undoes].by # "reverse"
          BY <1>2, <5>2 DEF ReversedOnce
        <5> QED BY <2>2, <5>1, <5>3
      <4>2. CASE i \notin DOMAIN rows
        <5>1. rows'[i].undoes = req[r].pick /\ req[r].pick \in DOMAIN rows
              /\ rows[req[r].pick].by # "reverse"
          BY <2>3, <2>4, <3>1, <4>2
        <5> QED BY <2>2, <5>1
      <4> QED BY <4>1, <4>2
    <3>2. ASSUME NEW i \in DOMAIN rows', NEW j \in DOMAIN rows', rows'[i].by = "reverse",
                 rows'[j].by = "reverse", rows'[j].undoes = rows'[i].undoes
          PROVE  i = j
      <4>1. CASE i \in DOMAIN rows /\ j \in DOMAIN rows
        <5>1. i \in Those(rows, {"reverse"}) /\ j \in Those(rows, {"reverse"})
              /\ rows[j].undoes = rows[i].undoes
          BY <2>2, <3>2, <4>1 DEF Those
        <5> QED BY <1>2, <5>1 DEF ReversedOnce
      <4>2. CASE i \notin DOMAIN rows /\ j \in DOMAIN rows
        <5>1. rows'[i].undoes = req[r].pick /\ rows[j].undoes # req[r].pick
          BY <2>3, <2>4, <3>2, <4>2
        <5> QED BY <2>2, <3>2, <4>2, <5>1
      <4>3. CASE i \in DOMAIN rows /\ j \notin DOMAIN rows
        <5>1. rows'[j].undoes = req[r].pick /\ rows[i].undoes # req[r].pick
          BY <2>3, <2>4, <3>2, <4>3
        <5> QED BY <2>2, <3>2, <4>3, <5>1
      <4>4. CASE i \notin DOMAIN rows /\ j \notin DOMAIN rows
        <5>1. i - Len(rows) = 1 /\ j - Len(rows) = 1
          BY <2>3, <3>2, <4>4
        <5>2. i \in Int /\ j \in Int
          BY <2>1
        <5> QED BY <1>1, <5>1, <5>2
      <4> QED BY <4>1, <4>2, <4>3, <4>4
    <3> QED BY <3>1, <3>2 DEF ReversedOnce, Those
  <2>7. ASSUME NEW p \in Others(r)  PROVE Undoing(p)'
    <3>1. Undoing(p) /\ p \in Requests /\ p # r
      BY DEF Reversals, Others
    <3>2. /\ req'[p].at = req[p].at /\ req'[p].op = req[p].op /\ req'[p].pick = req[p].pick
          /\ held'[p] = held[p]
      BY OthersSame
    <3> SUFFICES ASSUME req[p].op = "reverse", req[p].at \in {"insertReversal"} \cup PostSteps
                 PROVE  /\ rows'[req[p].pick].by # "reverse"
                        /\ \A j \in DOMAIN rows' : rows'[j].undoes # req[p].pick
      BY <3>1, <3>2 DEF Undoing
    <3>3. req[p].pick \in DOMAIN rows /\ Brings(req[p])
      BY <3>1, WhereItIs DEF Brings
    <3>4. Entry(req[p].pick) \in held[p] /\ rows[req[p].pick].by # "reverse"
          /\ \A j \in DOMAIN rows : rows[j].undoes # req[p].pick
      BY <3>1 DEF Undoing, PostSteps
    <3>5. ASSUME NEW j \in DOMAIN rows'  PROVE rows'[j].undoes # req[p].pick
      <4>1. CASE j \in DOMAIN rows
        BY <2>2, <3>4, <4>1
      <4>2. CASE j \notin DOMAIN rows
        <5>1. CASE rows'[j].undoes = 0
          BY <2>1, <3>3, <5>1
        <5>2. CASE req[r].op = "reverse" /\ req[r].at \in PostSteps /\ rows'[j].undoes = req[r].pick
          <6>1. Entry(req[r].pick) \in held[r]
            BY <2>4, <5>2
          <6>2. held[r] \cap held[p] = {}
            BY <3>1 DEF Base, LocksApart
          <6>3. req[r].pick # req[p].pick
            BY <3>4, <6>1, <6>2
          <6> QED BY <5>2, <6>3
        <5> QED BY <2>3, <4>2, <5>1, <5>2
      <4> QED BY <4>1, <4>2
    <3> QED BY <2>2, <3>3, <3>4, <3>5
  <2> QED BY <1>2, <2>5, <2>6, <2>7 DEF Reversals, Others
<1> QED BY <1>3, <1>4, WhoCommits DEF Commits

-----------------------------------------------------------------------------
(***************************************************************************)
(* Advances: who is about to write one holds it and has what it says.       *)
(***************************************************************************)

Adjusting(r) ==
  req[r].at \in {"unadjusted", "adjust"} =>
    /\ Advance(req[r].pick) \in held[r]
    /\ req[r].at = "adjust" =>
         /\ req[r].seen = advances[req[r].pick].adjusted
         /\ req[r].seen + req[r].amount <= advances[req[r].pick].amount

AdvancesKept == AdjustmentsAddUp /\ \A r \in Requests : Adjusting(r)

LEMMA WhoAdjusts ==
  ASSUME Base, NEW r \in Requests, Arrive(r) \/ Step(r), UNCHANGED <<booked, mix>>
  PROVE  \/ advances' = advances
         \/ WriteAdjusted(r)
         \/ /\ CommitPayment(r) /\ req[r].op = "ownerAdvance"
            /\ advances' = Append(advances, [amount |-> req[r].amount, ref |-> req[r].key,
                                             adjusted |-> 0, answered |-> 0])
<1>1. CASE Arrive(r)
  BY <1>1, ArriveStarts DEF vendor
<1>2. CASE Step(r)
  <2>1. CASE VendorStep(r)
    BY <2>1 DEF VendorStep, AgreeHire, EditHire, ConfirmOrCancelHire, CheckReference,
         LockTripForPayment, CheckPosition, LockFinancialToPay, InsertPayment, LockAdvance,
         CheckUnadjusted, vendor
  <2>2. CASE CommitPayment(r)
    BY <2>2 DEF CommitPayment
  <2>3. CASE UNCHANGED vendor
    BY <2>3 DEF vendor
  <2> QED BY <1>2, <2>1, <2>2, <2>3 DEF Step, vendor, RollBack, TryAgain
<1> QED BY <1>1, <1>2

LEMMA AdjustmentsKept ==
  ASSUME Base, AdvancesKept, NEW r \in Requests, Does(r), Arrive(r) \/ Step(r), UNCHANGED <<booked, mix>>
  PROVE  AdvancesKept'
<1>1. advances \in Seq(AdvanceRow) /\ Len(advances) \in Nat
      /\ req \in [Requests -> Request] /\ req[r] \in Request /\ held \in [Requests -> SUBSET Lockable]
  BY DEF Base, Tables, Playing, LocksApart
<1>2. /\ \A i \in DOMAIN advances : /\ advances[i].adjusted = advances[i].answered
                                   /\ advances[i].answered <= advances[i].amount
                                   /\ advances[i] \in AdvanceRow
      /\ \A p \in Requests : Adjusting(p)
  BY <1>1 DEF AdvancesKept, AdjustmentsAddUp
\* An adjustment of r is still right, where r did not end.
<1>3. Adjusting(r)' \/ (req'[r].at \in {"unadjusted", "adjust"} /\ advances' # advances)
  <2> SUFFICES ASSUME req'[r].at \in {"unadjusted", "adjust"}, advances' = advances
               PROVE  /\ Advance(req'[r].pick) \in held'[r]
                      /\ req'[r].at = "adjust" =>
                           /\ req'[r].seen = advances[req'[r].pick].adjusted
                           /\ req'[r].seen + req'[r].amount <= advances[req'[r].pick].amount
    BY DEF Adjusting
  <2>1. ~Arrive(r)
    <3>1. ~Starts(req'[r])
      BY DEF Starts, HireSteps
    <3> QED BY <3>1, ArriveStarts
  <2>2. req'[r].op = "adjust" /\ req'[r] # Idle
    BY DEF Does, Plays, Fits, AdvanceSteps, Idle
  <2>3. req[r].op = "adjust"
    BY <2>1, <2>2, OpKept DEF Keeps, SameOp
  <2>4. ~Refuse(r) /\ ~RollBack(r)
    BY <2>2, MovesKeep DEF RollBack
  <2>5. LockAdvance(r) \/ CheckUnadjusted(r)
    BY <2>1, <2>3, <2>4, StepsOfAdjustment DEF WriteAdjusted
  <2>6. CASE LockAdvance(r)
    BY <1>1, <2>6 DEF LockAdvance, LockRow, Goto
  <2>7. CASE CheckUnadjusted(r)
    <3>1. /\ req[r].at = "unadjusted" /\ held' = held
          /\ ~(advances[req[r].pick].adjusted + req[r].amount > advances[req[r].pick].amount)
          /\ req' = [req EXCEPT ![r].at = "adjust", ![r].seen = advances[req[r].pick].adjusted]
      BY <2>4, <2>7 DEF CheckUnadjusted
    <3>2. req[r].pick \in DOMAIN advances /\ req[r].amount \in Nat
      BY <1>1, <2>3, WhereItIs DEF Brings, Request
    <3>3. advances[req[r].pick].adjusted \in Nat /\ advances[req[r].pick].amount \in Nat
      BY <1>2, <3>2, CallTypes DEF AdvanceRow
    <3>4. /\ req'[r].pick = req[r].pick /\ req'[r].amount = req[r].amount
          /\ req'[r].seen = advances[req[r].pick].adjusted
      BY <1>1, <3>1 DEF Request
    <3>5. Advance(req[r].pick) \in held[r]
      BY <1>2, <3>1 DEF Adjusting
    <3> QED BY <3>1, <3>2, <3>3, <3>4, <3>5
  <2> QED BY <2>5, <2>6, <2>7
<1>4. CASE advances' = advances
  <2>1. ASSUME NEW p \in Others(r)  PROVE Adjusting(p)'
    <3>1. Adjusting(p)
      BY <1>2 DEF Others
    <3> QED BY <1>4, <3>1, OthersSame DEF Adjusting
  <2> QED BY <1>3, <1>4, <2>1 DEF AdvancesKept, AdjustmentsAddUp, Others
<1>5. CASE WriteAdjusted(r)
  <2>1. /\ req[r].at = "adjust" /\ req'[r] = Idle
        /\ advances' = [advances EXCEPT ![req[r].pick].adjusted = req[r].seen + req[r].amount,
                                        ![req[r].pick].answered = @ + req[r].amount]
    BY <1>5, MovesKeep DEF WriteAdjusted
  <2>2. req[r].pick \in DOMAIN advances /\ req[r].amount \in Nat /\ req[r].seen \in Nat
    <3>1. req[r].op = "adjust"
      BY <2>1, WhereItIs DEF Fits, AdvanceSteps
    <3> QED BY <1>1, <3>1, WhereItIs DEF Brings, Request
  <2>3. /\ Advance(req[r].pick) \in held[r] /\ req[r].seen = advances[req[r].pick].adjusted
        /\ req[r].seen + req[r].amount <= advances[req[r].pick].amount
    BY <1>2, <2>1 DEF Adjusting
  <2>4. /\ DOMAIN advances' = DOMAIN advances
        /\ \A i \in DOMAIN advances : i # req[r].pick => advances'[i] = advances[i]
        /\ advances'[req[r].pick].adjusted = req[r].seen + req[r].amount
        /\ advances'[req[r].pick].answered = advances[req[r].pick].answered + req[r].amount
        /\ advances'[req[r].pick].amount = advances[req[r].pick].amount
    BY <1>1, <1>2, <2>1, <2>2 DEF AdvanceRow
  <2>5. AdjustmentsAddUp'
    <3>1. ASSUME NEW i \in DOMAIN advances
          PROVE  /\ advances'[i].adjusted = advances'[i].answered
                 /\ advances'[i].answered <= advances'[i].amount
      <4>1. CASE i = req[r].pick
        BY <1>2, <2>2, <2>3, <2>4, <4>1
      <4>2. CASE i # req[r].pick
        BY <1>2, <2>4, <4>2
      <4> QED BY <4>1, <4>2
    <3> QED BY <2>4, <3>1 DEF AdjustmentsAddUp
  <2>6. ASSUME NEW p \in Others(r)  PROVE Adjusting(p)'
    <3>1. Adjusting(p) /\ p \in Requests /\ p # r
      BY <1>2 DEF Others
    <3>2. /\ req'[p].at = req[p].at /\ req'[p].pick = req[p].pick /\ req'[p].seen = req[p].seen
          /\ req'[p].amount = req[p].amount /\ held'[p] = held[p]
      BY OthersSame
    <3>3. ASSUME req[p].at \in {"unadjusted", "adjust"}
          PROVE  advances'[req[p].pick] = advances[req[p].pick]
      <4>1. Advance(req[p].pick) \in held[p]
        BY <3>1, <3>3 DEF Adjusting
      <4>2. held[r] \cap held[p] = {}
        BY <3>1 DEF Base, LocksApart
      <4>3. req[p].pick # req[r].pick
        BY <2>3, <4>1, <4>2
      <4>4. req[p].pick \in DOMAIN advances
        BY <3>1, <3>3, WhereItIs DEF Fits, AdvanceSteps, Brings
      <4> QED BY <2>4, <4>3, <4>4
    <3> QED BY <3>1, <3>2, <3>3 DEF Adjusting
  <2>7. Adjusting(r)'
    BY <2>1 DEF Adjusting, Idle
  <2> QED BY <2>5, <2>6, <2>7 DEF AdvancesKept, Others
<1>6. CASE /\ CommitPayment(r) /\ req[r].op = "ownerAdvance"
           /\ advances' = Append(advances, [amount |-> req[r].amount, ref |-> req[r].key,
                                            adjusted |-> 0, answered |-> 0])
  <2>1. PICK new : new = [amount |-> req[r].amount, ref |-> req[r].key, adjusted |-> 0, answered |-> 0]
    OBVIOUS
  <2>2. new.adjusted = 0 /\ new.answered = 0 /\ new.amount \in Nat
    BY <1>1, <2>1 DEF Request
  <2>3. /\ \A i \in DOMAIN advances : i \in DOMAIN advances' /\ advances'[i] = advances[i]
        /\ \A i \in DOMAIN advances' : i \in DOMAIN advances \/ advances'[i] = new
    BY <1>1, <1>6, <2>1
  <2>4. AdjustmentsAddUp'
    <3>1. ASSUME NEW i \in DOMAIN advances'
          PROVE  /\ advances'[i].adjusted = advances'[i].answered
                 /\ advances'[i].answered <= advances'[i].amount
      BY <1>2, <2>2, <2>3
    <3> QED BY <3>1 DEF AdjustmentsAddUp
  <2>5. ASSUME NEW p \in Others(r)  PROVE Adjusting(p)'
    <3>1. Adjusting(p) /\ p \in Requests
      BY <1>2 DEF Others
    <3>2. /\ req'[p].at = req[p].at /\ req'[p].pick = req[p].pick /\ req'[p].seen = req[p].seen
          /\ req'[p].amount = req[p].amount /\ held'[p] = held[p]
      BY OthersSame
    <3>3. req[p].at \in {"unadjusted", "adjust"} => req[p].pick \in DOMAIN advances
      BY <3>1, WhereItIs DEF Fits, AdvanceSteps, Brings
    <3> QED BY <2>3, <3>1, <3>2, <3>3 DEF Adjusting
  <2>6. Adjusting(r)'
    <3>1. req'[r] = Idle
      BY <1>6, CommitPaymentDoes, WhoCommits DEF CommitPayment, Turn, Age, Base, Playing
    <3> QED BY <3>1 DEF Adjusting, Idle
  <2> QED BY <2>4, <2>5, <2>6 DEF AdvancesKept, Others
<1> QED BY <1>4, <1>5, <1>6, WhoAdjusts

-----------------------------------------------------------------------------
(***************************************************************************)
(* Sums over a table that has grown.                                        *)
(***************************************************************************)

LEMMA SumLonger ==
  ASSUME NEW X, NEW table \in Seq(X), NEW longer \in Seq(X), NEW S, NEW T,
         Len(table) <= Len(longer), \A n \in 1 .. Len(table) : longer[n] = table[n],
         \A n \in 1 .. Len(table) : n \in T <=> n \in S,
         \A n \in 1 .. Len(longer) : n > Len(table) => n \notin T,
         \A n \in 1 .. Len(table) : table[n].amount \in Nat
  PROVE  Sum(longer, T) = Sum(table, S)
<1>1. PICK u : Sums(u, longer, T) /\ Sum(longer, T) = u[Len(longer)]
  BY SumRuns
<1>2. PICK v : Sums(v, table, S) /\ Sum(table, S) = v[Len(table)]
  BY SumRuns
<1> DEFINE M == {m \in Nat : /\ m <= Len(table) => u[m] = v[m]
                             /\ m >= Len(table) /\ m <= Len(longer) => u[m] = v[Len(table)]}
<1>3. 0 \in M
  <2>1. u[0] = 0 /\ v[0] = 0 /\ Len(table) \in Nat
    BY <1>1, <1>2 DEF Sums
  <2> QED BY <2>1
<1>4. ASSUME NEW m \in Nat, m \in M  PROVE m + 1 \in M
  <2>0. Len(table) \in Nat /\ Len(longer) \in Nat
    OBVIOUS
  <2>1. ASSUME m + 1 <= Len(table)  PROVE u[m + 1] = v[m + 1]
    <3>1. m + 1 \in 1 .. Len(table) /\ m + 1 \in 1 .. Len(longer) /\ (m + 1) - 1 = m /\ u[m] = v[m]
      BY <1>4, <2>0, <2>1
    <3>2. u[m + 1] = u[m] + Part(longer, T, m + 1) /\ v[m + 1] = v[m] + Part(table, S, m + 1)
      BY <1>1, <1>2, <3>1 DEF Sums
    <3>3. Part(longer, T, m + 1) = Part(table, S, m + 1)
      BY <3>1 DEF Part
    <3> QED BY <3>1, <3>2, <3>3
  <2>2. ASSUME m + 1 > Len(table), m + 1 <= Len(longer)  PROVE u[m + 1] = v[Len(table)]
    <3>1. m + 1 \in 1 .. Len(longer) /\ (m + 1) - 1 = m /\ m >= Len(table) /\ m <= Len(longer)
      BY <2>0, <2>2
    <3>2. u[m + 1] = u[m] + Part(longer, T, m + 1) /\ m + 1 \notin T
      BY <1>1, <2>2, <3>1 DEF Sums
    <3>3. u[m] = v[Len(table)]
      BY <1>4, <3>1
    <3>4. v[Len(table)] + 0 = v[Len(table)]
      <4>1. v[Len(table)] \in Nat
        BY <1>2, SumNat
      <4> QED BY <4>1
    <3> QED BY <3>2, <3>3, <3>4 DEF Part
  <2>3. CASE m + 1 < Len(table)
    BY <2>0, <2>1, <2>3
  <2>4. CASE m + 1 = Len(table)
    BY <2>0, <2>1, <2>4
  <2>5. CASE m + 1 > Len(table)
    BY <2>0, <2>2, <2>5
  <2> QED BY <2>0, <2>3, <2>4, <2>5
<1> HIDE DEF M
<1>5. Len(longer) \in M
  BY <1>3, <1>4, SetInduction
<1> QED BY <1>1, <1>2, <1>5 DEF M

\* One row more, with the sum over the others unchanged.
LEMMA SumMore ==
  ASSUME NEW X, NEW table \in Seq(X), NEW longer \in Seq(X), NEW S, NEW T,
         Len(longer) = Len(table) + 1, \A n \in 1 .. Len(table) : longer[n] = table[n],
         \A n \in 1 .. Len(table) : n \in T <=> n \in S
  PROVE  Sum(longer, T)
           = Sum(table, S) + (IF Len(table) + 1 \in T THEN longer[Len(table) + 1].amount ELSE 0)
<1>1. PICK k \in Nat : k = Len(table) + 1
  OBVIOUS
<1>2. PICK row \in X : row = longer[k]
  BY <1>1
<1>3. Sum(Append(table, row), T) = Sum(table, T) + (IF Len(table) + 1 \in T THEN row.amount ELSE 0)
  BY SumStep
<1>4. Sum(table, T) = Sum(table, S)
  <2>1. \A n \in 1 .. Len(table) : Part(table, T, n) = Part(table, S, n)
    BY DEF Part
  <2> QED BY <2>1, SumSame
<1>5. Sum(longer, T) = Sum(Append(table, row), T)
  <2>0. Append(table, row) \in Seq(X)
    BY <1>2
  <2>1. PICK other \in Seq(X) : other = Append(table, row)
    BY <2>0
  <2>2. Len(longer) = Len(other) /\ \A n \in 1 .. Len(longer) : other[n] = longer[n]
    BY <1>1, <1>2, <2>1
  <2>3. \A n \in 1 .. Len(longer) : Part(longer, T, n) = Part(other, T, n)
    BY <2>2 DEF Part
  <2>4. Sum(longer, T) = Sum(other, T)
    BY <2>2, <2>3, SumSame
  <2> QED BY <2>1, <2>4
<1>6. longer[Len(table) + 1] = row
  BY <1>1, <1>2
<1> QED BY <1>3, <1>4, <1>5, <1>6

LEMMA RowAmounts ==
  ASSUME Base
  PROVE  /\ rows \in Seq(Row) /\ Len(rows) \in Nat /\ DOMAIN rows = 1 .. Len(rows)
         /\ \A n \in 1 .. Len(rows) : rows[n] \in Row /\ rows[n].amount \in Nat
<1>1. rows \in Seq(Row)
  BY DEF Base, Tables
<1>2. \A n \in 1 .. Len(rows) : rows[n] \in Row
  BY <1>1
<1>3. \A row \in Row : row.amount \in Nat
  BY CallTypes DEF Row
<1> QED BY <1>1, <1>2, <1>3

\* The sum over the rows of some kind, once the rows of a request are there too: its one row
\* adds its amount, if it is of that kind, and rows of other kinds add nothing.
LEMMA KindMore ==
  ASSUME Base, NEW r \in Requests, NEW kind, NEW row \in Row, req[r].own = <<row>>
  PROVE  Sum(Seen(r), Those(Seen(r), kind))
           = Sum(rows, Those(rows, kind)) + (IF row.by \in kind THEN row.amount ELSE 0)
<1>1. /\ Seen(r) \in Seq(Row) /\ Len(Seen(r)) = Len(rows) + 1
      /\ \A n \in 1 .. Len(rows) : Seen(r)[n] = rows[n]
      /\ Seen(r)[Len(rows) + 1] = row /\ DOMAIN Seen(r) = 1 .. (Len(rows) + 1)
  <2>1. rows \in Seq(Row) /\ req[r].own \in Seq(Row) /\ Len(req[r].own) = 1 /\ req[r].own[1] = row
    BY WhereItIs, RowAmounts DEF Request
  <2> QED BY <2>1 DEF Seen
<1>2. \A n \in 1 .. Len(rows) : n \in Those(Seen(r), kind) <=> n \in Those(rows, kind)
  BY <1>1, RowAmounts DEF Those
<1>3. Len(rows) + 1 \in Those(Seen(r), kind) <=> row.by \in kind
  BY <1>1, RowAmounts DEF Those
<1>4. Sum(Seen(r), Those(Seen(r), kind)) = Sum(rows, Those(rows, kind))
        + (IF Len(rows) + 1 \in Those(Seen(r), kind) THEN Seen(r)[Len(rows) + 1].amount ELSE 0)
  BY <1>1, <1>2, RowAmounts, SumMore
<1> QED BY <1>1, <1>3, <1>4

LEMMA KindSame ==
  ASSUME Base, NEW r \in Requests, NEW kind, \A i \in DOMAIN req[r].own : req[r].own[i].by \notin kind
  PROVE  Sum(Seen(r), Those(Seen(r), kind)) = Sum(rows, Those(rows, kind))
<1>1. /\ Seen(r) \in Seq(Row) /\ Len(Seen(r)) = Len(rows) + Len(req[r].own) /\ Len(req[r].own) \in Nat
      /\ \A n \in 1 .. Len(rows) : Seen(r)[n] = rows[n]
      /\ \A n \in 1 .. Len(Seen(r)) : n > Len(rows) =>
           n - Len(rows) \in DOMAIN req[r].own /\ Seen(r)[n] = req[r].own[n - Len(rows)]
  <2>1. rows \in Seq(Row) /\ req[r].own \in Seq(Row)
    BY WhereItIs, RowAmounts DEF Request
  <2> QED BY <2>1 DEF Seen
<1>2. \A n \in 1 .. Len(rows) : n \in Those(Seen(r), kind) <=> n \in Those(rows, kind)
  BY <1>1, RowAmounts DEF Those
<1>3. \A n \in 1 .. Len(Seen(r)) : n > Len(rows) => n \notin Those(Seen(r), kind)
  BY <1>1 DEF Those
<1> QED BY <1>1, <1>2, <1>3, RowAmounts, SumLonger

\* What a request has inserted says who it is.
LEMMA OwnKinds ==
  ASSUME Base, NEW r \in Requests, NEW i \in DOMAIN req[r].own
  PROVE  /\ req[r].own[i] \in Row
         /\ \/ /\ req[r].at \in PostSteps /\ req[r].op \in Receipts \cup {"reverse"}
               /\ req[r].own = <<req[r].own[i]>> /\ req[r].own[i].by = req[r].op
               /\ req[r].own[i].billed = (req[r].at # "commit")
               /\ req[r].op # "reverse" =>
                    req[r].own[i].amount = req[r].amount /\ req[r].own[i].undoes = 0
            \/ /\ req[r].at \in {"insertPayment", "commitPayment"} /\ req[r].op \in PayOps
               /\ ~req[r].own[i].billed /\ req[r].own[i].undoes = 0
               /\ IF req[r].op = "vendorPayment"
                  THEN req[r].own[i].by \in {"vendorPayment", "vendorFuel"}
                  ELSE /\ req[r].own = <<req[r].own[i]>> /\ req[r].own[i].by = req[r].op
                       /\ req[r].own[i].amount = req[r].amount
<1>1. req[r].own \in Seq(Row) /\ Fits(req[r].at, req[r].op)
  BY WhereItIs DEF Request
<1>2. req[r].own # << >> /\ req[r].own[i] \in Row
  BY <1>1
<1>3. req[r].at \in PostSteps \/ req[r].at \in {"insertPayment", "commitPayment"}
  BY <1>2, OwnRows
<1>4. req[r].op \in PayOps => req[r].at \notin PostSteps
  BY <1>1 DEF Fits, PayOps, Receipts
<1>5. CASE \E row \in Row : /\ req[r].own = <<row>> /\ Posting(req[r], row)
                            /\ req[r].at \in PostSteps /\ row.billed = (req[r].at # "commit")
                            /\ req[r].op \in Receipts \cup {"reverse"}
  <2>1. PICK row \in Row : /\ req[r].own = <<row>> /\ Posting(req[r], row)
                           /\ req[r].at \in PostSteps /\ row.billed = (req[r].at # "commit")
                           /\ req[r].op \in Receipts \cup {"reverse"}
    BY <1>5
  <2>2. req[r].own[i] = row
    BY <2>1
  <2>3. row.by = req[r].op /\ (req[r].op # "reverse" => row.amount = req[r].amount /\ row.undoes = 0)
    BY <2>1 DEF Posting
  <2> QED BY <1>2, <2>1, <2>2, <2>3
<1>6. CASE \E row \in Row : req[r].own = <<row>> /\ Paying(req[r], row) /\ req[r].op \in PayOps
  <2>1. PICK row \in Row : req[r].own = <<row>> /\ Paying(req[r], row) /\ req[r].op \in PayOps
    BY <1>6
  <2>2. req[r].own[i] = row
    BY <2>1
  <2> QED BY <1>2, <1>3, <1>4, <2>1, <2>2 DEF Paying
<1>7. CASE /\ req[r].op = "vendorPayment" /\ Len(req[r].own) = 2
           /\ Plain(req[r].own[1], "vendorPayment", req[r].amount)
           /\ Plain(req[r].own[2], "vendorFuel", req[r].fuel)
  <2>1. i = 1 \/ i = 2
    BY <1>1, <1>7
  <2>2. req[r].op \in PayOps
    BY <1>7 DEF PayOps
  <2> QED BY <1>2, <1>3, <1>4, <1>7, <2>1, <2>2 DEF Plain
<1> QED BY <1>2, <1>5, <1>6, <1>7, OwnRows

\* Who holds the trip keeps all others from having inserted a row; who holds its only
\* trip_financial, those that did not insert their own; and who holds the invoice, from
\* having inserted a row that names it.
LEMMA HoldersAlone ==
  ASSUME Base, NEW r \in Requests, NEW p \in Others(r)
  PROVE  /\ Trip \in held[p] => req[r].own = << >>
         /\ Financial \in held[p] /\ filed = 1 /\ ~req[r].files => req[r].own = << >>
         /\ Invoice \in held[p] => \A i \in DOMAIN req[r].own : ~req[r].own[i].billed
         /\ \A x : x \in held[p] => x \notin held[r]
<1>1. held[p] \cap (held[r] \cup Shared(r)) = {}
  BY DEF Base, LocksApart, Others
<1>2. req[r].own # << >> =>
        Trip \in Shared(r) /\ (filed = 1 /\ ~req[r].files => Financial \in Shared(r))
  BY DEF Shared, Parent
<1>3. (\E i \in DOMAIN req[r].own : req[r].own[i].billed) => Invoice \in Shared(r)
  BY DEF Shared
<1> QED BY <1>1, <1>2, <1>3

\* What was given back is the same when the rows that are new undo nothing.
LEMMA UndoneSame ==
  ASSUME Base, UndoesRows, NEW r \in Requests, NEW kind,
         \A i \in DOMAIN req[r].own : req[r].own[i].undoes = 0
  PROVE  Undone(Seen(r), Those(Seen(r), kind)) = Undone(rows, Those(rows, kind))
<1>1. /\ Seen(r) \in Seq(Row) /\ Len(Seen(r)) = Len(rows) + Len(req[r].own) /\ Len(req[r].own) \in Nat
      /\ \A n \in 1 .. Len(rows) : Seen(r)[n] = rows[n]
      /\ \A n \in 1 .. Len(Seen(r)) : n > Len(rows) =>
           n - Len(rows) \in DOMAIN req[r].own /\ Seen(r)[n] = req[r].own[n - Len(rows)]
  <2>1. rows \in Seq(Row) /\ req[r].own \in Seq(Row)
    BY WhereItIs, RowAmounts DEF Request
  <2> QED BY <2>1 DEF Seen
<1> DEFINE S == {i \in DOMAIN rows : rows[i].undoes \in Those(rows, kind)}
           T == {i \in DOMAIN Seen(r) : Seen(r)[i].undoes \in Those(Seen(r), kind)}
<1>2. 0 \notin Those(rows, kind) /\ 0 \notin Those(Seen(r), kind)
  BY <1>1, RowAmounts DEF Those
<1>3. \A n \in 1 .. Len(rows) : n \in Those(Seen(r), kind) <=> n \in Those(rows, kind)
  BY <1>1, RowAmounts DEF Those
<1>4. ASSUME NEW n \in 1 .. Len(rows)  PROVE n \in T <=> n \in S
  <2>1. n \in DOMAIN rows /\ n \in DOMAIN Seen(r) /\ Seen(r)[n] = rows[n]
    BY <1>1, RowAmounts
  <2>2. rows[n].undoes \in 1 .. Len(rows) \/ rows[n].undoes = 0
    BY <2>1, RowAmounts DEF UndoesRows
  <2> QED BY <1>2, <1>3, <2>1, <2>2
<1>5. \A n \in 1 .. Len(Seen(r)) : n > Len(rows) => n \notin T
  BY <1>1, <1>2
<1> HIDE DEF S, T
<1>6. Sum(Seen(r), T) = Sum(rows, S)
  BY <1>1, <1>4, <1>5, RowAmounts, SumLonger
<1> QED BY <1>6 DEF S, T, Undone

-----------------------------------------------------------------------------
(***************************************************************************)
(* Settlements: between its look at the position and its commit, a          *)
(* settlement holds the trip, and neither the rows, nor the terms, nor the   *)
(* settlement it adds to can change.                                        *)
(***************************************************************************)

Settling(r) ==
  (/\ req[r].op \in {"ownerSettlement", "routePay"}
   /\ req[r].at \in {"position", "lockFinancialToPay", "insertPayment", "commitPayment"}) =>
    /\ Trip \in held[r]
    /\ req[r].at # "position" =>
         /\ Covers(Net, rows, req[r].amount)
         /\ req[r].op = "ownerSettlement" => req[r].seen = book

Settlements == BookKeepsPace /\ \A r \in Requests : Settling(r)

LEMMA WhoSettles ==
  ASSUME Base, NEW r \in Requests, Arrive(r) \/ Step(r), UNCHANGED <<booked, mix>>
  PROVE  \/ Net' = Net /\ book' = book
         \/ Free(r, {Trip}) /\ book' = book
         \/ /\ CommitPayment(r) /\ Net' = Net /\ req[r].op = "ownerSettlement"
            /\ book' = req[r].seen + req[r].amount
<1>1. CASE Arrive(r)
  <2>1. UNCHANGED vendor
    BY <1>1, ArriveStarts
  <2> QED BY <2>1 DEF vendor, Net
<1>2. CASE VendorStep(r)
  <2>1. CASE AgreeHire(r) \/ EditHire(r)
    BY <2>1 DEF AgreeHire, EditHire
  <2>2. CASE ConfirmOrCancelHire(r)
    <3>1. req[r].op \in HireSteps /\ req[r].op # "hireVehicle"
      BY <2>2, WhereItIs DEF ConfirmOrCancelHire, Fits, HireSteps
    <3>2. hire.status # "NONE"
      BY <3>1, WhereItIs DEF Brings
    <3>3. hire \in [status : HireStates, net : Nets \cup {0}, edits : Nat]
      BY DEF Base, Tables
    <3>4. hire'.net = hire.net /\ hire'.status \in {"CONFIRMED", "CANCELLED"} /\ book' = book
      BY <2>2, <3>3 DEF ConfirmOrCancelHire
    <3> QED BY <3>2, <3>4 DEF Net
  <2>3. CASE UNCHANGED vendor \/ WriteAdjusted(r)
    BY <2>3 DEF vendor, Net, WriteAdjusted
  <2> QED BY <1>2, <2>1, <2>2, <2>3 DEF VendorStep, CheckReference, LockTripForPayment, CheckPosition,
            LockFinancialToPay, InsertPayment, LockAdvance, CheckUnadjusted
<1>3. CASE CommitPayment(r)
  <2>1. Net' = Net
    BY <1>3 DEF CommitPayment, Net
  <2>2. book' = IF req[r].op = "ownerSettlement" THEN req[r].seen + req[r].amount ELSE book
    BY <1>3 DEF CommitPayment
  <2> QED BY <1>3, <2>1, <2>2
<1>4. CASE UNCHANGED vendor
  BY <1>4 DEF vendor, Net
<1>5. CASE Step(r)
  BY <1>2, <1>3, <1>4, <1>5 DEF Step, RollBack, TryAgain
<1> QED BY <1>1, <1>5

\* The settlement at its own steps.
LEMMA SettlingKept ==
  ASSUME Base, Settlements, NEW r \in Requests, Does(r), Arrive(r) \/ Step(r), UNCHANGED <<booked, mix>>
  PROVE  Settling(r)'
<1> SUFFICES ASSUME req'[r].op \in {"ownerSettlement", "routePay"},
                    req'[r].at \in {"position", "lockFinancialToPay", "insertPayment", "commitPayment"}
             PROVE  /\ Trip \in held'[r]
                    /\ req'[r].at # "position" =>
                         /\ Covers(Net', rows', req'[r].amount)
                         /\ req'[r].op = "ownerSettlement" => req'[r].seen = book'
  BY DEF Settling, Covers, OwnerPaid, OwnerReturned, Undone
<1>0. req \in [Requests -> Request] /\ req[r] \in Request /\ held \in [Requests -> SUBSET Lockable]
      /\ Settling(r)
  BY DEF Base, Playing, LocksApart, Settlements
<1>1. ~Arrive(r)
  <2>1. ~Starts(req'[r])
    BY DEF Starts, HireSteps
  <2> QED BY <2>1, ArriveStarts
<1>2. req'[r] # Idle
  BY DEF Idle
<1>3. ~RollBack(r) /\ ~Refuse(r) /\ ~End(r)
  BY <1>2, MovesKeep DEF RollBack
<1>4. req[r].op = req'[r].op /\ req'[r].amount = req[r].amount
  BY <1>1, <1>2, OpKept DEF Keeps, SameOp
<1>5. Step(r) /\ req[r].op \in PayOps
  BY <1>1, <1>4 DEF PayOps
<1>6. ~CommitPayment(r)
  BY <1>0, <1>2 DEF CommitPayment, Age
<1>7. CheckReference(r) \/ LockTripForPayment(r) \/ CheckPosition(r) \/ LockFinancialToPay(r)
      \/ InsertPayment(r)
  BY <1>3, <1>5, <1>6, StepsOfPayment
<1>8. CASE CheckReference(r)
  <2>1. Goto(r, IF req[r].op = "ownerAdvance" THEN "insertPayment" ELSE "lockTripForPayment")
    BY <1>3, <1>8 DEF CheckReference
  <2>2. req[r].op # "ownerAdvance"
    BY <1>4
  <2>3. req'[r].at = "lockTripForPayment"
    BY <1>0, <2>1, <2>2 DEF Goto
  <2> QED BY <2>3
<1>9. CASE LockTripForPayment(r)
  <2>1. req[r].op # "vendorPayment"
    BY <1>4
  <2>2. LockRow(r, Trip, "position")
    BY <1>9, <2>1 DEF LockTripForPayment
  <2>3. req'[r].at = "position" /\ Trip \in held'[r]
    BY <1>0, <2>2 DEF LockRow, Goto
  <2> QED BY <2>3
<1>10. UNCHANGED vendor /\ Net' = Net /\ book' = book
  BY <1>7 DEF CheckReference, LockTripForPayment, CheckPosition, LockFinancialToPay, InsertPayment,
       vendor, Net
<1>11. CASE CheckPosition(r)
  <2>1. req[r].op # "routeAdvance" /\ req[r].at = "position"
    BY <1>4, <1>11 DEF CheckPosition
  <2>2. Covers(Net, rows, req[r].amount) /\ UNCHANGED <<rows, held, filed>>
        /\ req' = [req EXCEPT ![r].seen = book,
               ![r].at = IF req[r].op = "ownerSettlement" THEN "insertPayment" ELSE "lockFinancialToPay"]
    BY <1>3, <1>11, <2>1 DEF CheckPosition
  <2>3. req'[r].seen = book
    BY <1>0, <2>2 DEF Request
  <2>4. Trip \in held[r]
    BY <1>0, <1>4, <2>1 DEF Settling
  <2> QED BY <1>4, <1>10, <2>2, <2>3, <2>4
<1>12. CASE LockFinancialToPay(r) \/ InsertPayment(r)
  <2>1. req[r].at \in {"lockFinancialToPay", "insertPayment"}
    BY <1>12 DEF LockFinancialToPay, InsertPayment
  <2>2. /\ Trip \in held[r] /\ Covers(Net, rows, req[r].amount)
        /\ req[r].op = "ownerSettlement" => req[r].seen = book
    BY <1>0, <1>4, <2>1 DEF Settling
  <2>3. rows' = rows /\ held[r] \subseteq held'[r] /\ req'[r].seen = req[r].seen
    <3>1. CASE LockFinancialToPay(r)
      BY <1>0, <3>1 DEF LockFinancialToPay, TakeFinancial, LockRow, Goto, Request
    <3>2. CASE InsertPayment(r)
      <4>1. PICK row, l : InsertRow(r, row, l)
        BY <3>2, Zenon DEF InsertPayment
      <4>2. req' = [req EXCEPT ![r].at = l, ![r].own = Append(@, row), ![r].files = @ \/ filed = 0]
            /\ UNCHANGED <<rows, held>>
        BY <1>3, <4>1 DEF InsertRow
      <4> QED BY <1>0, <4>2 DEF Request
    <3> QED BY <1>12, <3>1, <3>2
  <2> QED BY <1>4, <1>10, <2>2, <2>3
<1> QED BY <1>7, <1>8, <1>9, <1>11, <1>12

\* A settlement at the steps of another request.
LEMMA SettlingUndisturbed ==
  ASSUME Base, Settlements, NEW r \in Requests, Does(r), Arrive(r) \/ Step(r), UNCHANGED <<booked, mix>>,
         NEW p \in Others(r)
  PROVE  Settling(p)'
<1>1. Settling(p) /\ p \in Requests /\ p # r
  BY DEF Settlements, Others
<1>2. /\ req'[p].at = req[p].at /\ req'[p].op = req[p].op /\ req'[p].amount = req[p].amount
      /\ req'[p].seen = req[p].seen /\ held'[p] = held[p]
  BY OthersSame
<1> SUFFICES ASSUME req[p].op \in {"ownerSettlement", "routePay"}, Trip \in held[p]
             PROVE  rows' = rows /\ Net' = Net /\ book' = book
  BY <1>1, <1>2 DEF Settling, Covers, OwnerPaid, OwnerReturned, Undone
<1>3. req[r].own = << >> /\ Trip \notin held[r] /\ ~Free(r, {Trip})
  BY HoldersAlone DEF Free
<1>4. rows' = rows
  <2>1. rows \in Seq(Row)
    BY RowAmounts
  <2>2. rows' = rows \/ rows' = rows \o req[r].own
    BY WhoCommits DEF Commits, Seen
  <2> QED BY <1>3, <2>1, <2>2
<1>5. ~(CommitPayment(r) /\ req[r].op = "ownerSettlement")
  <2>1. Settling(r)
    BY DEF Settlements
  <2> QED BY <1>3, <2>1 DEF Settling, CommitPayment
<1> QED BY <1>3, <1>4, <1>5, WhoSettles

LEMMA SettlementsKept ==
  ASSUME Base, Settlements, NEW r \in Requests, Does(r), Arrive(r) \/ Step(r), UNCHANGED <<booked, mix>>
  PROVE  Settlements'
<1>1. book = Sum(rows, Those(rows, {"ownerSettlement"})) /\ Settling(r)
  BY DEF Settlements, BookKeepsPace
<1>2. CASE CommitPayment(r) /\ req[r].op = "ownerSettlement"
  <2>1. req[r].at = "commitPayment" /\ rows' = Seen(r) /\ book' = req[r].seen + req[r].amount
    BY <1>2 DEF CommitPayment
  <2>2. req[r].seen = book
    BY <1>2, <2>1, <1>1 DEF Settling
  <2>3. PICK row \in Row : req[r].own = <<row>> /\ Paying(req[r], row)
    BY <1>2, <2>1, WhereItIs DEF Inserts, PostSteps
  <2>4. row.by = "ownerSettlement" /\ row.amount = req[r].amount
    BY <1>2, <2>3 DEF Paying
  <2>5. Sum(Seen(r), Those(Seen(r), {"ownerSettlement"}))
          = Sum(rows, Those(rows, {"ownerSettlement"})) + req[r].amount
    BY <2>3, <2>4, KindMore
  <2>6. BookKeepsPace'
    BY <1>1, <2>1, <2>2, <2>5 DEF BookKeepsPace
  <2> QED BY <2>6, SettlingKept, SettlingUndisturbed DEF Settlements, Others
<1>3. CASE ~(CommitPayment(r) /\ req[r].op = "ownerSettlement")
  <2>1. book' = book
    BY <1>3, WhoSettles
  <2>2. CASE rows' = rows
    BY <1>1, <2>1, <2>2, SettlingKept, SettlingUndisturbed DEF Settlements, BookKeepsPace, Others
  <2>3. CASE rows' # rows
    <3>1. rows' = Seen(r) /\ (req[r].at = "commitPayment" => CommitPayment(r))
      BY <2>3, WhoCommits DEF Commits
    <3>2. ASSUME NEW i \in DOMAIN req[r].own  PROVE req[r].own[i].by \notin {"ownerSettlement"}
      <4>1. rows \in Seq(Row)
        BY RowAmounts
      <4>2. req[r].at \in {"stamp", "commit"} \/ CommitPayment(r)
        BY <2>3, WhoCommits
      <4> QED BY <1>3, <4>2, OwnKinds DEF Receipts, PostSteps, CommitPayment
    <3>3. Sum(Seen(r), Those(Seen(r), {"ownerSettlement"})) = Sum(rows, Those(rows, {"ownerSettlement"}))
      BY <3>2, KindSame
    <3>4. BookKeepsPace'
      BY <1>1, <2>1, <3>1, <3>3 DEF BookKeepsPace
    <3> QED BY <3>4, SettlingKept, SettlingUndisturbed DEF Settlements, Others
  <2> QED BY <2>2, <2>3
<1> QED BY <1>2, <1>3

\* What a settlement that commits was covered by, it is covered by then.
LEMMA SettledWithinPosition ==
  ASSUME Base, UndoesRows, Settlements, NEW r \in Requests, Does(r), Arrive(r) \/ Step(r),
         UNCHANGED <<booked, mix>>, NEW i \in Written, rows'[i].by \in {"ownerSettlement", "routePay"}
  PROVE  OwnerPaid(rows') <= Net' + OwnerReturned(rows')
<1>1. i \in DOMAIN rows' /\ i \notin DOMAIN rows /\ rows' # rows
  BY DEF Written
<1>2. rows' = Seen(r)
  BY <1>1, WhoCommits DEF Commits
<1>3. i - Len(rows) \in DOMAIN req[r].own /\ rows'[i] = req[r].own[i - Len(rows)]
  BY <1>1, <1>2, RowsAfter
<1>4. PICK row : row = req[r].own[i - Len(rows)]
  OBVIOUS
<1>5. /\ req[r].op \in {"ownerSettlement", "routePay"} /\ req[r].own = <<row>> /\ row \in Row
      /\ row.by = req[r].op /\ row.amount = req[r].amount /\ row.undoes = 0
      /\ req[r].at \in {"insertPayment", "commitPayment"}
  BY <1>3, <1>4, OwnKinds DEF Receipts
<1>6. CommitPayment(r) /\ req[r].at = "commitPayment"
  BY <1>1, <1>5, WhoCommits
<1>7. Covers(Net, rows, req[r].amount) /\ Net' = Net
  BY <1>5, <1>6 DEF Settlements, Settling, CommitPayment, Net
<1>8. OwnerPaid(Seen(r)) = OwnerPaid(rows) + req[r].amount
  <2>1. row.by \in ToOwner
    BY <1>5 DEF ToOwner
  <2>2. Sum(Seen(r), Those(Seen(r), ToOwner)) = Sum(rows, Those(rows, ToOwner)) + row.amount
    BY <1>5, <2>1, KindMore
  <2> QED BY <1>5, <2>2 DEF OwnerPaid
<1>9. OwnerReturned(Seen(r)) = OwnerReturned(rows)
  <2>1. \A n \in DOMAIN req[r].own : req[r].own[n].undoes = 0
    BY <1>5
  <2> QED BY <2>1, UndoneSame DEF OwnerReturned
<1> QED BY <1>2, <1>7, <1>8, <1>9 DEF Covers

-----------------------------------------------------------------------------
(***************************************************************************)
(* Guards: from its guard to its commit, a receipt holds the invoice and a   *)
(* client payment the trip_financial, and what the guard summed stays.       *)
(***************************************************************************)

\* What a row adds to the money received on the invoice.
LEMMA ReceivedAppend ==
  ASSUME NEW table \in Seq(Row), NEW row \in Row
  PROVE  Received(Append(table, row))
           = Received(table) + (IF row.by \in Receipts /\ row.billed THEN row.amount ELSE 0)
<1>1. PICK longer \in Seq(Row) : longer = Append(table, row)
  <2>1. Append(table, row) \in Seq(Row)
    OBVIOUS
  <2> QED BY <2>1
<1>2. /\ Len(longer) = Len(table) + 1 /\ \A n \in 1 .. Len(table) : longer[n] = table[n]
      /\ longer[Len(table) + 1] = row /\ DOMAIN longer = 1 .. (Len(table) + 1)
      /\ DOMAIN table = 1 .. Len(table) /\ Len(table) \in Nat
  BY <1>1
<1>3. \A n \in 1 .. Len(table) : table[n].amount \in Nat
  <2>1. \A n \in 1 .. Len(table) : table[n] \in Row
    OBVIOUS
  <2>2. \A x \in Row : x.amount \in Nat
    BY CallTypes DEF Row
  <2> QED BY <2>1, <2>2
<1> DEFINE S == {i \in Those(table, Receipts) : table[i].billed}
           T == {i \in Those(longer, Receipts) : longer[i].billed}
<1>4. \A n \in 1 .. Len(table) : n \in T <=> n \in S
  BY <1>2 DEF Those
<1>5. Len(table) + 1 \in T <=> (row.by \in Receipts /\ row.billed)
  BY <1>2 DEF Those
<1> HIDE DEF S, T
<1>6. Sum(longer, T) = Sum(table, S)
        + (IF Len(table) + 1 \in T THEN longer[Len(table) + 1].amount ELSE 0)
  BY <1>2, <1>3, <1>4, SumMore
<1>7. Sum(longer, T) = Sum(table, S) + (IF row.by \in Receipts /\ row.billed THEN row.amount ELSE 0)
  BY <1>2, <1>5, <1>6
<1> QED BY <1>1, <1>7 DEF S, T, Received, Billed

LEMMA ReceivedMore ==
  ASSUME Base, NEW r \in Requests, NEW row \in Row, req[r].own = <<row>>
  PROVE  Received(Seen(r))
           = Received(rows) + (IF row.by \in Receipts /\ row.billed THEN row.amount ELSE 0)
<1>1. rows \in Seq(Row)
  BY RowAmounts
<1>2. Seen(r) = Append(rows, row)
  BY <1>1 DEF Seen
<1> QED BY <1>1, <1>2, ReceivedAppend

LEMMA ReceivedSame ==
  ASSUME Base, NEW r \in Requests, \A i \in DOMAIN req[r].own : ~req[r].own[i].billed
  PROVE  Received(Seen(r)) = Received(rows)
<1>1. /\ Seen(r) \in Seq(Row) /\ Len(Seen(r)) = Len(rows) + Len(req[r].own) /\ Len(req[r].own) \in Nat
      /\ \A n \in 1 .. Len(rows) : Seen(r)[n] = rows[n]
      /\ \A n \in 1 .. Len(Seen(r)) : n > Len(rows) =>
           n - Len(rows) \in DOMAIN req[r].own /\ Seen(r)[n] = req[r].own[n - Len(rows)]
  <2>1. rows \in Seq(Row) /\ req[r].own \in Seq(Row)
    BY WhereItIs, RowAmounts DEF Request
  <2> QED BY <2>1 DEF Seen
<1> DEFINE S == {i \in Those(rows, Receipts) : rows[i].billed}
           T == {i \in Those(Seen(r), Receipts) : Seen(r)[i].billed}
<1>2. \A n \in 1 .. Len(rows) : n \in T <=> n \in S
  BY <1>1, RowAmounts DEF Those
<1>3. \A n \in 1 .. Len(Seen(r)) : n > Len(rows) => n \notin T
  BY <1>1 DEF Those
<1> HIDE DEF S, T
<1>4. Sum(Seen(r), T) = Sum(rows, S)
  BY <1>1, <1>2, <1>3, RowAmounts, SumLonger
<1> QED BY <1>4 DEF S, T, Received, Billed

LEMMA ReceivedNat ==
  ASSUME Base
  PROVE  Received(rows) \in Nat
BY RowAmounts, SumNat DEF Received

\* The trip has one trip_financial at most, the request's own included.
OneFiled(r) == filed = 0 \/ (filed = 1 /\ ~req[r].files)

\* Who comes to a guard comes by its own lock; as long as there is one trip_financial at
\* most, a client payment holds it or has inserted it.
Guarding(r) ==
  /\ req[r].at \in {"findFinancial", "createFinancial"} => req[r].op = "customerPayment"
  /\ req[r].at = "lockTripForReceipt" => req[r].op # "clientPayment"
  /\ req[r].at = "lockInvoice" => req[r].op = "receipt"
  /\ req[r].at = "lockFinancial" => req[r].op = "clientPayment"
  /\ (req[r].op = "receipt" /\ (req[r].at \in {"guard", "insertReceipt"} \/ req[r].own # << >>)) =>
       /\ Invoice \in held[r]
       /\ req[r].at # "guard" => Received(rows) + req[r].amount <= Total
  /\ (/\ req[r].op = "clientPayment" /\ OneFiled(r)
      /\ req[r].at \in {"guard", "insertReceipt"} \/ req[r].own # << >>) =>
       /\ IF filed = 0 THEN req[r].files ELSE Financial \in held[r]
       /\ req[r].at # "guard" => Collected(rows) + req[r].amount <= Total

Guards == \A r \in Requests : Guarding(r)

LEMMA GuardingKept ==
  ASSUME Base, Guards, NEW r \in Requests, Does(r), Arrive(r) \/ Step(r), UNCHANGED <<booked, mix>>
  PROVE  Guarding(r)'
<1>0. req \in [Requests -> Request] /\ req[r] \in Request /\ held \in [Requests -> SUBSET Lockable]
      /\ Guarding(r) /\ Fits(req'[r].at, req'[r].op)
  BY DEF Base, Playing, LocksApart, Guards, Does, Plays
<1>1. CASE Arrive(r)
  <2>1. Starts(req'[r]) /\ req'[r].own = << >>
    BY <1>1, ArriveStarts
  <2>2. req'[r].at \notin {"lockTripForReceipt", "lockInvoice", "lockFinancial", "guard"}
    BY <2>1 DEF Starts, HireSteps
  <2>3. req'[r].at = "insertReceipt" => req'[r].op = "customerPayment"
    BY <2>1 DEF Starts, HireSteps
  <2>4. req'[r].at \in {"findFinancial", "createFinancial"} => req'[r].op = "customerPayment"
    BY <2>1 DEF Starts, HireSteps
  <2> QED BY <2>1, <2>2, <2>3, <2>4 DEF Guarding
<1>2. CASE req'[r] = Idle
  BY <1>2 DEF Guarding, Idle
<1>3. CASE TryAgain(r)
  <2>1. req'[r].at = "key" /\ req'[r].own = << >>
    BY <1>0, <1>3 DEF TryAgain, Idle
  <2> QED BY <2>1 DEF Guarding
<1>4. CASE req'[r].op \notin Receipts
  <2>1. req'[r].at \notin ReceiptSteps
    BY <1>0, <1>4 DEF Fits
  <2> QED BY <1>4, <2>1 DEF Guarding, Receipts, ReceiptSteps
<1>5. CASE ~Arrive(r) /\ req'[r] # Idle /\ ~TryAgain(r) /\ req'[r].op \in Receipts
  <2>1. req'[r].op = req[r].op /\ req'[r].amount = req[r].amount
    <3>1. ~(BillRead(r) /\ req'[r].op = "billPump")
      BY <1>5 DEF Receipts
    <3> QED BY <1>5, <3>1, OpKept DEF Keeps, SameOp
  <2>2. ~RollBack(r) /\ ~Refuse(r) /\ ~End(r) /\ ~Commit(r)
    BY <1>5, MovesKeep DEF RollBack
  <2>3. \/ CheckKey(r) \/ LockTripForReceipt(r) \/ LockInvoice(r) \/ LockFinancial(r)
        \/ GuardAmount(r) \/ InsertReceipt(r) \/ SumReceipts(r)
        \/ FindFinancial(r) \/ CreateFinancial(r)
    BY <1>5, <2>1, <2>2, StepsOfReceipt DEF Stamp, CommitUnbilled
  <2>4. req[r].at \in ReceiptSteps => req[r].own = << >>
    BY WhereItIs DEF ReceiptSteps, PostSteps
  <2>5. CASE CheckKey(r)
    <3>1. \/ Goto(r, "sum")
          \/ Goto(r, IF req[r].op = "clientPayment" THEN "lockFinancial" ELSE "lockTripForReceipt")
      BY <2>2, <2>5 DEF CheckKey
    <3>2. req[r].own = << >>
      BY <2>4, <2>5 DEF CheckKey, ReceiptSteps
    <3>3. \/ req'[r].at = "sum"
          \/ req[r].op = "clientPayment" /\ req'[r].at = "lockFinancial"
          \/ req[r].op # "clientPayment" /\ req'[r].at = "lockTripForReceipt"
      <4>1. \A l : Goto(r, l) => req'[r].at = l
        BY <1>0 DEF Goto
      <4> QED BY <3>1, <4>1
    <3>4. req'[r].own = << >>
      BY <1>0, <3>1, <3>2 DEF Goto, Request
    <3> QED BY <2>1, <3>3, <3>4 DEF Guarding
  <2>6. CASE LockTripForReceipt(r)
    <3>1. Goto(r, IF req[r].op = "receipt" THEN "lockInvoice" ELSE "insertReceipt")
          /\ req[r].op # "clientPayment" /\ req[r].own = << >>
      BY <1>0, <2>4, <2>6 DEF LockTripForReceipt, LockRow, Guarding, ReceiptSteps
    <3>2. /\ req[r].op = "receipt" => req'[r].at = "lockInvoice"
          /\ req[r].op # "receipt" => req'[r].at = "insertReceipt"
      BY <1>0, <3>1 DEF Goto
    <3>3. req'[r].own = << >>
      BY <1>0, <3>1 DEF Goto, Request
    <3> QED BY <2>1, <3>1, <3>2, <3>3 DEF Guarding
  <2>7. CASE LockInvoice(r)
    <3>1. Goto(r, "guard") /\ req[r].op = "receipt" /\ held' = [held EXCEPT ![r] = @ \cup {Invoice}]
      BY <1>0, <2>7 DEF LockInvoice, LockRow, Guarding
    <3>2. req'[r].at = "guard" /\ Invoice \in held'[r]
      BY <1>0, <3>1 DEF Goto
    <3> QED BY <2>1, <3>1, <3>2 DEF Guarding
  <2>8. CASE LockFinancial(r)
    <3>1. TakeFinancial(r, "guard") /\ req[r].op = "clientPayment"
      BY <1>0, <2>8 DEF LockFinancial, Guarding
    <3>2. CASE /\ filed = 0 /\ filed' = filed
               /\ req' = [req EXCEPT ![r].at = "guard", ![r].files = TRUE]
      <4>1. req'[r].at = "guard" /\ req'[r].files
        BY <1>0, <3>2 DEF Request
      <4> QED BY <2>1, <3>1, <3>2, <4>1 DEF Guarding
    <3>3. CASE filed = 1 /\ LockRow(r, Financial, "guard")
      <4>1. req'[r].at = "guard" /\ Financial \in held'[r] /\ filed' # 0
        BY <1>0, <3>3 DEF LockRow, Goto
      <4> QED BY <2>1, <3>1, <4>1 DEF Guarding
    <3>4. CASE filed = 2 /\ filed' = filed /\ Goto(r, "guard")
      <4>1. req'[r].at = "guard" /\ filed' = 2
        BY <1>0, <3>4 DEF Goto
      <4>2. ~OneFiled(r)'
        BY <4>1 DEF OneFiled
      <4> QED BY <2>1, <3>1, <4>1, <4>2 DEF Guarding
    <3> QED BY <3>1, <3>2, <3>3, <3>4 DEF TakeFinancial
  <2>9. CASE GuardAmount(r)
    <3>1. PICK before : before = IF req[r].op = "receipt" THEN Received(rows) ELSE Collected(rows)
      OBVIOUS
    <3>2. /\ before + req[r].amount <= Total /\ Goto(r, "insertReceipt") /\ UNCHANGED <<rows, held, filed>>
          /\ req[r].at = "guard"
      BY <2>2, <2>9, <3>1 DEF GuardAmount
    <3>3. req'[r].at = "insertReceipt"
      BY <1>0, <3>2 DEF Goto
    <3>4. /\ req[r].op = "receipt" => Invoice \in held[r] /\ Received(rows) + req[r].amount <= Total
          /\ req[r].op = "clientPayment" /\ OneFiled(r) =>
               /\ IF filed = 0 THEN req[r].files ELSE Financial \in held[r]
               /\ Collected(rows) + req[r].amount <= Total
      BY <1>0, <3>1, <3>2 DEF Guarding
    <3>5. Received(rows)' = Received(rows) /\ Collected(rows)' = Collected(rows)
      BY <3>2 DEF Received, Billed, Collected, Those, Undone
    <3>6. req'[r].files = req[r].files
      BY <1>0, <3>2 DEF Goto, Request
    <3>7. OneFiled(r)' = OneFiled(r)
      BY <3>2, <3>6 DEF OneFiled
    <3> QED BY <2>1, <3>2, <3>3, <3>4, <3>5, <3>6, <3>7 DEF Guarding
  <2>10. CASE InsertReceipt(r)
    <3>1. PICK row, l : InsertRow(r, row, l) /\ l \in {"sum", "commit"}
      <4>1. PICK b, row : InsertRow(r, row, IF b THEN "sum" ELSE "commit")
        BY <2>10, Zenon DEF InsertReceipt
      <4>2. PICK l : l = IF b THEN "sum" ELSE "commit"
        OBVIOUS
      <4> QED BY <4>1, <4>2
    <3>2. /\ UNCHANGED <<rows, held, filed>>
          /\ req' = [req EXCEPT ![r].at = l, ![r].own = Append(@, row), ![r].files = @ \/ filed = 0]
      BY <2>2, <3>1 DEF InsertRow
    <3>3. req'[r].at \in {"sum", "commit"} /\ req'[r].files = (req[r].files \/ filed = 0)
      BY <1>0, <3>1, <3>2 DEF Request
    <3>4. /\ req[r].op = "receipt" => Invoice \in held[r] /\ Received(rows) + req[r].amount <= Total
          /\ req[r].op = "clientPayment" /\ OneFiled(r) =>
               /\ IF filed = 0 THEN req[r].files ELSE Financial \in held[r]
               /\ Collected(rows) + req[r].amount <= Total
      BY <1>0, <2>10 DEF Guarding, InsertReceipt
    <3>5. Received(rows)' = Received(rows) /\ Collected(rows)' = Collected(rows)
      BY <3>2 DEF Received, Billed, Collected, Those, Undone
    <3>6. OneFiled(r)' => OneFiled(r)
      BY <3>2, <3>3 DEF OneFiled
    <3>7. filed' = 0 => req'[r].files
      BY <3>2, <3>3
    <3> QED BY <2>1, <3>2, <3>3, <3>4, <3>5, <3>6, <3>7 DEF Guarding
  <2>11. CASE SumReceipts(r)
    <3>1. UNCHANGED <<rows, held, filed>> /\ req[r].at = "sum"
          /\ req' = [req EXCEPT ![r].at = "stamp", ![r].seen = Received(Seen(r))]
      BY <2>11 DEF SumReceipts
    <3>2. req'[r].at = "stamp" /\ req'[r].own = req[r].own /\ req'[r].files = req[r].files
      BY <1>0, <3>1 DEF Request
    <3>3. Received(rows)' = Received(rows) /\ Collected(rows)' = Collected(rows)
      BY <3>1 DEF Received, Billed, Collected, Those, Undone
    <3>4. OneFiled(r)' = OneFiled(r)
      BY <3>1, <3>2 DEF OneFiled
    <3> QED BY <1>0, <2>1, <3>1, <3>2, <3>3, <3>4 DEF Guarding
  <2>12. CASE FindFinancial(r) \/ CreateFinancial(r)
    <3>1. req[r].at \in {"findFinancial", "createFinancial"} /\ \E l : Goto(r, l)
      BY <2>2, <2>12 DEF FindFinancial, CreateFinancial
    <3>2. req[r].op = "customerPayment"
      BY <1>0, <3>1 DEF Guarding
    <3>3. req'[r].at \notin {"lockInvoice", "lockFinancial"}
      <4>1. \A l : Goto(r, l) => req'[r].at = l
        BY <1>0 DEF Goto
      <4> QED BY <2>2, <2>12, <4>1 DEF FindFinancial, CreateFinancial
    <3> QED BY <2>1, <3>2, <3>3 DEF Guarding
  <2> QED BY <2>3, <2>5, <2>6, <2>7, <2>8, <2>9, <2>10, <2>11, <2>12
<1> QED BY <1>1, <1>2, <1>3, <1>4, <1>5

LEMMA GuardsKept ==
  ASSUME Base, Guards, NEW r \in Requests, Does(r), Arrive(r) \/ Step(r), UNCHANGED <<booked, mix>>
  PROVE  Guards'
<1>1. ASSUME NEW p \in Others(r)  PROVE Guarding(p)'
  <2>1. Guarding(p)
    BY DEF Guards, Others
  <2>2. /\ req'[p].at = req[p].at /\ req'[p].op = req[p].op /\ req'[p].amount = req[p].amount
        /\ req'[p].own = req[p].own /\ req'[p].files = req[p].files /\ held'[p] = held[p]
    BY OthersSame
  <2>3. Invoice \in held[p] => Received(rows)' = Received(rows)
    <3>1. CASE rows' = rows
      BY <3>1 DEF Received, Billed, Those
    <3>2. CASE rows' = Seen(r) /\ Invoice \in held[p]
      <4>1. Received(Seen(r)) = Received(rows)
        BY <3>2, HoldersAlone, ReceivedSame
      <4>2. Received(rows)' = Received(rows')
        BY DEF Received, Billed, Those
      <4> QED BY <3>2, <4>1, <4>2
    <3> QED BY <3>1, <3>2, WhoCommits DEF Commits
  <2>4. ASSUME OneFiled(p)',
               req[p].op = "clientPayment", req[p].at \in {"guard", "insertReceipt"} \/ req[p].own # << >>
        PROVE  OneFiled(p) /\ filed' = filed /\ rows' = rows
    <3>1. filed \in 0 .. 2 /\ (filed = 0 => (req[r].own # << >> => req[r].files))
      BY DEF Base, Filing
    <3>2. filed' = filed \/ (filed' = filed + 1 /\ filed < 2) \/ (filed' = filed /\ filed = 2)
      <4>1. filed' = filed \/ filed' = OneMore
        BY DEF Does, Stays, Locks, Files, Creates, Puts, Commits
      <4> QED BY <3>1, <4>1 DEF OneMore
    <3>7. filed' = 0 \/ (filed' = 1 /\ ~req[p].files)
      BY <2>2, <2>4 DEF OneFiled
    <3>3. OneFiled(p)
      BY <3>1, <3>2, <3>7 DEF OneFiled
    <3>4. IF filed = 0 THEN req[p].files ELSE Financial \in held[p]
      BY <2>1, <2>4, <3>3 DEF Guarding
    <3>5. filed' = filed
      BY <3>1, <3>2, <3>4, <3>7
    <3>6. CASE rows' # rows
      <4>1. Commits(r)
        BY <3>6, WhoCommits
      <4>2. ~req[r].files
        BY <3>1, <3>3, <3>5, <4>1 DEF Commits, OneMore, OneFiled
      <4>3. req[r].own = << >>
        BY <3>1, <3>3, <3>4, <4>2, HoldersAlone DEF OneFiled
      <4>4. rows' = rows
        BY <4>1, <4>3, RowAmounts DEF Commits, Seen
      <4> QED BY <3>6, <4>4
    <3> QED BY <3>3, <3>5, <3>6
  <2>5. rows' = rows => Collected(rows)' = Collected(rows)
    BY DEF Collected, Those, Undone
  <2>6. ASSUME OneFiled(p)',
               req[p].op = "clientPayment", req[p].at \in {"guard", "insertReceipt"} \/ req[p].own # << >>
        PROVE  /\ IF filed' = 0 THEN req'[p].files ELSE Financial \in held'[p]
               /\ req[p].at # "guard" => Collected(rows)' + req[p].amount <= Total
    <3>1. OneFiled(p) /\ filed' = filed /\ Collected(rows)' = Collected(rows)
      BY <2>4, <2>5, <2>6
    <3>2. /\ IF filed = 0 THEN req[p].files ELSE Financial \in held[p]
          /\ req[p].at # "guard" => Collected(rows) + req[p].amount <= Total
      BY <2>1, <2>6, <3>1 DEF Guarding
    <3>3. IF filed' = 0 THEN req'[p].files ELSE Financial \in held'[p]
      BY <2>2, <3>1, <3>2
    <3> QED BY <3>1, <3>2, <3>3
  <2>7. Guarding(p)' <=>
          /\ req[p].at \in {"findFinancial", "createFinancial"} => req[p].op = "customerPayment"
          /\ req[p].at = "lockTripForReceipt" => req[p].op # "clientPayment"
          /\ req[p].at = "lockInvoice" => req[p].op = "receipt"
          /\ req[p].at = "lockFinancial" => req[p].op = "clientPayment"
          /\ (req[p].op = "receipt" /\ (req[p].at \in {"guard", "insertReceipt"} \/ req[p].own # << >>)) =>
               /\ Invoice \in held[p]
               /\ req[p].at # "guard" => Received(rows)' + req[p].amount <= Total
          /\ (/\ req[p].op = "clientPayment" /\ OneFiled(p)'
              /\ req[p].at \in {"guard", "insertReceipt"} \/ req[p].own # << >>) =>
               /\ IF filed' = 0 THEN req'[p].files ELSE Financial \in held'[p]
               /\ req[p].at # "guard" => Collected(rows)' + req[p].amount <= Total
    BY <2>2 DEF Guarding
  <2> QED BY <2>1, <2>3, <2>6, <2>7 DEF Guarding
<1> QED BY <1>1, GuardingKept DEF Guards, Others

\* What passed its guard fits when it commits.
LEMMA GuardedFit ==
  ASSUME Base, UndoesRows, Guards, NEW r \in Requests, Does(r), Arrive(r) \/ Step(r), UNCHANGED <<booked, mix>>,
         NEW i \in Written
  PROVE  /\ rows'[i].by = "receipt" => Received(rows') <= Total
         /\ rows'[i].by = "clientPayment" /\ (booked \/ filed' < 2) => Collected(rows') <= Total
<1>1. i \in DOMAIN rows' /\ i \notin DOMAIN rows /\ rows' # rows
  BY DEF Written
<1>2. rows' = Seen(r)
  BY <1>1, WhoCommits DEF Commits
<1>3. i - Len(rows) \in DOMAIN req[r].own /\ rows'[i] = req[r].own[i - Len(rows)]
  BY <1>1, <1>2, RowsAfter
<1>4. PICK row : row = req[r].own[i - Len(rows)]
  OBVIOUS
<1>5. ASSUME row.by \in {"receipt", "clientPayment"}
      PROVE  /\ req[r].op = row.by /\ req[r].own = <<row>> /\ row \in Row
             /\ row.amount = req[r].amount /\ row.undoes = 0
             /\ req[r].own # << >> /\ req[r].at # "guard"
  <2>1. /\ req[r].op = row.by /\ req[r].own = <<row>> /\ row \in Row
        /\ row.amount = req[r].amount /\ row.undoes = 0 /\ req[r].at \in PostSteps
    BY <1>3, <1>4, <1>5, OwnKinds DEF PayOps
  <2> QED BY <2>1 DEF PostSteps
<1>6. Guarding(r)
  BY DEF Guards
<1>7. Received(rows) \in Nat /\ req[r].amount \in Nat /\ Total \in Nat
  BY ReceivedNat, WhereItIs, TotalAssumption DEF Request
<1>8. ASSUME row.by = "receipt"  PROVE Received(Seen(r)) <= Total
  <2>1. Received(rows) + req[r].amount <= Total
    BY <1>5, <1>6, <1>8 DEF Guarding
  <2>2. Received(Seen(r)) = Received(rows) + (IF row.by \in Receipts /\ row.billed THEN row.amount ELSE 0)
    BY <1>5, <1>8, ReceivedMore
  <2>3. Received(Seen(r)) = Received(rows) + req[r].amount \/ Received(Seen(r)) = Received(rows) + 0
    BY <1>5, <1>8, <2>2
  <2> QED BY <1>7, <2>1, <2>3
<1>9. ASSUME row.by = "clientPayment", booked \/ filed' < 2  PROVE Collected(Seen(r)) <= Total
  <2>0. OneFiled(r)
    <3>1. filed' = IF req[r].files THEN OneMore ELSE filed
      BY <1>1, WhoCommits DEF Commits
    <3>2. /\ filed \in 0 .. 2 /\ booked \in BOOLEAN /\ (booked => filed < 2)
          /\ booked /\ req[r].files => filed = 0
      BY DEF Base, Filing
    <3> QED BY <1>9, <3>1, <3>2 DEF OneFiled, OneMore
  <2>1. Collected(rows) + req[r].amount <= Total
    BY <1>5, <1>6, <1>9, <2>0 DEF Guarding
  <2>2. Sum(Seen(r), Those(Seen(r), Receipts)) = Sum(rows, Those(rows, Receipts)) + req[r].amount
    <3>1. row.by \in Receipts
      BY <1>9 DEF Receipts
    <3> QED BY <1>5, <1>9, <3>1, KindMore
  <2>3. Undone(Seen(r), Those(Seen(r), Receipts)) = Undone(rows, Those(rows, Receipts))
    <3>1. \A n \in DOMAIN req[r].own : req[r].own[n].undoes = 0
      BY <1>5, <1>9
    <3> QED BY <3>1, UndoneSame
  <2>4. Sum(rows, Those(rows, Receipts)) \in Nat /\ Undone(rows, Those(rows, Receipts)) \in Nat
    BY RowAmounts, SumNat DEF Undone
  <2> QED BY <1>7, <2>1, <2>2, <2>3, <2>4 DEF Collected
<1> QED BY <1>2, <1>3, <1>4, <1>8, <1>9

-----------------------------------------------------------------------------
(***************************************************************************)
(* The invoice: as long as nobody lapped, one request at most is between its *)
(* sum and its commit, and no other commits a row that the sum counts.       *)
(***************************************************************************)

Stamping(r) ==
  (req[r].at = "stamp" /\ ~lapped) =>
    /\ req[r].seen = Received(Seen(r))
    /\ \A q \in Others(r) : req[q].at # "stamp"

NothingBilled ==
  invoice = "ABSENT" =>
    /\ \A i \in DOMAIN rows : ~rows[i].billed
    /\ \A r \in Requests : \A i \in DOMAIN req[r].own : ~req[r].own[i].billed
    /\ \A r \in Requests : req[r].at \notin {"sum", "stamp"}

\* What the sum of reconcileInvoiceStatus makes of it, reversed receipts and all.
InvoiceFollows == (invoice # "ABSENT" /\ ~lapped) => invoice = StatusFor(Received(rows))

Invoicing == InvoiceFollows /\ NothingBilled /\ \A r \in Requests : Stamping(r)

\* How a request comes to its sum, and from there to its stamp.
LEMMA ComesToSum ==
  ASSUME Base, NEW r \in Requests, Does(r), Arrive(r) \/ Step(r), UNCHANGED <<booked, mix>>,
         req'[r].at \in {"sum", "stamp"}
  PROVE  \/ SumReceipts(r)
         \/ req'[r].at = "sum" /\ \E i \in DOMAIN rows : rows[i].billed
         \/ req'[r].at = "sum" /\ invoice # "ABSENT"
<1>0. req \in [Requests -> Request] /\ req[r] \in Request /\ Fits(req'[r].at, req'[r].op)
  BY DEF Base, Playing, Does, Plays
<1>1. ~Arrive(r)
  <2>1. ~Starts(req'[r])
    BY DEF Starts, HireSteps
  <2> QED BY <2>1, ArriveStarts
<1>2. req'[r] # Idle
  BY DEF Idle
<1>3. ~RollBack(r) /\ ~Commit(r) /\ ~Refuse(r) /\ ~End(r)
  BY <1>2, MovesKeep DEF RollBack
<1>4. ~TryAgain(r)
  BY <1>0 DEF TryAgain, Idle
<1>5. req'[r].op \in Receipts \cup {"reverse"}
  BY <1>0 DEF Fits, PostSteps
<1>6. req[r].op \in Receipts \cup {"reverse"}
  <2>1. ~(BillRead(r) /\ req'[r].op = "billPump")
    BY <1>5 DEF Receipts
  <2>2. req'[r].op = req[r].op
    BY <1>1, <1>2, <1>4, <2>1, OpKept DEF Keeps, SameOp
  <2> QED BY <1>5, <2>2
<1>7. \A l : Goto(r, l) => req'[r].at = l
  BY <1>0 DEF Goto
<1>8. \A row, l : InsertRow(r, row, l) => req'[r].at = l
  BY <1>0, <1>3 DEF InsertRow, Request
<1>9. CASE req[r].op \in Receipts
  <2>1. \/ CheckKey(r) \/ LockTripForReceipt(r) \/ LockInvoice(r) \/ LockFinancial(r)
        \/ GuardAmount(r) \/ InsertReceipt(r) \/ SumReceipts(r)
        \/ FindFinancial(r) \/ CreateFinancial(r)
    BY <1>1, <1>3, <1>4, <1>9, StepsOfReceipt DEF Stamp, CommitUnbilled
  <2>2. CASE CheckKey(r)
    <3>1. CASE Answered(req[r]) /\ SameReceipt(req[r]) /\ Goto(r, "sum")
      <4>1. \E i \in DOMAIN rows : rows[i].billed
        BY <3>1 DEF SameReceipt
      <4> QED BY <1>7, <3>1, <4>1
    <3>2. CASE Goto(r, IF req[r].op = "clientPayment" THEN "lockFinancial" ELSE "lockTripForReceipt")
      BY <1>7, <3>2
    <3> QED BY <1>3, <2>2, <3>1, <3>2 DEF CheckKey
  <2>3. CASE LockTripForReceipt(r) \/ LockInvoice(r)
    <3>1. \E l \in {"lockInvoice", "insertReceipt", "guard"} : Goto(r, l)
      BY <2>3 DEF LockTripForReceipt, LockInvoice, LockRow
    <3> QED BY <1>7, <3>1
  <2>6. CASE LockFinancial(r)
    <3>1. \/ req' = [req EXCEPT ![r].at = "guard", ![r].files = TRUE]
          \/ Goto(r, "guard")
      BY <2>6 DEF LockFinancial, TakeFinancial, LockRow
    <3>2. req' = [req EXCEPT ![r].at = "guard", ![r].files = TRUE] => req'[r].at = "guard"
      BY <1>0 DEF Request
    <3> QED BY <1>7, <3>1, <3>2
  <2>7. CASE FindFinancial(r) \/ CreateFinancial(r)
    <3>1. \E l \in {"createFinancial", "insertReceipt"} : Goto(r, l)
      BY <1>3, <2>7 DEF FindFinancial, CreateFinancial
    <3> QED BY <1>7, <3>1
  <2>4. CASE GuardAmount(r)
    <3>1. Goto(r, "insertReceipt")
      BY <1>3, <2>4 DEF GuardAmount
    <3> QED BY <1>7, <3>1
  <2>5. CASE InsertReceipt(r)
    <3>1. PICK b, row : InsertRow(r, row, IF b THEN "sum" ELSE "commit") /\ (b => invoice # "ABSENT")
      BY <2>5, Zenon DEF InsertReceipt
    <3>2. req'[r].at = IF b THEN "sum" ELSE "commit"
      BY <1>8, <3>1
    <3> QED BY <3>1, <3>2
  <2> QED BY <2>1, <2>2, <2>3, <2>4, <2>5, <2>6, <2>7
<1>10. CASE req[r].op = "reverse"
  <2>1. LockEntry(r) \/ CheckReversible(r) \/ InsertReversal(r) \/ SumReceipts(r)
    BY <1>1, <1>3, <1>10, StepsOfReversal DEF Stamp, CommitUnbilled
  <2>2. CASE LockEntry(r) \/ CheckReversible(r)
    <3>1. \E l \in {"reversible", "insertReversal"} : Goto(r, l)
      BY <1>3, <2>2 DEF LockEntry, CheckReversible, LockRow
    <3> QED BY <1>7, <3>1
  <2>3. CASE InsertReversal(r)
    <3>1. PICK row : InsertRow(r, row, IF rows[req[r].pick].billed THEN "sum" ELSE "commit")
      BY <2>3, Zenon DEF InsertReversal
    <3>2. req'[r].at = IF rows[req[r].pick].billed THEN "sum" ELSE "commit"
      BY <1>8, <3>1
    <3>3. req[r].pick \in DOMAIN rows
      BY <1>10, WhereItIs DEF Brings
    <3> QED BY <3>2, <3>3
  <2> QED BY <2>1, <2>2, <2>3
<1> QED BY <1>6, <1>9, <1>10

\* Who writes the status or notes a lap.
LEMMA WhoReconciles ==
  ASSUME Base, NEW r \in Requests, Arrive(r) \/ Step(r), UNCHANGED <<booked, mix>>
  PROVE  \/ UNCHANGED <<invoice, lapped>>
         \/ CreateInvoice(r) /\ rows' = rows
         \/ SumReceipts(r)
         \/ Stamp(r)
<1>1. CASE Arrive(r)
  <2>1. CASE CreateInvoice(r)
    BY <2>1 DEF CreateInvoice, ledger
  <2>2. CASE ~CreateInvoice(r)
    BY <1>1, <2>2, ArriveStarts
  <2> QED BY <2>1, <2>2
<1>2. CASE Step(r)
  <2>1. CASE CustomerStep(r)
    BY <2>1 DEF CustomerStep, customer, CheckKey, LockTripForReceipt, LockInvoice, LockFinancial,
           GuardAmount, InsertReceipt, CommitUnbilled, FindFinancial, CreateFinancial
  <2> QED BY <1>2, <2>1 DEF Step, customer, RollBack, TryAgain
<1> QED BY <1>1, <1>2

LEMMA NothingBilledKept ==
  ASSUME Base, NothingBilled, NEW r \in Requests, Does(r), Arrive(r) \/ Step(r), UNCHANGED <<booked, mix>>
  PROVE  NothingBilled'
<1> SUFFICES ASSUME invoice' = "ABSENT"
             PROVE  /\ \A i \in DOMAIN rows' : ~rows'[i].billed
                    /\ \A p \in Requests : \A i \in DOMAIN req'[p].own : ~req'[p].own[i].billed
                    /\ \A p \in Requests : req'[p].at \notin {"sum", "stamp"}
  BY DEF NothingBilled
<1>1. invoice = "ABSENT"
  <2>1. ~Stamp(r)
    <3>1. \A money : StatusFor(money) # "ABSENT"
      BY DEF StatusFor
    <3> QED BY <3>1 DEF Stamp
  <2>2. ~CreateInvoice(r)
    BY DEF CreateInvoice
  <2> QED BY <2>1, <2>2, WhoReconciles DEF SumReceipts
<1>2. /\ \A i \in DOMAIN rows : ~rows[i].billed
      /\ \A p \in Requests : \A i \in DOMAIN req[p].own : ~req[p].own[i].billed
      /\ \A p \in Requests : req[p].at \notin {"sum", "stamp"}
  BY <1>1 DEF NothingBilled
<1>3. req'[r].at \notin {"sum", "stamp"}
  <2>1. ~SumReceipts(r)
    BY <1>2 DEF SumReceipts
  <2> QED BY <1>1, <1>2, <2>1, ComesToSum
<1>4. \A i \in DOMAIN req'[r].own : ~req'[r].own[i].billed
  <2> SUFFICES ASSUME NEW i \in DOMAIN req'[r].own  PROVE ~req'[r].own[i].billed
    OBVIOUS
  <2>1. Inserts(req[r])'
    BY DEF Does
  <2>2. req'[r].own \in Seq(Row)
    BY DEF Does, Turn, Request
  <2>3. req'[r].own # << >>
    BY <2>2
  <2>4. CASE \E row \in Row : req'[r].own = <<row>> /\ ~row.billed
    BY <2>4
  <2>5. CASE Len(req'[r].own) = 2 /\ ~req'[r].own[1].billed /\ ~req'[r].own[2].billed
    <3>1. i = 1 \/ i = 2
      BY <2>2, <2>5
    <3> QED BY <2>5, <3>1
  <2>6. CASE req'[r].at \in PostSteps
    <3>1. req'[r].at = "commit"
      BY <1>3, <2>6 DEF PostSteps
    <3>2. \E row \in Row : req'[r].own = <<row>> /\ row.billed = (req'[r].at # "commit")
      BY <2>1, <2>6, <3>1 DEF Inserts
    <3>3. \E row \in Row : req'[r].own = <<row>> /\ ~row.billed
      BY <3>1, <3>2
    <3> QED BY <2>4, <3>3
  <2>7. CASE req'[r].at \in {"insertPayment", "commitPayment"}
    <3>1. \/ \E row \in Row : req'[r].own = <<row>> /\ ~row.billed
          \/ Len(req'[r].own) = 2 /\ ~req'[r].own[1].billed /\ ~req'[r].own[2].billed
      BY <2>1, <2>3, <2>7 DEF Inserts, Paying, Plain
    <3> QED BY <2>4, <2>5, <3>1
  <2> QED BY <2>1, <2>3, <2>6, <2>7 DEF Inserts
<1>5. \A i \in DOMAIN rows' : ~rows'[i].billed
  <2>1. CASE rows' = rows
    BY <1>2, <2>1
  <2>2. CASE rows' = Seen(r)
    BY <1>2, <2>2, RowsAfter
  <2> QED BY <2>1, <2>2, WhoCommits DEF Commits
<1>6. \A p \in Others(r) : req'[p].own = req[p].own /\ req'[p].at = req[p].at
  BY OthersSame
<1> QED BY <1>2, <1>3, <1>4, <1>5, <1>6 DEF Others

\* Who commits at another step than the stamp adds nothing to the money received.
LEMMA OnlyStampsReceive ==
  ASSUME Base, NEW r \in Requests, Arrive(r) \/ Step(r), UNCHANGED <<booked, mix>>, ~Stamp(r)
  PROVE  Received(rows') = Received(rows)
<1>1. CASE rows' = rows
  BY <1>1
<1>2. CASE rows' # rows
  <2>1. rows' = Seen(r) /\ req[r].at \in {"commit", "commitPayment"}
    BY <1>2, WhoCommits DEF Commits
  <2>2. ASSUME NEW i \in DOMAIN req[r].own  PROVE ~req[r].own[i].billed
    BY <2>1, OwnKinds DEF PostSteps
  <2> QED BY <2>1, <2>2, ReceivedSame
<1> QED BY <1>1, <1>2

LEMMA InvoicingKept ==
  ASSUME Base, Invoicing, NEW r \in Requests, Does(r), Arrive(r) \/ Step(r), UNCHANGED <<booked, mix>>
  PROVE  Invoicing'
<1>0. /\ req \in [Requests -> Request] /\ rows \in Seq(Row) /\ lapped \in BOOLEAN
      /\ InvoiceFollows /\ NothingBilled /\ \A p \in Requests : Stamping(p)
  BY DEF Base, Tables, Playing, Invoicing
<1>1. NothingBilled'
  BY <1>0, NothingBilledKept
<1>2. ~lapped' => ~lapped
  BY WhoReconciles DEF CreateInvoice, SumReceipts, Stamp
<1>3. Received(rows)' = Received(rows')
  BY DEF Received, Billed, Those
<1>4. InvoiceFollows'
  <2> SUFFICES ASSUME invoice' # "ABSENT", ~lapped'  PROVE invoice' = StatusFor(Received(rows'))
    BY <1>3 DEF InvoiceFollows, StatusFor
  <2>1. CASE Stamp(r)
    <3>1. rows' = Seen(r) /\ req[r].at = "stamp" /\ invoice' = StatusFor(req[r].seen)
      BY <2>1 DEF Stamp, Commit
    <3>2. req[r].seen = Received(Seen(r))
      BY <1>0, <1>2, <3>1 DEF Stamping
    <3> QED BY <3>1, <3>2
  <2>2. CASE CreateInvoice(r)
    <3>1. invoice = "ABSENT" /\ invoice' = "UNPAID" /\ rows' = rows
      BY <2>2 DEF CreateInvoice, ledger
    <3>2. \A n \in 1 .. Len(rows) : n \notin {i \in Those(rows, Receipts) : rows[i].billed}
      BY <1>0, <3>1 DEF NothingBilled, Those
    <3>3. Received(rows) = 0
      BY <1>0, <3>2, SumNone DEF Received, Billed
    <3>4. StatusFor(0) = "UNPAID"
      BY TotalAssumption DEF StatusFor
    <3> QED BY <3>1, <3>3, <3>4
  <2>3. CASE ~Stamp(r) /\ ~CreateInvoice(r)
    <3>1. invoice' = invoice
      BY <2>3, WhoReconciles DEF SumReceipts
    <3>2. Received(rows') = Received(rows)
      BY <2>3, OnlyStampsReceive
    <3> QED BY <1>0, <1>2, <3>1, <3>2 DEF InvoiceFollows
  <2> QED BY <2>1, <2>2, <2>3
<1>5. ASSUME req'[r].at = "stamp"  PROVE SumReceipts(r)
  BY <1>5, ComesToSum
<1>6. Stamping(r)'
  <2> SUFFICES ASSUME req'[r].at = "stamp", ~lapped'
               PROVE  req'[r].seen = Received(Seen(r)') /\ \A q \in Others(r) : req'[q].at # "stamp"
    BY DEF Stamping, Received, Billed, Those, Others
  <2>1. /\ req' = [req EXCEPT ![r].at = "stamp", ![r].seen = Received(Seen(r))] /\ rows' = rows
        /\ lapped' = (lapped \/ \E q \in Others(r) : req[q].at = "stamp")
    BY <1>5 DEF SumReceipts
  <2>2. req'[r].seen = Received(Seen(r)) /\ req'[r].own = req[r].own
    BY <1>0, <2>1 DEF Request
  <2>3. Seen(r)' = Seen(r)
    BY <2>1, <2>2 DEF Seen
  <2>4. \A q \in Others(r) : req'[q].at # "stamp"
    BY <2>1, OthersSame
  <2> QED BY <2>2, <2>3, <2>4
<1>7. ASSUME NEW p \in Others(r)  PROVE Stamping(p)'
  <2>0. p \in Requests /\ p # r /\ r \in Others(p)
    BY DEF Others
  <2>1. /\ req'[p].at = req[p].at /\ req'[p].seen = req[p].seen /\ req'[p].own = req[p].own
    BY OthersSame
  <2> SUFFICES ASSUME req[p].at = "stamp", ~lapped'
               PROVE  req[p].seen = Received(Seen(p)') /\ \A q \in Others(p) : req'[q].at # "stamp"
    BY <2>1 DEF Stamping, Received, Billed, Those, Others
  <2>2. req[p].seen = Received(Seen(p)) /\ \A q \in Others(p) : req[q].at # "stamp"
    BY <1>0, <1>2, <2>0 DEF Stamping
  <2>3. ASSUME NEW q \in Others(p)  PROVE req'[q].at # "stamp"
    <3>1. CASE q = r
      <4>1. ~SumReceipts(r)
        BY DEF SumReceipts
      <4> QED BY <1>5, <3>1, <4>1
    <3>2. CASE q # r
      <4>1. q \in Others(r)
        BY <3>2 DEF Others
      <4> QED BY <2>2, <4>1, OthersSame
    <3> QED BY <3>1, <3>2
  <2>4. Received(Seen(p)') = Received(Seen(p))
    <3>1. ~Stamp(r)
      BY <2>0, <2>2 DEF Stamp
    <3>2. Received(rows') = Received(rows) /\ rows' \in Seq(Row)
      BY <3>1, OnlyStampsReceive DEF Does, Tables
    <3>3. CASE req[p].own = << >>
      <4>1. Seen(p)' = rows' /\ Seen(p) = rows
        BY <1>0, <2>1, <3>2, <3>3 DEF Seen
      <4> QED BY <3>2, <4>1
    <3>4. CASE req[p].own # << >>
      <4>1. PICK row \in Row : req[p].own = <<row>>
        <5>1. req[p].op \notin PayOps
          BY <2>0, WhereItIs DEF Fits, PostSteps, Receipts, PayOps
        <5> QED BY <2>0, <3>4, <5>1, OwnRows DEF PayOps
      <4>2. Seen(p)' = Append(rows', row) /\ Seen(p) = Append(rows, row)
        BY <1>0, <2>1, <3>2, <4>1 DEF Seen
      <4>3. /\ Received(Append(rows', row)) = Received(rows')
                 + (IF row.by \in Receipts /\ row.billed THEN row.amount ELSE 0)
            /\ Received(Append(rows, row)) = Received(rows)
                 + (IF row.by \in Receipts /\ row.billed THEN row.amount ELSE 0)
        BY <1>0, <3>2, ReceivedAppend
      <4> QED BY <3>2, <4>2, <4>3
    <3> QED BY <3>3, <3>4
  <2> QED BY <2>2, <2>3, <2>4
<1> QED BY <1>1, <1>4, <1>6, <1>7 DEF Invoicing, Others

-----------------------------------------------------------------------------
(***************************************************************************)
(* The pump: a payment or a bill that is not stale has in hand what its      *)
(* snapshot gave, and that is still so.                                     *)
(***************************************************************************)

OfBill(table, b) == {i \in DOMAIN table : table[i].bill = b}
UpTo(n) == {i \in Unbilled : i <= n}

Pumping(r) ==
  /\ (req[r].at = "payWrite" /\ ~req[r].stale) =>
       /\ req[r].seen = balance
       /\ req[r].pick # 0 => req[r].amount <= Outstanding(req[r].pick)
  /\ (req[r].at = "billWrite" /\ ~req[r].stale) =>
       /\ req[r].seen \in 0 .. Len(fuels)
       /\ req[r].amount = Sum(fuels, UpTo(req[r].seen))

Pumps == PumpBalanced /\ BillsAddUp /\ \A r \in Requests : Pumping(r)

LEMMA PumpTypes ==
  ASSUME Base
  PROVE  /\ fuels \in Seq(FuelRow) /\ Len(fuels) \in Nat /\ DOMAIN fuels = 1 .. Len(fuels)
         /\ bills \in Seq(BillRow) /\ Len(bills) \in Nat /\ DOMAIN bills = 1 .. Len(bills)
         /\ pays \in Seq(PayRow) /\ Len(pays) \in Nat /\ DOMAIN pays = 1 .. Len(pays)
         /\ \A n \in 1 .. Len(fuels) : /\ fuels[n].amount \in Nat /\ fuels[n].bill \in Nat
                                       /\ fuels[n].bill <= Len(bills)
         /\ \A n \in 1 .. Len(pays) : /\ pays[n].amount \in Nat /\ pays[n].bill \in Nat
                                      /\ pays[n].bill <= Len(bills)
         /\ \A n \in 1 .. Len(bills) : /\ bills[n].amount \in Int /\ bills[n].paid \in Nat
                                       /\ bills[n].adjustment \in Int
         /\ balance \in Int
<1>1. fuels \in Seq(FuelRow) /\ bills \in Seq(BillRow) /\ pays \in Seq(PayRow) /\ balance \in Int
      /\ (\A i \in DOMAIN fuels : fuels[i].bill <= Len(bills))
      /\ (\A i \in DOMAIN pays : pays[i].bill <= Len(bills))
  BY DEF Base, Tables
<1>2. /\ \A n \in 1 .. Len(fuels) : fuels[n] \in FuelRow
      /\ \A n \in 1 .. Len(pays) : pays[n] \in PayRow
      /\ \A n \in 1 .. Len(bills) : bills[n] \in BillRow
  BY <1>1
<1>3. /\ \A x \in FuelRow : x.amount \in Nat /\ x.bill \in Nat
      /\ \A x \in PayRow : x.amount \in Nat /\ x.bill \in Nat
      /\ \A x \in BillRow : x.amount \in Int /\ x.paid \in Nat /\ x.adjustment \in Int
  BY CallTypes DEF FuelRow, PayRow, BillRow
<1> QED BY <1>1, <1>2, <1>3

\* A snapshot that is not stale was not before, and belongs to the same request.
LEMMA OthersFresh ==
  ASSUME Base, NEW r \in Requests, Does(r), NEW p \in Others(r), ~req'[p].stale
  PROVE  ~req[p].stale
<1>1. Aged(req[p], req'[p]) /\ req[p] \in Request
  BY DEF Does, Turn, Others, Base, Playing
<1>2. CASE req'[p] = req[p]
  BY <1>2
<1>3. CASE req'[p] = [req[p] EXCEPT !.stale = TRUE]
  BY <1>1, <1>3 DEF Request
<1> QED BY <1>1, <1>2, <1>3 DEF Aged

LEMMA AgesOthers ==
  ASSUME Base, NEW r \in Requests, NEW q, NEW l, req' = Age(r, [req EXCEPT ![r] = q], l)
  PROVE  req'[r] = q /\ \A p \in Others(r) : req[p].at = l => req'[p].stale
<1>1. req \in [Requests -> Request]
  BY DEF Base, Playing
<1>2. req'[r] = q
  BY <1>1 DEF Age
<1>3. ASSUME NEW p \in Others(r), req[p].at = l  PROVE req'[p].stale
  <2>1. p \in Requests /\ p # r /\ req[p] \in Request
    BY <1>1 DEF Others
  <2>2. req'[p] = [req[p] EXCEPT !.stale = TRUE]
    BY <1>1, <1>3, <2>1 DEF Age
  <2> QED BY <2>1, <2>2 DEF Request
<1> QED BY <1>2, <1>3

\* Fuel is booked, with what it costs on the balance.
Fueled(r, a) ==
  /\ Len(fuels)' = Len(fuels) + 1 /\ \A n \in 1 .. Len(fuels) : fuels'[n] = fuels[n]
  /\ fuels'[Len(fuels) + 1].amount = a /\ fuels'[Len(fuels) + 1].bill = 0
  /\ balance' = balance + a /\ UNCHANGED <<bills, pays>>
  /\ req'[r] = Idle
  /\ \A p \in Others(r) : req[p].at = "payWrite" => req'[p].stale

LEMMA BookingFuels ==
  ASSUME Base, NEW r \in Requests, NEW a \in Nat, NEW receipt, fuels' = Booked(a, receipt),
         balance' = balance + a, UNCHANGED <<bills, pays>>,
         req' = Age(r, [req EXCEPT ![r] = Idle], "payWrite")
  PROVE  Fueled(r, a)
<1>1. PICK row : row = [amount |-> a, receipt |-> receipt, bill |-> 0]
  OBVIOUS
<1>2. row.amount = a /\ row.bill = 0
  BY <1>1
<1>3. fuels' = Append(fuels, row) /\ fuels \in Seq(FuelRow)
  BY <1>1, PumpTypes DEF Booked
<1>4. Len(fuels)' = Len(fuels) + 1 /\ fuels'[Len(fuels) + 1] = row
      /\ \A n \in 1 .. Len(fuels) : fuels'[n] = fuels[n]
  BY <1>3
<1> QED BY <1>2, <1>4, AgesOthers DEF Fueled

LEMMA WhoPumps ==
  ASSUME Base, NEW r \in Requests, Arrive(r) \/ Step(r), UNCHANGED <<booked, mix>>
  PROVE  \/ UNCHANGED pump
         \/ \E a \in Nat : Fueled(r, a)
         \/ req[r].at = "payWrite" /\ ~req[r].stale /\ PayAs(r)
         \/ req[r].at = "billWrite" /\ ~req[r].stale /\ BillAs(r)
<1>0. req[r] \in Request /\ Fits(req[r].at, req[r].op) /\ Brings(req[r]) /\ balance \in Int
  BY WhereItIs, PumpTypes
<1>1. CASE Arrive(r)
  BY <1>1, ArriveStarts
<1>2. CASE CommitPayment(r)
  <2>1. UNCHANGED <<bills, pays>> /\ balance' = balance + req[r].fuel
        /\ fuels' = IF req[r].fuel > 0 THEN Booked(req[r].fuel, None) ELSE fuels
    BY <1>2 DEF CommitPayment
  <2>2. req[r].fuel \in Nat
    BY <1>0 DEF Request
  <2>3. CASE req[r].fuel > 0
    <3>1. req' = Age(r, [req EXCEPT ![r] = Idle], "payWrite")
      BY <1>2, <2>3 DEF CommitPayment
    <3> QED BY <2>1, <2>2, <2>3, <3>1, BookingFuels
  <2>4. CASE req[r].fuel = 0
    BY <1>0, <2>1, <2>4 DEF pump
  <2> QED BY <2>2, <2>3, <2>4
<1>3. CASE PumpStep(r)
  <2>1. CASE FuelWrite(r)
    <3>1. CASE UNCHANGED pump
      BY <3>1
    <3>2. CASE /\ fuels' = Booked(req[r].amount, req[r].key) /\ balance' = balance + req[r].amount
               /\ req' = Age(r, [req EXCEPT ![r] = Idle], "payWrite") /\ UNCHANGED <<bills, pays>>
      <4>1. req[r].amount \in Nat
        BY <1>0 DEF Request
      <4> QED BY <3>2, <4>1, BookingFuels
    <3> QED BY <2>1, <3>1, <3>2 DEF FuelWrite
  <2>2. CASE PayWrite(r)
    BY <2>2 DEF PayWrite
  <2>3. CASE BillWrite(r)
    BY <2>3 DEF BillWrite
  <2> QED BY <1>3, <2>1, <2>2, <2>3 DEF PumpStep, FuelKey, PayKey, PayRead, BillRead
<1>4. CASE Step(r)
  BY <1>2, <1>3, <1>4 DEF Step, RollBack, TryAgain
<1> QED BY <1>1, <1>4

\* A snapshot that has just been taken.
LEMMA ComesToWrite ==
  ASSUME Base, NEW r \in Requests, Does(r), Arrive(r) \/ Step(r), UNCHANGED <<booked, mix>>,
         req'[r].at \in {"payWrite", "billWrite"}
  PROVE  \/ PayRead(r) /\ req'[r].at = "payWrite" /\ ~Refuse(r)
         \/ BillRead(r) /\ req'[r].at = "billWrite" /\ ~Refuse(r)
<1>0. req \in [Requests -> Request] /\ req[r] \in Request /\ Fits(req'[r].at, req'[r].op)
      /\ Fits(req[r].at, req[r].op)
  BY WhereItIs DEF Base, Playing, Does, Plays
<1>1. ~Arrive(r)
  <2>1. ~Starts(req'[r])
    BY DEF Starts, HireSteps
  <2> QED BY <2>1, ArriveStarts
<1>2. req'[r] # Idle
  BY DEF Idle
<1>3. ~RollBack(r) /\ ~Commit(r) /\ ~Refuse(r) /\ ~End(r)
  BY <1>2, MovesKeep DEF RollBack
<1>4. ~TryAgain(r)
  BY <1>0 DEF TryAgain, Idle
<1>5. /\ req'[r].at = "payWrite" => req'[r].op = "payPump"
      /\ req'[r].at = "billWrite" => req'[r].op = "billPump"
  BY <1>0 DEF Fits, PayPumpSteps, BillSteps
<1>6. req[r].op = req'[r].op
  BY <1>1, <1>2, <1>4, OpKept DEF Keeps, SameOp
<1>7. req[r].op \in {"payPump", "billPump"}
  BY <1>5, <1>6
<1>8. /\ req[r].at \notin ReceiptSteps \cup ReverseSteps \cup PostSteps \cup PaySteps
      /\ req[r].at \notin HireSteps \cup AdvanceSteps \cup FuelSteps
  BY <1>0, <1>7 DEF Fits, Receipts, PayOps, HireSteps
<1>9. ~ VendorStep(r) /\ ~ CommitPayment(r)
  BY <1>8 DEF VendorStep, AgreeHire, EditHire, ConfirmOrCancelHire, CheckReference, CommitPayment,
         LockTripForPayment, CheckPosition, LockFinancialToPay, InsertPayment, LockAdvance,
         CheckUnadjusted, WriteAdjusted, PaySteps, HireSteps, AdvanceSteps
<1>10. ~ CustomerStep(r)
  BY <1>8 DEF CustomerStep, CheckKey, LockTripForReceipt, LockInvoice, LockFinancial, GuardAmount,
         InsertReceipt, LockEntry, CheckReversible, InsertReversal, SumReceipts, Stamp,
         CommitUnbilled, FindFinancial, CreateFinancial, ReceiptSteps, ReverseSteps, PostSteps
<1>11. PayKey(r) \/ PayRead(r) \/ PayWrite(r) \/ BillRead(r) \/ BillWrite(r)
  BY <1>1, <1>3, <1>4, <1>8, <1>9, <1>10 DEF Step, PumpStep, FuelKey, FuelWrite, FuelSteps
<1>12. \A l : Goto(r, l) => req'[r].at = l
  BY <1>0 DEF Goto
<1>13. ~PayAs(r) /\ ~BillAs(r)
  BY <1>2, AgesOthers DEF PayAs, BillAs
<1>14. ~PayKey(r) /\ ~PayWrite(r) /\ ~BillWrite(r)
  <2>1. ~PayKey(r)
    BY <1>3, <1>12 DEF PayKey
  <2>2. ~PayWrite(r)
    BY <1>12, <1>13 DEF PayWrite
  <2>3. ~BillWrite(r)
    BY <1>12, <1>13 DEF BillWrite
  <2> QED BY <2>1, <2>2, <2>3
<1>15. CASE PayRead(r)
  <2>1. req' = [req EXCEPT ![r].at = "payWrite", ![r].seen = balance, ![r].stale = FALSE]
    BY <1>3, <1>15 DEF PayRead
  <2> QED BY <1>0, <1>3, <1>15, <2>1 DEF Request
<1>16. CASE BillRead(r)
  <2>1. req' = [req EXCEPT ![r].at = "billWrite", ![r].stale = FALSE,
                           ![r].seen = Len(fuels), ![r].amount = Sum(fuels, Unbilled)]
    BY <1>3, <1>16 DEF BillRead
  <2> QED BY <1>0, <1>3, <1>16, <2>1 DEF Request
<1> QED BY <1>11, <1>14, <1>15, <1>16

LEMMA PumpingKept ==
  ASSUME Base, NEW r \in Requests, Does(r), Arrive(r) \/ Step(r), UNCHANGED <<booked, mix>>
  PROVE  Pumping(r)'
<1> SUFFICES ASSUME req'[r].at \in {"payWrite", "billWrite"}
             PROVE  Pumping(r)'
  BY DEF Pumping
<1>0. req \in [Requests -> Request] /\ req[r] \in Request
  BY DEF Base, Playing
<1>1. CASE PayRead(r) /\ req'[r].at = "payWrite" /\ ~Refuse(r)
  <2>1. /\ req' = [req EXCEPT ![r].at = "payWrite", ![r].seen = balance, ![r].stale = FALSE]
        /\ UNCHANGED pump /\ ~(req[r].pick # 0 /\ req[r].amount > Outstanding(req[r].pick))
    BY <1>1 DEF PayRead
  <2>2. req'[r].seen = balance /\ req'[r].pick = req[r].pick /\ req'[r].amount = req[r].amount
    BY <1>0, <2>1 DEF Request
  <2>3. balance' = balance /\ \A b : Outstanding(b)' = Outstanding(b)
    BY <2>1 DEF pump, Outstanding
  <2>4. req[r].pick # 0 => req[r].amount <= Outstanding(req[r].pick)
    <3> SUFFICES ASSUME req[r].pick # 0  PROVE req[r].amount <= Outstanding(req[r].pick)
      OBVIOUS
    <3>1. req[r].op = "payPump"
      BY <1>1, WhereItIs DEF PayRead, Fits, PayPumpSteps
    <3>2. req[r].pick \in 1 .. Len(bills) /\ req[r].amount \in Nat
      BY <3>1, WhereItIs, PumpTypes DEF Brings, Request
    <3>3. Outstanding(req[r].pick) \in Int
      BY <3>2, PumpTypes DEF Outstanding
    <3> QED BY <2>1, <3>2, <3>3
  <2> QED BY <1>1, <2>2, <2>3, <2>4 DEF Pumping, Outstanding
<1>2. CASE BillRead(r) /\ req'[r].at = "billWrite" /\ ~Refuse(r)
  <2>1. /\ req' = [req EXCEPT ![r].at = "billWrite", ![r].stale = FALSE,
                              ![r].seen = Len(fuels), ![r].amount = Sum(fuels, Unbilled)]
        /\ UNCHANGED pump
    BY <1>2 DEF BillRead
  <2>2. PICK n \in Nat : n = Len(fuels)
    BY PumpTypes
  <2>3. req'[r].seen = n /\ req'[r].amount = Sum(fuels, Unbilled)
    BY <1>0, <2>1, <2>2 DEF Request
  <2>4. UpTo(n) = Unbilled
    BY <2>2, PumpTypes DEF UpTo, Unbilled
  <2>5. fuels' = fuels /\ n \in 0 .. Len(fuels)
    BY <2>1, <2>2, PumpTypes DEF pump
  <2>6. UpTo(n)' = UpTo(n)
    BY <2>5 DEF UpTo, Unbilled
  <2>7. req'[r].amount = Sum(fuels', UpTo(n)')
    BY <2>3, <2>4, <2>5, <2>6
  <2> QED BY <1>2, <2>3, <2>5, <2>7 DEF Pumping, UpTo, Unbilled
<1> QED BY <1>1, <1>2, ComesToWrite

\* The promises of the pump, spelled out over the tables.
LEMMA PumpsSpelled ==
  /\ Pumps <=> /\ balance = Whole(fuels) - Whole(pays)
               /\ \A b \in DOMAIN bills :
                    /\ bills[b].amount = Sum(fuels, OfBill(fuels, b)) + bills[b].adjustment
                    /\ bills[b].paid = Sum(pays, OfBill(pays, b))
                    /\ bills[b].paid > 0 => bills[b].paid <= bills[b].amount
               /\ \A r \in Requests : Pumping(r)
BY DEF Pumps, PumpBalanced, BillsAddUp, OfBill

LEMMA FuelKeepsPumps ==
  ASSUME Base, Pumps, NEW r \in Requests, Does(r), Arrive(r) \/ Step(r), UNCHANGED <<booked, mix>>,
         NEW a \in Nat, Fueled(r, a)
  PROVE  Pumps'
<1>1. /\ balance = Whole(fuels) - Whole(pays)
      /\ \A b \in DOMAIN bills :
           /\ bills[b].amount = Sum(fuels, OfBill(fuels, b)) + bills[b].adjustment
           /\ bills[b].paid = Sum(pays, OfBill(pays, b))
           /\ bills[b].paid > 0 => bills[b].paid <= bills[b].amount
      /\ \A p \in Requests : Pumping(p)
  BY PumpsSpelled
<1>2. PICK longer \in Seq(FuelRow) : longer = fuels'
  BY DEF Does, Tables
<1>3. /\ Len(longer) = Len(fuels) + 1 /\ \A n \in 1 .. Len(fuels) : longer[n] = fuels[n]
      /\ longer[Len(fuels) + 1].amount = a /\ longer[Len(fuels) + 1].bill = 0
      /\ DOMAIN longer = 1 .. (Len(fuels) + 1)
      /\ balance' = balance + a /\ bills' = bills /\ pays' = pays
      /\ fuels \in Seq(FuelRow) /\ Len(fuels) \in Nat /\ DOMAIN fuels = 1 .. Len(fuels)
      /\ \A n \in 1 .. Len(fuels) : fuels[n].amount \in Nat
  BY <1>2, PumpTypes DEF Fueled
<1>4. balance' = Whole(longer) - Whole(pays)
  <2>1. Sum(longer, DOMAIN longer) = Sum(fuels, DOMAIN fuels)
          + (IF Len(fuels) + 1 \in DOMAIN longer THEN longer[Len(fuels) + 1].amount ELSE 0)
    <3>1. \A n \in 1 .. Len(fuels) : n \in DOMAIN longer <=> n \in DOMAIN fuels
      BY <1>3
    <3> QED BY <1>3, <3>1, SumMore
  <2>2. Whole(longer) = Whole(fuels) + a
    BY <1>3, <2>1 DEF Whole
  <2>3. Whole(fuels) \in Nat /\ Whole(pays) \in Nat
    BY PumpTypes, SumNat DEF Whole
  <2> QED BY <1>1, <1>3, <2>2, <2>3
<1>5. ASSUME NEW S, NEW T, \A n \in 1 .. Len(fuels) : n \in T <=> n \in S, Len(fuels) + 1 \notin T
      PROVE  Sum(longer, T) = Sum(fuels, S)
  <2>1. \A n \in 1 .. Len(longer) : n > Len(fuels) => n \notin T
    BY <1>3, <1>5
  <2> QED BY <1>3, <1>5, <2>1, SumLonger
<1>6. ASSUME NEW b \in DOMAIN bills  PROVE bills[b].amount = Sum(longer, OfBill(longer, b)) + bills[b].adjustment
  <2>1. b # 0
    BY PumpTypes
  <2>2. /\ \A n \in 1 .. Len(fuels) : n \in OfBill(longer, b) <=> n \in OfBill(fuels, b)
        /\ Len(fuels) + 1 \notin OfBill(longer, b)
    BY <1>3, <2>1 DEF OfBill
  <2> QED BY <1>1, <1>5, <2>2
<1>7. ASSUME NEW p \in Others(r)  PROVE Pumping(p)'
  <2>1. Pumping(p) /\ (~req'[p].stale => ~req[p].stale)
    BY <1>1, OthersFresh DEF Others
  <2>2. /\ req'[p].at = req[p].at /\ req'[p].amount = req[p].amount /\ req'[p].pick = req[p].pick
        /\ req'[p].seen = req[p].seen
    BY OthersSame
  <2>3. req[p].at = "payWrite" => req'[p].stale
    BY DEF Fueled
  <2>4. ASSUME req[p].at = "billWrite", ~req[p].stale
        PROVE  req[p].seen \in 0 .. Len(longer) /\ req[p].amount = Sum(longer, UpTo(req[p].seen)')
    <3>1. req[p].seen \in 0 .. Len(fuels) /\ req[p].amount = Sum(fuels, UpTo(req[p].seen))
      BY <2>1, <2>4 DEF Pumping
    <3>2. PICK m \in Nat : m = req[p].seen /\ m <= Len(fuels)
      BY <1>3, <3>1
    <3>3. /\ \A n \in 1 .. Len(fuels) : n \in UpTo(m)' <=> n \in UpTo(m)
          /\ Len(fuels) + 1 \notin UpTo(m)'
      BY <1>2, <1>3, <3>2 DEF UpTo, Unbilled
    <3>4. Sum(longer, UpTo(m)') = Sum(fuels, UpTo(m))
      BY <1>5, <3>3
    <3>5. UpTo(m)' = UpTo(req[p].seen)'
      BY <2>2, <3>2 DEF UpTo
    <3> QED BY <1>3, <3>1, <3>2, <3>4, <3>5
  <2>5. ASSUME req[p].at = "billWrite", ~req[p].stale
        PROVE  req[p].seen \in 0 .. Len(fuels') /\ req[p].amount = Sum(fuels', UpTo(req[p].seen)')
    BY <1>2, <2>4, <2>5
  <2> QED BY <2>1, <2>2, <2>3, <2>5 DEF Pumping, UpTo, Unbilled
<1>8. \A p \in Requests : Pumping(p)'
  BY <1>7, PumpingKept DEF Others
<1>9. /\ balance' = Whole(fuels') - Whole(pays')
      /\ \A b \in DOMAIN bills' :
           /\ bills'[b].amount = Sum(fuels', OfBill(fuels', b)) + bills'[b].adjustment
           /\ bills'[b].paid = Sum(pays', OfBill(pays', b))
           /\ bills'[b].paid > 0 => bills'[b].paid <= bills'[b].amount
  BY <1>1, <1>2, <1>3, <1>4, <1>6
<1> QED BY <1>8, <1>9 DEF Pumps, PumpBalanced, BillsAddUp, OfBill, Whole

LEMMA PaymentKeepsPumps ==
  ASSUME Base, Pumps, NEW r \in Requests, Does(r), Arrive(r) \/ Step(r), UNCHANGED <<booked, mix>>,
         req[r].at = "payWrite", ~req[r].stale, PayAs(r)
  PROVE  Pumps'
<1>1. /\ balance = Whole(fuels) - Whole(pays)
      /\ \A b \in DOMAIN bills :
           /\ bills[b].amount = Sum(fuels, OfBill(fuels, b)) + bills[b].adjustment
           /\ bills[b].paid = Sum(pays, OfBill(pays, b))
           /\ bills[b].paid > 0 => bills[b].paid <= bills[b].amount
      /\ \A p \in Requests : Pumping(p)
  BY PumpsSpelled
<1>2. /\ req[r].seen = balance /\ req[r].amount \in Nat /\ req[r].pick \in 0 .. Len(bills)
      /\ req[r].pick # 0 => req[r].amount <= Outstanding(req[r].pick)
  <2>1. req[r].op = "payPump"
    BY WhereItIs DEF Fits, PayPumpSteps
  <2> QED BY <1>1, <2>1, WhereItIs DEF Pumping, Brings, Request
<1>3. PICK k \in 0 .. Len(bills), a \in Nat : k = req[r].pick /\ a = req[r].amount
  BY <1>2
<1>4. PICK row : row = [amount |-> req[r].amount, bill |-> req[r].pick, key |-> req[r].key]
  OBVIOUS
<1>5. row.amount = a /\ row.bill = k
  BY <1>3, <1>4
<1>6. pays' = Append(pays, row) /\ balance' = balance - a /\ fuels' = fuels
      /\ bills' = (IF k = 0 THEN bills ELSE [bills EXCEPT ![k].paid = @ + a])
      /\ req' = Age(r, [req EXCEPT ![r] = Idle], "payWrite")
  BY <1>2, <1>3, <1>4 DEF PayAs
<1>7. PICK longer \in Seq(PayRow) : longer = pays'
  BY DEF Does, Tables
<1>8. /\ Len(longer) = Len(pays) + 1 /\ \A n \in 1 .. Len(pays) : longer[n] = pays[n]
      /\ longer[Len(pays) + 1] = row /\ DOMAIN longer = 1 .. (Len(pays) + 1)
      /\ pays \in Seq(PayRow) /\ Len(pays) \in Nat /\ DOMAIN pays = 1 .. Len(pays)
      /\ \A n \in 1 .. Len(pays) : pays[n].amount \in Nat
  BY <1>6, <1>7, PumpTypes
<1>9. balance' = Whole(fuels) - Whole(longer)
  <2>1. Sum(longer, DOMAIN longer) = Sum(pays, DOMAIN pays)
          + (IF Len(pays) + 1 \in DOMAIN longer THEN longer[Len(pays) + 1].amount ELSE 0)
    <3>1. \A n \in 1 .. Len(pays) : n \in DOMAIN longer <=> n \in DOMAIN pays
      BY <1>8
    <3> QED BY <1>8, <3>1, SumMore
  <2>2. Whole(longer) = Whole(pays) + a
    BY <1>5, <1>8, <2>1 DEF Whole
  <2>3. Whole(fuels) \in Nat /\ Whole(pays) \in Nat
    BY PumpTypes, SumNat DEF Whole
  <2> QED BY <1>1, <1>6, <2>2, <2>3
<1>10. /\ DOMAIN bills' = DOMAIN bills
       /\ \A b \in DOMAIN bills :
            /\ bills'[b].amount = bills[b].amount /\ bills'[b].adjustment = bills[b].adjustment
            /\ bills'[b].paid = bills[b].paid + (IF b = k THEN a ELSE 0)
  <2>1. bills \in Seq(BillRow) /\ DOMAIN bills = 1 .. Len(bills)
        /\ \A n \in 1 .. Len(bills) : bills[n].paid \in Nat
    BY PumpTypes
  <2>2. CASE k = 0
    BY <1>6, <2>1, <2>2
  <2>3. CASE k # 0
    <3>1. \A b \in DOMAIN bills : b # k => bills'[b] = bills[b]
      BY <1>6, <2>3
    <3>2. k \in DOMAIN bills /\ bills[k] \in BillRow
      BY <1>3, <2>1, <2>3
    <3>3. bills'[k] = [bills[k] EXCEPT !.paid = @ + a]
      BY <1>6, <2>3, <3>2
    <3>4. bills'[k].amount = bills[k].amount /\ bills'[k].adjustment = bills[k].adjustment
          /\ bills'[k].paid = bills[k].paid + a
      BY <3>2, <3>3 DEF BillRow
    <3> QED BY <1>6, <2>1, <2>3, <3>1, <3>4
  <2> QED BY <2>2, <2>3
<1>11. ASSUME NEW b \in DOMAIN bills
       PROVE  /\ bills'[b].paid = Sum(longer, OfBill(longer, b))
              /\ bills'[b].paid > 0 => bills'[b].paid <= bills'[b].amount
  <2>1. bills[b].paid \in Nat /\ bills[b].amount \in Int /\ b # 0
    BY PumpTypes
  <2>2. Sum(longer, OfBill(longer, b)) = Sum(pays, OfBill(pays, b))
          + (IF Len(pays) + 1 \in OfBill(longer, b) THEN longer[Len(pays) + 1].amount ELSE 0)
    <3>1. \A n \in 1 .. Len(pays) : n \in OfBill(longer, b) <=> n \in OfBill(pays, b)
      BY <1>8 DEF OfBill
    <3> QED BY <1>8, <3>1, SumMore
  <2>3. Len(pays) + 1 \in OfBill(longer, b) <=> b = k
    BY <1>5, <1>8 DEF OfBill
  <2>4. bills'[b].paid = Sum(longer, OfBill(longer, b))
    BY <1>1, <1>5, <1>8, <1>10, <2>2, <2>3
  <2>5. bills'[b].paid > 0 => bills'[b].paid <= bills'[b].amount
    <3>1. b = k => a <= bills[b].amount - bills[b].paid
      BY <1>2, <1>3, <2>1 DEF Outstanding
    <3> QED BY <1>1, <1>10, <2>1, <3>1
  <2> QED BY <2>4, <2>5
<1>12. ASSUME NEW p \in Others(r)  PROVE Pumping(p)'
  <2>1. Pumping(p) /\ (~req'[p].stale => ~req[p].stale)
    BY <1>1, OthersFresh DEF Others
  <2>2. req'[p].at = req[p].at /\ req'[p].amount = req[p].amount /\ req'[p].seen = req[p].seen
    BY OthersSame
  <2>3. req[p].at = "payWrite" => req'[p].stale
    BY <1>6, AgesOthers
  <2> QED BY <1>6, <2>1, <2>2, <2>3 DEF Pumping, UpTo, Unbilled
<1>13. \A p \in Requests : Pumping(p)'
  BY <1>12, PumpingKept DEF Others
<1>14. /\ balance' = Whole(fuels') - Whole(pays')
       /\ \A b \in DOMAIN bills' :
            /\ bills'[b].amount = Sum(fuels', OfBill(fuels', b)) + bills'[b].adjustment
            /\ bills'[b].paid = Sum(pays', OfBill(pays', b))
            /\ bills'[b].paid > 0 => bills'[b].paid <= bills'[b].amount
  BY <1>1, <1>6, <1>7, <1>9, <1>10, <1>11
<1> QED BY <1>13, <1>14 DEF Pumps, PumpBalanced, BillsAddUp, OfBill, Whole

LEMMA BillKeepsPumps ==
  ASSUME Base, Pumps, NEW r \in Requests, Does(r), Arrive(r) \/ Step(r), UNCHANGED <<booked, mix>>,
         req[r].at = "billWrite", ~req[r].stale, BillAs(r)
  PROVE  Pumps'
<1>1. /\ balance = Whole(fuels) - Whole(pays)
      /\ \A b \in DOMAIN bills :
           /\ bills[b].amount = Sum(fuels, OfBill(fuels, b)) + bills[b].adjustment
           /\ bills[b].paid = Sum(pays, OfBill(pays, b))
           /\ bills[b].paid > 0 => bills[b].paid <= bills[b].amount
      /\ \A p \in Requests : Pumping(p)
  BY PumpsSpelled
<1>2. PICK top, a : top = req[r].seen /\ a = req[r].amount
  OBVIOUS
<1>3. top \in 0 .. Len(fuels) /\ a = Sum(fuels, UpTo(top)) /\ a \in Nat
  BY <1>1, <1>2, WhereItIs DEF Pumping, Request
<1>4. PICK k \in Nat : k = Len(bills) + 1
  BY PumpTypes
<1>5. PICK bill : bill = [period |-> req[r].key, adjustment |-> req[r].adjustment,
                          amount |-> req[r].amount + req[r].adjustment, paid |-> 0]
  OBVIOUS
<1>6. bill.amount = a + bill.adjustment /\ bill.paid = 0
  BY <1>2, <1>5
<1>7. /\ bills' = Append(bills, bill)
      /\ fuels' = [i \in DOMAIN fuels |-> IF i \in Unbilled /\ i <= top
                                          THEN [fuels[i] EXCEPT !.bill = k] ELSE fuels[i]]
      /\ req' = Age(r, [req EXCEPT ![r] = Idle], "billWrite")
      /\ pays' = pays /\ balance' = balance
  BY <1>2, <1>4, <1>5 DEF BillAs
<1>8. PICK tagged \in Seq(FuelRow) : tagged = fuels'
  BY DEF Does, Tables
<1>9. /\ fuels \in Seq(FuelRow) /\ Len(fuels) \in Nat /\ DOMAIN fuels = 1 .. Len(fuels)
      /\ \A n \in 1 .. Len(fuels) : /\ fuels[n] \in FuelRow /\ fuels[n].amount \in Nat
                                    /\ fuels[n].bill \in Nat /\ fuels[n].bill < k
  <2>1. fuels \in Seq(FuelRow) /\ Len(bills) \in Nat
    BY PumpTypes
  <2>2. \A n \in 1 .. Len(fuels) : fuels[n] \in FuelRow
    BY <2>1
  <2> QED BY <1>4, <2>1, <2>2, PumpTypes
<1>10. Len(tagged) = Len(fuels) /\ DOMAIN tagged = 1 .. Len(fuels)
  BY <1>7, <1>8, <1>9
\* Which rows of fuel are tagged with the bill, and how.
<1>11. ASSUME NEW n \in 1 .. Len(fuels)
       PROVE  /\ tagged[n].amount = fuels[n].amount
              /\ IF n \in UpTo(top) THEN fuels[n].bill = 0 /\ tagged[n].bill = k
                 ELSE tagged[n].bill = fuels[n].bill
  <2>1. CASE n \in UpTo(top)
    <3>1. tagged[n] = [fuels[n] EXCEPT !.bill = k]
      BY <1>7, <1>8, <1>9, <2>1 DEF UpTo
    <3>2. fuels[n].bill = 0
      BY <2>1 DEF UpTo, Unbilled
    <3> QED BY <1>9, <2>1, <3>1, <3>2 DEF FuelRow
  <2>2. CASE n \notin UpTo(top)
    <3>1. tagged[n] = fuels[n]
      BY <1>7, <1>8, <1>9, <2>2 DEF UpTo
    <3> QED BY <2>2, <3>1
  <2> QED BY <2>1, <2>2
<1>12. ASSUME NEW S, NEW T, \A n \in 1 .. Len(fuels) : n \in T <=> n \in S
       PROVE  Sum(tagged, T) = Sum(fuels, S)
  <2>1. \A n \in 1 .. Len(tagged) : Part(tagged, T, n) = Part(fuels, S, n)
    BY <1>10, <1>11, <1>12 DEF Part
  <2> QED BY <1>9, <1>10, <2>1, SumSame
<1>13. balance' = Whole(tagged) - Whole(pays)
  <2>1. Sum(tagged, DOMAIN tagged) = Sum(fuels, DOMAIN fuels)
    BY <1>9, <1>10, <1>12
  <2> QED BY <1>1, <1>7, <2>1 DEF Whole
<1>14. /\ DOMAIN bills' = DOMAIN bills \cup {k} /\ bills'[k] = bill
       /\ \A b \in DOMAIN bills : bills'[b] = bills[b] /\ b # k /\ b # 0 /\ b \in Nat
       /\ DOMAIN bills = 1 .. Len(bills) /\ Len(bills) \in Nat
  BY <1>4, <1>7, PumpTypes
<1>15. ASSUME NEW b \in DOMAIN bills  PROVE bills[b].amount = Sum(tagged, OfBill(tagged, b)) + bills[b].adjustment
  <2>1. \A n \in 1 .. Len(fuels) : n \in OfBill(tagged, b) <=> n \in OfBill(fuels, b)
    BY <1>9, <1>10, <1>11, <1>14 DEF OfBill
  <2>2. Sum(tagged, OfBill(tagged, b)) = Sum(fuels, OfBill(fuels, b))
    BY <1>12, <2>1
  <2> QED BY <1>1, <2>2
<1>16. a = Sum(tagged, OfBill(tagged, k))
  <2>1. \A n \in 1 .. Len(fuels) : n \in OfBill(tagged, k) <=> n \in UpTo(top)
    BY <1>9, <1>10, <1>11 DEF OfBill
  <2> QED BY <1>3, <1>12, <2>1
<1>17. Sum(pays, OfBill(pays, k)) = 0
  <2>1. \A n \in 1 .. Len(pays) : n \notin OfBill(pays, k)
    BY <1>4, PumpTypes DEF OfBill
  <2> QED BY <2>1, PumpTypes, SumNone
<1>18. ASSUME NEW p \in Others(r)  PROVE Pumping(p)'
  <2>1. Pumping(p) /\ (~req'[p].stale => ~req[p].stale)
    BY <1>1, OthersFresh DEF Others
  <2>2. /\ req'[p].at = req[p].at /\ req'[p].amount = req[p].amount /\ req'[p].pick = req[p].pick
        /\ req'[p].seen = req[p].seen
    BY OthersSame
  <2>3. req[p].at = "billWrite" => req'[p].stale
    BY <1>7, AgesOthers
  <2>4. ASSUME req[p].at = "payWrite", req[p].pick # 0
        PROVE  bills'[req[p].pick] = bills[req[p].pick]
    <3>1. p \in Requests
      BY DEF Others
    <3>2. req[p].op = "payPump"
      BY <2>4, <3>1, WhereItIs DEF Fits, PayPumpSteps
    <3>3. req[p].pick \in 0 .. Len(bills)
      BY <3>1, <3>2, WhereItIs DEF Brings
    <3>4. req[p].pick \in DOMAIN bills
      BY <1>14, <2>4, <3>3
    <3> QED BY <1>14, <3>4
  <2> QED BY <1>7, <2>1, <2>2, <2>3, <2>4 DEF Pumping, Outstanding
<1>19. \A p \in Requests : Pumping(p)'
  BY <1>18, PumpingKept DEF Others
<1>20. /\ balance' = Whole(fuels') - Whole(pays')
       /\ \A b \in DOMAIN bills' :
            /\ bills'[b].amount = Sum(fuels', OfBill(fuels', b)) + bills'[b].adjustment
            /\ bills'[b].paid = Sum(pays', OfBill(pays', b))
            /\ bills'[b].paid > 0 => bills'[b].paid <= bills'[b].amount
  <2>1. ASSUME NEW b \in DOMAIN bills
        PROVE  /\ bills'[b].amount = Sum(fuels', OfBill(fuels', b)) + bills'[b].adjustment
               /\ bills'[b].paid = Sum(pays', OfBill(pays', b))
               /\ bills'[b].paid > 0 => bills'[b].paid <= bills'[b].amount
    BY <1>1, <1>7, <1>8, <1>14, <1>15
  <2>2. /\ bills'[k].amount = Sum(fuels', OfBill(fuels', k)) + bills'[k].adjustment
        /\ bills'[k].paid = Sum(pays', OfBill(pays', k))
        /\ bills'[k].paid > 0 => bills'[k].paid <= bills'[k].amount
    BY <1>3, <1>6, <1>7, <1>8, <1>14, <1>16, <1>17
  <2> QED BY <1>7, <1>8, <1>13, <1>14, <2>1, <2>2
<1> QED BY <1>19, <1>20 DEF Pumps, PumpBalanced, BillsAddUp, OfBill, Whole

LEMMA PumpsKept ==
  ASSUME Base, Pumps, NEW r \in Requests, Does(r), Arrive(r) \/ Step(r), UNCHANGED <<booked, mix>>
  PROVE  Pumps'
<1>1. CASE UNCHANGED pump
  <2>1. PumpBalanced' /\ BillsAddUp'
    BY <1>1 DEF Pumps, PumpBalanced, BillsAddUp, Whole, pump
  <2>2. ASSUME NEW p \in Others(r)  PROVE Pumping(p)'
    <3>1. Pumping(p) /\ (~req'[p].stale => ~req[p].stale)
      BY OthersFresh DEF Pumps, Others
    <3>2. /\ req'[p].at = req[p].at /\ req'[p].amount = req[p].amount /\ req'[p].pick = req[p].pick
          /\ req'[p].seen = req[p].seen
      BY OthersSame
    <3> QED BY <1>1, <3>1, <3>2 DEF Pumping, UpTo, Unbilled, Outstanding, pump
  <2> QED BY <2>1, <2>2, PumpingKept DEF Pumps, Others
<1> QED BY <1>1, WhoPumps, FuelKeepsPumps, PaymentKeepsPumps, BillKeepsPumps

-----------------------------------------------------------------------------
(***************************************************************************)
(* The inductive invariant, and what follows from it.                       *)
(***************************************************************************)

Promises == Reversals /\ AdvancesKept /\ Settlements /\ Guards /\ Invoicing /\ Pumps

IInv == Base /\ Promises

LEMMA PromisesStart == Init => Promises
<1> SUFFICES ASSUME Init  PROVE Promises
  OBVIOUS
<1>1. /\ rows = << >> /\ advances = << >> /\ fuels = << >> /\ bills = << >> /\ pays = << >>
      /\ book = 0 /\ balance = 0 /\ invoice = "ABSENT" /\ \A r \in Requests : req[r] = Idle
  BY DEF Init
<1>2. \A S : Sum(<< >>, S) = 0
  <2>1. << >> \in Seq(Nat) /\ Len(<< >>) = 0
    OBVIOUS
  <2>2. \A S : \A n \in 1 .. Len(<< >>) : n \notin S
    OBVIOUS
  <2> QED BY <2>1, <2>2, SumNone
<1>3. \A r \in Requests : req[r].at = "idle" /\ req[r].op = "none" /\ req[r].own = << >>
  BY <1>1 DEF Idle
<1>4. Reversals
  BY <1>1, <1>3 DEF Reversals, UndoesRows, ReversedOnce, Those, Undoing
<1>5. AdvancesKept
  BY <1>1, <1>3 DEF AdvancesKept, AdjustmentsAddUp, Adjusting
<1>6. Settlements
  BY <1>1, <1>2, <1>3 DEF Settlements, BookKeepsPace, Settling
<1>7. Guards
  BY <1>1, <1>3 DEF Guards, Guarding
<1>8. Invoicing
  BY <1>1, <1>3 DEF Invoicing, InvoiceFollows, NothingBilled, Stamping
<1>9. Pumps
  <2>1. PumpBalanced
    BY <1>1, <1>2 DEF PumpBalanced, Whole
  <2>2. BillsAddUp
    BY <1>1 DEF BillsAddUp
  <2> QED BY <1>3, <2>1, <2>2 DEF Pumps, Pumping
<1> QED BY <1>4, <1>5, <1>6, <1>7, <1>8, <1>9 DEF Promises

LEMMA IInvSteps ==
  ASSUME IInv, [Next]_vars
  PROVE  IInv'
<1>1. CASE Next
  <2>1. PICK r \in Requests : Does(r) /\ (Arrive(r) \/ Step(r)) /\ UNCHANGED <<booked, mix>>
    BY <1>1, StepDoes DEF IInv
  <2>2. Base'
    BY <2>1, BaseKept DEF IInv
  <2> QED BY <2>1, <2>2, ReversalsKept, AdjustmentsKept, SettlementsKept, GuardsKept, InvoicingKept,
            PumpsKept DEF IInv, Promises
<1>2. CASE UNCHANGED vars
  <2>1. UNCHANGED <<rows, held, req, filed, invoice, lapped, hire, book, advances, fuels, bills, pays, balance>>
    BY <1>2 DEF vars, ledger, customer, vendor, pump
  <2>2. Base'
    BY <1>2, BaseStutters DEF IInv
  <2>3. Reversals' /\ AdvancesKept'
    BY <2>1 DEF IInv, Promises, Reversals, UndoesRows, ReversedOnce, Those, Undoing,
           AdvancesKept, AdjustmentsAddUp, Adjusting
  <2>4. Settlements'
    BY <2>1 DEF IInv, Promises, Settlements, BookKeepsPace, Those, Settling, Covers, OwnerPaid,
           OwnerReturned, Undone, Net
  <2>5. Guards'
    BY <2>1 DEF IInv, Promises, Guards, Guarding, OneFiled, Received, Billed, Collected
  <2>6. Invoicing'
    <3>1. InvoiceFollows'
      BY <2>1 DEF IInv, Promises, Invoicing, InvoiceFollows, StatusFor, Received, Billed
    <3>2. NothingBilled'
      BY <2>1 DEF IInv, Promises, Invoicing, NothingBilled, Those, Seen
    <3>3. ASSUME NEW r \in Requests  PROVE Stamping(r)'
      <4>1. Stamping(r)
        BY DEF IInv, Promises, Invoicing
      <4> QED BY <2>1, <4>1 DEF Stamping, StatusFor, Received, Billed, Seen
    <3> QED BY <3>1, <3>2, <3>3 DEF Invoicing
  <2>7. Pumps'
    <3>1. PumpBalanced' /\ BillsAddUp'
      BY <2>1 DEF IInv, Promises, Pumps, PumpBalanced, BillsAddUp, Whole
    <3>2. ASSUME NEW r \in Requests  PROVE Pumping(r)'
      <4>1. Pumping(r)
        BY DEF IInv, Promises, Pumps
      <4> QED BY <2>1, <4>1 DEF Pumping, Outstanding, UpTo, Unbilled
    <3> QED BY <3>1, <3>2 DEF Pumps
  <2> QED BY <2>2, <2>3, <2>4, <2>5, <2>6, <2>7 DEF IInv, Promises
<1> QED BY <1>1, <1>2

LEMMA IInvHolds == Spec => []IInv
<1>1. Init => IInv
  BY BaseStarts, PromisesStart DEF IInv
<1>2. IInv /\ [Next]_vars => IInv'
  BY IInvSteps
<1> QED BY <1>1, <1>2, PTL DEF Spec

\* reverseTransaction: an entry is undone by one reversal at most and a reversal by none,
\* however many operators press the button at one time.
THEOREM EntriesReversedOnce == Spec => []ReversedOnce
<1>1. IInv => ReversedOnce
  BY DEF IInv, Promises, Reversals
<1> QED BY <1>1, IInvHolds, PTL

\* adjustAdvance: what an advance has adjusted is what was answered for, and within what was
\* given, however many operators adjust it at one time.
THEOREM AdvancesAddUp == Spec => []AdjustmentsAddUp
<1>1. IInv => AdjustmentsAddUp
  BY DEF IInv, Promises, AdvancesKept
<1> QED BY <1>1, IInvHolds, PTL

\* owner_settlement_amount is the sum of the rows of the settlement desk, though it is written
\* as a value the desk computed: no settlement is lost by two at one time.
THEOREM NoSettlementLost == Spec => []BookKeepsPace
<1>1. IInv => BookKeepsPace
  BY DEF IInv, Promises, Settlements
<1> QED BY <1>1, IInvHolds, PTL

\* The invoice says what it has received and kept according to the ledger, as long as no two
\* requests reconciled it at one time and none of its receipts was reversed.
THEOREM InvoiceFollowsLedger == Spec => []InvoiceAgreesUnlessLapped
<1>1. ASSUME IInv  PROVE InvoiceAgreesUnlessLapped
  <2>1. InvoiceFollows /\ Base
    BY <1>1 DEF IInv, Promises, Invoicing
  <2> SUFFICES ASSUME invoice # "ABSENT", ~lapped,
                      \A i \in DOMAIN rows : rows[i].undoes \notin Billed(rows)
               PROVE  Kept(rows) = Received(rows)
    BY <2>1 DEF InvoiceAgreesUnlessLapped, InvoiceFollows
  <2>2. \A n \in 1 .. Len(rows) : n \notin {i \in DOMAIN rows : rows[i].undoes \in Billed(rows)}
    BY <2>1, RowAmounts
  <2>3. Undone(rows, Billed(rows)) = 0
    BY <2>1, <2>2, RowAmounts, SumNone DEF Undone
  <2>4. Received(rows) \in Nat
    BY <2>1, ReceivedNat
  <2> QED BY <2>3, <2>4 DEF Kept
<1> QED BY <1>1, IInvHolds, PTL

\* The running balance of the pump is its fuel less its payments, incremented by the one and
\* overwritten by the other.
THEOREM BalanceOfThePump == Spec => []PumpBalanced
<1>1. IInv => PumpBalanced
  BY DEF IInv, Promises, Pumps
<1> QED BY <1>1, IInvHolds, PTL

\* A bill is the sum of the fuel that carries its number and its adjustment, what is paid on
\* it the sum of its payments, and no more than its amount.
THEOREM BillsOfThePump == Spec => []BillsAddUp
<1>1. IInv => BillsAddUp
  BY DEF IInv, Promises, Pumps
<1> QED BY <1>1, IInvHolds, PTL

\* What the settlement desk or a PAY of the vendor route commits is within what was then
\* payable to the owner, whatever ran beside it.
THEOREM PaymentsCovered == Spec => PaidWithinPosition
<1> DEFINE Within == \A i \in Written : rows'[i].by \in {"ownerSettlement", "routePay"} =>
                       OwnerPaid(rows') <= Net' + OwnerReturned(rows')
<1>1. ASSUME IInv, [Next]_vars  PROVE [Within]_vars
  <2>1. CASE Next
    <3>1. PICK r \in Requests : Does(r) /\ (Arrive(r) \/ Step(r)) /\ UNCHANGED <<booked, mix>>
      BY <1>1, <2>1, StepDoes DEF IInv
    <3>2. Within
      BY <1>1, <3>1, SettledWithinPosition DEF IInv, Promises, Reversals
    <3> QED BY <3>2
  <2> QED BY <1>1, <2>1
<1> HIDE DEF Within
<1>2. Spec => [][Within]_vars
  BY <1>1, IInvHolds, PTL DEF Spec
<1> QED BY <1>2 DEF Within, PaidWithinPosition

\* What recordCustomerReceipt commits leaves the invoice within its total, and what
\* recordClientPayment or addPayment commits the customer within the freight, whoever else was
\* posting: always for a trip with a booking, and for one without as long as it has one
\* trip_financial.
THEOREM ReceiptsWithinTotal == Spec => GuardedReceiptsFit
<1> DEFINE Fit == \A i \in Written : /\ rows'[i].by = "receipt" => Received(rows') <= Total
                                     /\ rows'[i].by = "clientPayment" /\ (booked \/ filed' < 2) =>
                                          Collected(rows') <= Total
<1>1. ASSUME IInv, [Next]_vars  PROVE [Fit]_vars
  <2>1. CASE Next
    <3>1. PICK r \in Requests : Does(r) /\ (Arrive(r) \/ Step(r)) /\ UNCHANGED <<booked, mix>>
      BY <1>1, <2>1, StepDoes DEF IInv
    <3>2. Fit
      BY <1>1, <3>1, GuardedFit DEF IInv, Promises, Reversals
    <3> QED BY <3>2
  <2> QED BY <1>1, <2>1
<1> HIDE DEF Fit
<1>2. Spec => [][Fit]_vars
  BY <1>1, IInvHolds, PTL DEF Spec
<1> QED BY <1>2 DEF Fit, GuardedReceiptsFit
=============================================================================
