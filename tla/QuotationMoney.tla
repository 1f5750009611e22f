--------------------------- MODULE QuotationMoney ---------------------------
(***************************************************************************)
(* The money of a saved quotation: calculateTotals and buildSchedule of      *)
(* QuotationService, called by saveQuotation with whatever the operator      *)
(* typed.  The money is computed afresh at every save.                       *)
(***************************************************************************)
EXTENDS Paise, Sequences, Functions

VARIABLE quotes  \* what was typed in, as far as the schedule depends on it, and what came of it

\* rows: computed_amount of each milestone; none when the form was refused.
Refused == <<>>
NoForm  == [schedule_type |-> "NONE", freight |-> 0, total |-> 0, booking |-> 0, percent |-> 0,
            milestones |-> <<>>, rows |-> Refused]

MoneyInit == quotes = {}

Save(quote) == quotes' = quotes \cup {quote}

\* calculateTotals: the charges and their tax are on top of the freight; GST is not in the bill.
BillingAmount(freight, charges, tax) == freight + charges + tax

\* The guard of both schedules lets 0.01 more than the bill through, as far as the double nearest
\* to the bill with the double nearest to 0.01 added to it reaches the one next to it.
Checked(rows, scheduled, total) ==
  IF scheduled <= total THEN {rows}
  ELSE IF scheduled = total + 1 THEN {rows, Refused} ELSE {Refused}

SaveFullPayment ==
  \E freight \in Sums \ {0}, charges, tax \in Sums :
    LET total == BillingAmount(freight, charges, tax)
    IN  Save([NoForm EXCEPT !.schedule_type = "FULL_PAYMENT_IN_ADVANCE", !.freight = freight,
                            !.total = total, !.rows = <<total>>])

\* Mutant: the share of the freight is asked for on top of the booking amount.
OnTopOfBooking(booking, target) == target
\* The advance after loading includes the booking amount.
AdditionalAdvance(booking, target) == target - booking

\* Booking amount, advance after loading, balance at unloading.
AdvanceRows(total, booking, target) ==
  <<booking, AdditionalAdvance(booking, target), total - target>>

\* A booking amount above the freight or above the advance is refused.
AdvanceOutcomes(freight, total, booking, target) ==
  LET rows == AdvanceRows(total, booking, target)
  IN  IF booking \in 1 .. freight /\ booking <= target
      THEN Checked(rows, rows[1] + rows[2] + rows[3], total)
      ELSE {Refused}

SaveBookingAdvance ==
  \E freight \in Sums \ {0}, charges, tax, booking \in Sums, p \in Percents :
    LET total == BillingAmount(freight, charges, tax)
    IN  \E target \in Share(freight, p) :
          \E rows \in AdvanceOutcomes(freight, total, booking, target) :
            Save([NoForm EXCEPT !.schedule_type = "BOOKING_ADVANCE_BALANCE", !.freight = freight,
                                !.total = total, !.booking = booking, !.percent = p, !.rows = rows])

\* A milestone of a custom schedule is a fixed amount or a percentage of the billing amount.
Milestones ==
  [amount_type : {"FIXED"}, amount_value : Sums \ {0}]
    \cup [amount_type : {"PERCENTAGE"}, amount_value : Percents]

Due(total, m) ==
  IF m.amount_type = "FIXED" THEN {m.amount_value} ELSE Share(total, m.amount_value)

\* Every milestone is rounded by itself.
CustomRows(total, ms) ==
  {rows \in [DOMAIN ms -> UNION {Due(total, ms[i]) : i \in DOMAIN ms}] :
     \A i \in DOMAIN ms : rows[i] \in Due(total, ms[i])}

SaveCustom(n) ==
  \E freight \in Sums \ {0}, charges, tax \in Sums, ms \in [1 .. n -> Milestones] :
    LET total == BillingAmount(freight, charges, tax)
    IN  \E due \in CustomRows(total, ms) : \E rows \in Checked(due, SumFunction(due), total) :
          Save([NoForm EXCEPT !.schedule_type = "CUSTOM", !.freight = freight, !.total = total,
                              !.milestones = ms, !.rows = rows])

\* Bound: schedules of up to three milestones; the program takes up to MAX_MILESTONES.
MoneyNext == SaveFullPayment \/ SaveBookingAdvance \/ \E n \in 1 .. 3 : SaveCustom(n)

MoneySpec == MoneyInit /\ [][MoneyNext]_quotes

-----------------------------------------------------------------------------

\* A booking amount within the advance is never refused; the three payments add up to the bill,
\* none is negative, and the advance after loading includes the booking amount.
AdvanceCoversTheBill ==
  \A q \in quotes : q.schedule_type = "BOOKING_ADVANCE_BALANCE" =>
    LET targets == Share(q.freight, q.percent)
    IN  /\ q.booking > 0 /\ (\A t \in targets : q.booking <= t) => q.rows # Refused
        /\ q.rows # Refused =>
             /\ q.rows[1] + q.rows[2] + q.rows[3] = q.total
             /\ \A i \in 1 .. 3 : q.rows[i] >= 0
             /\ q.rows[1] + q.rows[2] \in targets

\* What a milestone comes to before it is rounded, in paise / Hundred.
Exact(total, m) ==
  IF m.amount_type = "FIXED" THEN m.amount_value * Hundred ELSE total * m.amount_value

\* Up to three milestones that add up to the bill before they are rounded: rounding each by itself
\* leaves at most one paisa too much or too little, and only too much may be refused.
MilestonesCoverTheBill ==
  \A q \in quotes :
    LET ms == q.milestones
    IN  /\ q.schedule_type = "CUSTOM"
        /\ SumFunction([i \in DOMAIN ms |-> Exact(q.total, ms[i])]) = q.total * Hundred
        => IF q.rows = Refused
           THEN \E due \in CustomRows(q.total, ms) : SumFunction(due) = q.total + 1
           ELSE SumFunction(q.rows) - q.total \in -1 .. 1
=============================================================================
