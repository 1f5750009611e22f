---------------------------- MODULE Money_proofs ----------------------------
(***************************************************************************)
(* Theorems about QuotationMoney and HireMoney, for every set of amounts and *)
(* every unit of the percentages.                                            *)
(***************************************************************************)
EXTENDS QuotationMoney, HireMoney, TLAPS

\* A factor that is positive can be dropped from an inequality.
LEMMA Cancel ==
  ASSUME NEW x \in Int, NEW y \in Int, NEW d \in Nat \ {0}, x * d < (y + 1) * d
  PROVE  x <= y
<1>1. SUFFICES ASSUME y + 1 <= x PROVE FALSE
  OBVIOUS
<1>2. PICK k \in Nat : x = y + 1 + k
  <2>1. x - (y + 1) \in Nat
    BY <1>1
  <2> QED BY <2>1
<1>3. x * d = (y + 1) * d + k * d
  BY <1>2
<1>4. k * d >= 0
  OBVIOUS
<1> QED BY <1>3, <1>4

\* A rounded quotient is within a half of the quotient.
LEMMA NearestBounds ==
  ASSUME NEW n \in Int, NEW d \in Nat \ {0}, NEW q \in Nearest(n, d)
  PROVE  /\ q \in Int
         /\ 2 * (n - q * d) <= d
         /\ 2 * (q * d - n) <= d
<1>1. n \div d \in Int
  OBVIOUS
<1> QED BY <1>1 DEF Nearest

\* Every quotient can be rounded.
LEMMA NearestExists ==
  ASSUME NEW n \in Nat, NEW d \in Nat \ {0}
  PROVE  Nearest(n, d) # {}
<1> DEFINE f == n \div d
           e == n % d
<1>1. /\ f \in Int /\ e \in Nat /\ e < d
      /\ n = d * f + e
  OBVIOUS
<1> HIDE DEF f, e
<1>2. n - f * d = e
  BY <1>1
<1>3. (f + 1) * d = f * d + d
  BY <1>1
<1>4. CASE 2 * e <= d
  <2>1. f \in Nearest(n, d)
    <3>1. 2 * (n - f * d) <= d
      BY <1>1, <1>2, <1>4
    <3>2. 2 * (f * d - n) <= d
      BY <1>1, <1>2
    <3> QED BY <3>1, <3>2 DEF Nearest, f
  <2> QED BY <2>1
<1>5. CASE ~(2 * e <= d)
  <2>1. f + 1 \in Nearest(n, d)
    <3>1. 2 * (n - (f + 1) * d) <= d
      BY <1>1, <1>2, <1>3, <1>5
    <3>2. 2 * ((f + 1) * d - n) <= d
      BY <1>1, <1>2, <1>3, <1>5
    <3> QED BY <3>1, <3>2 DEF Nearest, f
  <2> QED BY <2>1
<1> QED BY <1>4, <1>5

\* A share of an amount is neither negative nor more than the amount.
LEMMA ShareWithin ==
  ASSUME NEW amount \in Nat, NEW p \in 0 .. Hundred, NEW q \in Share(amount, p)
  PROVE  q \in 0 .. amount
<1>1. Hundred \in Nat \ {0}
  BY PaiseAssumption
<1>2. amount * p \in Nat
  BY <1>1
<1>3. /\ q \in Int
      /\ 2 * (amount * p - q * Hundred) <= Hundred
      /\ 2 * (q * Hundred - amount * p) <= Hundred
  BY <1>1, <1>2, NearestBounds DEF Share
<1>4. amount * p <= amount * Hundred
  <2>1. PICK k \in Nat : Hundred = p + k
    <3>1. Hundred - p \in Nat
      BY <1>1
    <3> QED BY <3>1, <1>1
  <2>2. amount * Hundred = amount * p + amount * k
    BY <2>1
  <2>3. amount * k >= 0
    BY <2>1
  <2> QED BY <2>2, <2>3, <1>1, <1>2
<1>5. q <= amount
  <2>1. q * Hundred < (amount + 1) * Hundred
    <3>1. (amount + 1) * Hundred = amount * Hundred + Hundred
      BY <1>1
    <3> QED BY <1>1, <1>2, <1>3, <1>4, <3>1
  <2> QED BY <1>1, <1>3, <2>1, Cancel
<1>6. 0 <= q
  <2>1. (0 - q) * Hundred < (0 + 1) * Hundred
    <3>1. (0 - q) * Hundred = 0 - q * Hundred
      BY <1>1, <1>3
    <3> QED BY <1>1, <1>2, <1>3, <3>1
  <2>2. 0 - q <= 0
    BY <1>1, <1>3, <2>1, Cancel
  <2> QED BY <2>2, <1>3
<1> QED BY <1>3, <1>5, <1>6

-----------------------------------------------------------------------------
(***************************************************************************)
(* The schedule with a booking amount.                                      *)
(***************************************************************************)

\* What AdvanceCoversTheBill says of one quotation.
Covered(q) ==
  q.schedule_type = "BOOKING_ADVANCE_BALANCE" =>
    LET targets == Share(q.freight, q.percent)
    IN  /\ q.booking > 0 /\ (\A t \in targets : q.booking <= t) => q.rows # Refused
        /\ q.rows # Refused =>
             /\ q.rows[1] + q.rows[2] + q.rows[3] = q.total
             /\ \A i \in 1 .. 3 : q.rows[i] >= 0
             /\ q.rows[1] + q.rows[2] \in targets

\* Whatever is typed and however the share is rounded, the form that is saved is covered.
LEMMA AdvanceIsCovered ==
  ASSUME NEW freight \in Sums, NEW charges \in Sums, NEW tax \in Sums, NEW booking \in Sums,
         NEW p \in Percents, NEW target \in Share(freight, p),
         NEW saved \in AdvanceOutcomes(freight, BillingAmount(freight, charges, tax), booking, target)
  PROVE  Covered([NoForm EXCEPT !.schedule_type = "BOOKING_ADVANCE_BALANCE", !.freight = freight,
                                !.total = BillingAmount(freight, charges, tax),
                                !.booking = booking, !.percent = p, !.rows = saved])
<1> DEFINE total == BillingAmount(freight, charges, tax)
           rows  == AdvanceRows(total, booking, target)
           ok    == booking \in 1 .. freight /\ booking <= target
           quote == [NoForm EXCEPT !.schedule_type = "BOOKING_ADVANCE_BALANCE", !.freight = freight,
                                   !.total = total, !.booking = booking, !.percent = p, !.rows = saved]
<1>1. /\ freight \in Nat /\ charges \in Nat /\ tax \in Nat /\ booking \in Nat
      /\ p \in 0 .. Hundred
  BY PaiseAssumption
<1>2. target \in 0 .. freight
  BY <1>1, ShareWithin
<1>3. total \in Nat /\ freight <= total
  BY <1>1 DEF BillingAmount
<1>4. /\ rows[1] = booking /\ rows[2] = target - booking /\ rows[3] = total - target
      /\ rows # Refused
  BY DEF AdvanceRows, AdditionalAdvance, Refused
<1>5. rows[1] + rows[2] + rows[3] = total
  BY <1>1, <1>2, <1>3, <1>4
<1>6. /\ quote.freight = freight /\ quote.percent = p /\ quote.booking = booking
      /\ quote.total = total /\ quote.rows = IF ok THEN rows ELSE Refused
  <2>1. saved = IF ok THEN rows ELSE Refused
    <3>1. saved \in IF ok THEN Checked(rows, rows[1] + rows[2] + rows[3], total) ELSE {Refused}
      BY DEF AdvanceOutcomes
    <3>2. Checked(rows, rows[1] + rows[2] + rows[3], total) = {rows}
      BY <1>3, <1>5 DEF Checked
    <3> HIDE DEF rows, total, ok
    <3> QED BY <3>1, <3>2
  <2> QED BY <2>1 DEF NoForm
<1> HIDE DEF rows, total
<1>7. booking > 0 /\ booking <= target => ok
  BY <1>1, <1>2
<1>8. ok => /\ rows[1] + rows[2] \in Share(freight, p)
            /\ \A i \in 1 .. 3 : rows[i] >= 0
  <2> SUFFICES ASSUME ok PROVE /\ rows[1] + rows[2] \in Share(freight, p)
                               /\ \A i \in 1 .. 3 : rows[i] >= 0
    OBVIOUS
  <2>1. rows[1] + rows[2] = target
    BY <1>1, <1>2, <1>4
  <2>2. rows[1] >= 0 /\ rows[2] >= 0 /\ rows[3] >= 0
    BY <1>1, <1>2, <1>3, <1>4
  <2>3. \A i \in 1 .. 3 : i = 1 \/ i = 2 \/ i = 3
    OBVIOUS
  <2> QED BY <2>1, <2>2, <2>3
<1> HIDE DEF ok, quote
<1>9. Covered(quote)
  BY <1>4, <1>5, <1>6, <1>7, <1>8 DEF Covered
<1> QED BY <1>9 DEF quote, ok, rows, total

\* A save keeps every quotation covered: AdvanceCoversTheBill is inductive.
LEMMA SaveKeepsCovered ==
  AdvanceCoversTheBill /\ [MoneyNext]_quotes => AdvanceCoversTheBill'
<1> SUFFICES ASSUME AdvanceCoversTheBill, [MoneyNext]_quotes PROVE AdvanceCoversTheBill'
  OBVIOUS
<1>1. SUFFICES \A q \in quotes' : Covered(q)
  BY DEF AdvanceCoversTheBill, Covered
<1>2. \A q \in quotes : Covered(q)
  BY DEF AdvanceCoversTheBill, Covered
<1>3. CASE SaveFullPayment
  <2>1. PICK freight, total : Save([NoForm EXCEPT
            !.schedule_type = "FULL_PAYMENT_IN_ADVANCE", !.freight = freight,
            !.total = total, !.rows = <<total>>])
    BY <1>3 DEF SaveFullPayment
  <2> QED BY <1>2, <2>1 DEF Save, Covered, NoForm
<1>4. CASE SaveBookingAdvance
  <2>1. PICK freight \in Sums, charges \in Sums, tax \in Sums, booking \in Sums, p \in Percents :
          \E target \in Share(freight, p) :
            \E rows \in AdvanceOutcomes(freight, BillingAmount(freight, charges, tax), booking, target) :
              Save([NoForm EXCEPT !.schedule_type = "BOOKING_ADVANCE_BALANCE", !.freight = freight,
                      !.total = BillingAmount(freight, charges, tax),
                      !.booking = booking, !.percent = p, !.rows = rows])
    BY <1>4 DEF SaveBookingAdvance
  <2> DEFINE total == BillingAmount(freight, charges, tax)
             quote(rows) == [NoForm EXCEPT !.schedule_type = "BOOKING_ADVANCE_BALANCE",
                            !.freight = freight, !.total = total, !.booking = booking,
                            !.percent = p, !.rows = rows]
  <2>2. PICK target \in Share(freight, p) :
          \E rows \in AdvanceOutcomes(freight, total, booking, target) : Save(quote(rows))
    BY <2>1
  <2>3. PICK rows \in AdvanceOutcomes(freight, total, booking, target) : Save(quote(rows))
    BY <2>2
  <2>4. Covered(quote(rows))
    BY AdvanceIsCovered
  <2> HIDE DEF quote
  <2> QED BY <1>2, <2>3, <2>4 DEF Save
<1>5. CASE \E n \in 1 .. 3 : SaveCustom(n)
  <2>1. PICK freight, total, ms, rows : Save([NoForm EXCEPT
            !.schedule_type = "CUSTOM", !.freight = freight, !.total = total,
            !.milestones = ms, !.rows = rows])
    BY <1>5 DEF SaveCustom
  <2> QED BY <1>2, <2>1 DEF Save, Covered, NoForm
<1>6. CASE UNCHANGED quotes
  BY <1>2, <1>6
<1> QED BY <1>3, <1>4, <1>5, <1>6 DEF MoneyNext

\* For every amount and percentage, a schedule with a booking amount is accepted when the booking
\* is within the advance, adds up to the bill and asks for nothing negative (buildSchedule).
THEOREM AdvanceAlwaysCovers == MoneySpec => []AdvanceCoversTheBill
<1>1. MoneyInit => AdvanceCoversTheBill
  BY DEF MoneyInit, AdvanceCoversTheBill
<1> QED BY <1>1, SaveKeepsCovered, PTL DEF MoneySpec

-----------------------------------------------------------------------------
(***************************************************************************)
(* The custom schedule.                                                     *)
(***************************************************************************)

\* The member a fold takes next.
Pick(s) == CHOOSE x \in s : TRUE

LEMMA PickIn == ASSUME NEW s, s # {} PROVE Pick(s) \in s
BY DEF Pick

\* iter sums f over every subset of S.
Totals(iter, f, S) ==
  iter = [s \in SUBSET S |-> IF s = {} THEN 0 ELSE f[Pick(s)] + iter[s \ {Pick(s)}]]

\* The library's sum is a fold over the sets of indices.
LEMMA SumIsTotal ==
  ASSUME NEW f
  PROVE  SumFunction(f) = (CHOOSE iter : Totals(iter, f, DOMAIN f))[DOMAIN f]
BY DEF SumFunction, SumFunctionOnSet, FoldFunctionOnSet, MapThenFoldSet, Totals, Pick

\* What the members of a set add, of up to three numbers.
Added(f, s) == (IF 1 \in s THEN f[1] ELSE 0) + (IF 2 \in s THEN f[2] ELSE 0)
                 + (IF 3 \in s THEN f[3] ELSE 0)

\* Any member may be added last.
LEMMA AddedStep ==
  ASSUME NEW n \in 1 .. 3, NEW f \in [1 .. n -> Int], NEW s \in SUBSET (1 .. n), NEW x \in s
  PROVE  Added(f, s) = f[x] + Added(f, s \ {x})
<1>1. \A i \in s : f[i] \in Int
  OBVIOUS
<1>2. x = 1 \/ x = 2 \/ x = 3
  OBVIOUS
<1>3. CASE x = 1
  BY <1>1, <1>3 DEF Added
<1>4. CASE x = 2
  BY <1>1, <1>4 DEF Added
<1>5. CASE x = 3
  BY <1>1, <1>5 DEF Added
<1> QED BY <1>2, <1>3, <1>4, <1>5

\* Up to three numbers have the sum they should have, whichever is taken first.
LEMMA SumOfThree ==
  ASSUME NEW n \in 1 .. 3, NEW f \in [1 .. n -> Int]
  PROVE  SumFunction(f) = Added(f, 1 .. n)
<1> DEFINE S == 1 .. n
           c == CHOOSE iter : Totals(iter, f, S)
<1>0. \A s \in SUBSET S : \A x \in s : Added(f, s) = f[x] + Added(f, s \ {x})
  BY AddedStep
<1>1. Totals([s \in SUBSET S |-> Added(f, s)], f, S)
  <2> DEFINE g == [s \in SUBSET S |-> Added(f, s)]
  <2>1. ASSUME NEW s \in SUBSET S, s # {}  PROVE Added(f, s) = f[Pick(s)] + g[s \ {Pick(s)}]
    <3>1. Pick(s) \in s /\ s \ {Pick(s)} \in SUBSET S
      BY <2>1, PickIn
    <3> QED BY <1>0, <3>1
  <2>2. Added(f, {}) = 0
    BY DEF Added
  <2>3. \A s \in SUBSET S : g[s] = IF s = {} THEN 0 ELSE f[Pick(s)] + g[s \ {Pick(s)}]
    BY <2>1, <2>2
  <2> QED BY <2>3 DEF Totals
<1>2. Totals(c, f, S) /\ SumFunction(f) = c[S]
  <2>1. \E iter : Totals(iter, f, S)
    BY <1>1
  <2>2. DOMAIN f = S
    OBVIOUS
  <2> QED BY <2>1, <2>2, SumIsTotal
<1> HIDE DEF c
<1>3. c[{}] = 0
  BY <1>2 DEF Totals
<1>4. \A s \in SUBSET S : s # {} => \E x \in s : c[s] = f[x] + c[s \ {x}]
  BY <1>2, PickIn DEF Totals
<1>5. ASSUME NEW i \in S  PROVE c[{i}] = Added(f, {i})
  <2>1. c[{i}] = f[i] + c[{i} \ {i}]
    BY <1>4
  <2>2. {i} \ {i} = {}
    OBVIOUS
  <2>3. Added(f, {i}) = f[i] + Added(f, {i} \ {i})
    <3>1. {i} \in SUBSET S /\ i \in {i}
      OBVIOUS
    <3> QED BY <1>0, <3>1
  <2>4. Added(f, {}) = 0
    BY DEF Added
  <2> QED BY <1>3, <2>1, <2>2, <2>3, <2>4
<1>6. ASSUME NEW i \in S, NEW j \in S, i # j  PROVE c[{i, j}] = Added(f, {i, j})
  <2>1. PICK x \in {i, j} : c[{i, j}] = f[x] + c[{i, j} \ {x}]
    BY <1>4
  <2>2. \E y \in S : {i, j} \ {x} = {y}
    BY <1>6
  <2>3. Added(f, {i, j}) = f[x] + Added(f, {i, j} \ {x})
    <3>1. {i, j} \in SUBSET S
      OBVIOUS
    <3> QED BY <1>0, <3>1
  <2> QED BY <1>5, <2>1, <2>2, <2>3
<1>7. CASE n = 1
  <2>1. S = {1} /\ 1 \in S
    BY <1>7
  <2> QED BY <1>5, <2>1, <1>2
<1>8. CASE n = 2
  <2>1. S = {1, 2} /\ 1 \in S /\ 2 \in S
    BY <1>8
  <2>2. c[{1, 2}] = Added(f, {1, 2})
    <3> HIDE DEF S
    <3>1. 1 \in S /\ 2 \in S /\ 1 # 2
      BY <2>1
    <3> QED BY <1>6, <3>1
  <2> QED BY <1>2, <2>1, <2>2
<1>9. CASE n = 3
  <2>1. S = {1, 2, 3}
    BY <1>9
  <2>2. PICK x \in S : c[S] = f[x] + c[S \ {x}]
    BY <1>4, <2>1
  <2>3. \E i \in S, j \in S : i # j /\ S \ {x} = {i, j}
    <3>1. x = 1 => S \ {x} = {2, 3}
      BY <2>1
    <3>2. x = 2 => S \ {x} = {1, 3}
      BY <2>1
    <3>3. x = 3 => S \ {x} = {1, 2}
      BY <2>1
    <3> QED BY <2>1, <3>1, <3>2, <3>3, SMTT(30)
  <2>4. Added(f, S) = f[x] + Added(f, S \ {x})
    <3>1. S \in SUBSET S
      OBVIOUS
    <3> QED BY <1>0, <3>1
  <2>5. c[S] = Added(f, S)
    BY <1>6, <2>2, <2>3, <2>4
  <2> QED BY <2>5, <1>2
<1> QED BY <1>7, <1>8, <1>9

\* A milestone is rounded to within a half of what it comes to.
LEMMA DueIsNear ==
  ASSUME NEW total \in Nat, NEW m \in Milestones, NEW d \in Due(total, m)
  PROVE  /\ d \in Int /\ Exact(total, m) \in Int
         /\ 2 * (Exact(total, m) - d * Hundred) <= Hundred
         /\ 2 * (d * Hundred - Exact(total, m)) <= Hundred
<1>1. Hundred \in Nat \ {0} /\ Sums \subseteq Nat /\ Percents \subseteq 1 .. Hundred
  BY PaiseAssumption
<1>2. CASE m.amount_type = "FIXED"
  <2>1. m.amount_value \in Nat /\ d = m.amount_value /\ Exact(total, m) = d * Hundred
    BY <1>1, <1>2 DEF Milestones, Due, Exact
  <2>2. PICK e \in Int : e = d * Hundred
    <3>1. d * Hundred \in Int
      BY <1>1, <2>1
    <3> QED BY <3>1
  <2>3. 2 * (e - e) <= Hundred
    BY <1>1
  <2>4. Exact(total, m) = e /\ d \in Int
    BY <2>1, <2>2
  <2> QED BY <2>2, <2>3, <2>4
<1>3. CASE m.amount_type # "FIXED"
  <2>1. m.amount_value \in Nat
    <3>1. m.amount_value \in Percents
      BY <1>3 DEF Milestones
    <3>2. PICK v \in 1 .. Hundred : v = m.amount_value
      BY <1>1, <3>1
    <3>3. v \in Nat
      BY <1>1
    <3> QED BY <3>2, <3>3
  <2>2. d \in Nearest(total * m.amount_value, Hundred) /\ Exact(total, m) = total * m.amount_value
    BY <1>3 DEF Due, Exact, Share
  <2>3. total * m.amount_value \in Int
    BY <2>1
  <2> QED BY <1>1, <2>2, <2>3, NearestBounds
<1> QED BY <1>2, <1>3

\* Three numbers, each within a half of its own, are within three halves together.
LEMMA ThreeHalves ==
  ASSUME NEW h \in Nat, NEW e1 \in Int, NEW e2 \in Int, NEW e3 \in Int,
         NEW d1 \in Int, NEW d2 \in Int, NEW d3 \in Int,
         2 * (e1 - d1 * h) <= h /\ 2 * (d1 * h - e1) <= h,
         2 * (e2 - d2 * h) <= h /\ 2 * (d2 * h - e2) <= h,
         2 * (e3 - d3 * h) <= h /\ 2 * (d3 * h - e3) <= h
  PROVE  /\ 2 * ((e1 + e2 + e3) - (d1 + d2 + d3) * h) <= 3 * h
         /\ 2 * ((d1 + d2 + d3) * h - (e1 + e2 + e3)) <= 3 * h
<1>1. (d1 + d2 + d3) * h = d1 * h + d2 * h + d3 * h
  OBVIOUS
<1>2. d1 * h \in Int /\ d2 * h \in Int /\ d3 * h \in Int
  OBVIOUS
<1>3. PICK p1 \in Int, p2 \in Int, p3 \in Int : p1 = d1 * h /\ p2 = d2 * h /\ p3 = d3 * h
  BY <1>2
<1>4. /\ 2 * ((e1 + e2 + e3) - (p1 + p2 + p3)) <= 3 * h
      /\ 2 * ((p1 + p2 + p3) - (e1 + e2 + e3)) <= 3 * h
  BY <1>3
<1> QED BY <1>1, <1>3, <1>4

\* Three halves of a paisa come to one at most.
LEMMA RoundedSum ==
  ASSUME NEW n \in 1 .. 3, NEW ms \in [1 .. n -> Milestones], NEW total \in Nat,
         NEW due \in CustomRows(total, ms),
         SumFunction([i \in DOMAIN ms |-> Exact(total, ms[i])]) = total * Hundred
  PROVE  due # Refused /\ SumFunction(due) \in Int /\ SumFunction(due) - total \in -1 .. 1
<1> DEFINE exact == [i \in DOMAIN ms |-> Exact(total, ms[i])]
<1>1. Hundred \in Nat \ {0} /\ DOMAIN ms = 1 .. n
  BY PaiseAssumption
<1>2. DOMAIN due = 1 .. n /\ \A i \in 1 .. n : due[i] \in Due(total, ms[i])
  BY <1>1 DEF CustomRows
<1>3. \A i \in 1 .. n : /\ due[i] \in Int /\ exact[i] \in Int
                        /\ 2 * (exact[i] - due[i] * Hundred) <= Hundred
                        /\ 2 * (due[i] * Hundred - exact[i]) <= Hundred
  BY <1>1, <1>2, DueIsNear
<1>4. due \in [1 .. n -> Int] /\ exact \in [1 .. n -> Int]
  <2>1. due = [i \in 1 .. n |-> due[i]]
    BY <1>2 DEF CustomRows
  <2> QED BY <1>1, <1>3, <2>1
<1> HIDE DEF exact
<1>5. SumFunction(due) = Added(due, 1 .. n) /\ total * Hundred = Added(exact, 1 .. n)
  BY <1>4, SumOfThree DEF exact
<1> DEFINE D == Added(due, 1 .. n)
<1>6. /\ D \in Int
      /\ 2 * (total * Hundred - D * Hundred) <= 3 * Hundred
      /\ 2 * (D * Hundred - total * Hundred) <= 3 * Hundred
  <2> DEFINE part(g, i) == IF i \in 1 .. n THEN g[i] ELSE 0
  <2>1. \A i \in 1 .. 3 : /\ part(due, i) \in Int /\ part(exact, i) \in Int
                          /\ 2 * (part(exact, i) - part(due, i) * Hundred) <= Hundred
                          /\ 2 * (part(due, i) * Hundred - part(exact, i)) <= Hundred
    BY <1>1, <1>3
  <2>2. D = part(due, 1) + part(due, 2) + part(due, 3)
    BY DEF Added
  <2>3. total * Hundred = part(exact, 1) + part(exact, 2) + part(exact, 3)
    BY <1>5 DEF Added
  <2> HIDE DEF part, D
  <2>4. 1 \in 1 .. 3 /\ 2 \in 1 .. 3 /\ 3 \in 1 .. 3
    OBVIOUS
  <2>5. PICK d1 \in Int, d2 \in Int, d3 \in Int :
          d1 = part(due, 1) /\ d2 = part(due, 2) /\ d3 = part(due, 3)
    BY <2>1, <2>4
  <2>6. PICK e1 \in Int, e2 \in Int, e3 \in Int :
          e1 = part(exact, 1) /\ e2 = part(exact, 2) /\ e3 = part(exact, 3)
    BY <2>1, <2>4
  <2>7. /\ 2 * (e1 - d1 * Hundred) <= Hundred /\ 2 * (d1 * Hundred - e1) <= Hundred
        /\ 2 * (e2 - d2 * Hundred) <= Hundred /\ 2 * (d2 * Hundred - e2) <= Hundred
        /\ 2 * (e3 - d3 * Hundred) <= Hundred /\ 2 * (d3 * Hundred - e3) <= Hundred
    BY <2>1, <2>4, <2>5, <2>6
  <2>8. D = d1 + d2 + d3 /\ total * Hundred = e1 + e2 + e3
    BY <2>2, <2>3, <2>5, <2>6
  <2>9. /\ 2 * ((e1 + e2 + e3) - (d1 + d2 + d3) * Hundred) <= 3 * Hundred
        /\ 2 * ((d1 + d2 + d3) * Hundred - (e1 + e2 + e3)) <= 3 * Hundred
    BY <1>1, <2>7, ThreeHalves
  <2> QED BY <2>8, <2>9
<1> HIDE DEF D
<1>7. (total - D) * Hundred < (1 + 1) * Hundred /\ (D - total) * Hundred < (1 + 1) * Hundred
  BY <1>1, <1>6
<1>8. total - D <= 1 /\ D - total <= 1
  BY <1>1, <1>6, <1>7, Cancel
<1>9. due # Refused
  BY <1>2 DEF Refused
<1> QED BY <1>5, <1>6, <1>8, <1>9 DEF D

\* What MilestonesCoverTheBill says of one quotation.
Rounded(q) ==
  LET ms == q.milestones
  IN  /\ q.schedule_type = "CUSTOM"
      /\ SumFunction([i \in DOMAIN ms |-> Exact(q.total, ms[i])]) = q.total * Hundred
      => IF q.rows = Refused
         THEN \E due \in CustomRows(q.total, ms) : SumFunction(due) = q.total + 1
         ELSE SumFunction(q.rows) - q.total \in -1 .. 1

\* Whatever the milestones, the form that is saved or refused is off by a paisa at most.
LEMMA CustomIsRounded ==
  ASSUME NEW freight \in Sums, NEW charges \in Sums, NEW tax \in Sums, NEW n \in 1 .. 3,
         NEW ms \in [1 .. n -> Milestones],
         NEW due \in CustomRows(BillingAmount(freight, charges, tax), ms),
         NEW saved \in Checked(due, SumFunction(due), BillingAmount(freight, charges, tax))
  PROVE  Rounded([NoForm EXCEPT !.schedule_type = "CUSTOM", !.freight = freight,
                                !.total = BillingAmount(freight, charges, tax),
                                !.milestones = ms, !.rows = saved])
<1> DEFINE total == BillingAmount(freight, charges, tax)
           quote == [NoForm EXCEPT !.schedule_type = "CUSTOM", !.freight = freight,
                                   !.total = total, !.milestones = ms, !.rows = saved]
<1>1. total \in Nat
  BY PaiseAssumption DEF BillingAmount
<1>2. quote.total = total /\ quote.milestones = ms /\ quote.rows = saved
  BY DEF NoForm
<1> HIDE DEF total, quote
<1>3. ASSUME SumFunction([i \in DOMAIN ms |-> Exact(total, ms[i])]) = total * Hundred
      PROVE  IF saved = Refused
             THEN \E d \in CustomRows(total, ms) : SumFunction(d) = total + 1
             ELSE SumFunction(saved) - total \in -1 .. 1
  <2>1. due \in CustomRows(total, ms) /\ saved \in Checked(due, SumFunction(due), total)
    BY DEF total
  <2>2. due # Refused /\ SumFunction(due) \in Int /\ SumFunction(due) - total \in -1 .. 1
    BY <1>1, <1>3, <2>1, RoundedSum
  <2> DEFINE D == SumFunction(due)
  <2>3. CASE D <= total
    <3>1. saved = due
      BY <2>1, <2>3 DEF Checked
    <3> QED BY <2>2, <3>1
  <2>4. CASE ~(D <= total)
    <3>1. saved = due \/ (saved = Refused /\ D = total + 1)
      <4>1. D = total + 1
        BY <1>1, <2>2, <2>4
      <4> QED BY <2>1, <2>4, <4>1 DEF Checked
    <3> QED BY <2>1, <2>2, <3>1
  <2> QED BY <2>3, <2>4
<1>4. Rounded(quote)
  BY <1>2, <1>3 DEF Rounded
<1> QED BY <1>4 DEF quote, total

\* A save keeps every custom schedule within a paisa of its bill: MilestonesCoverTheBill is
\* inductive.
LEMMA SaveKeepsRounded ==
  MilestonesCoverTheBill /\ [MoneyNext]_quotes => MilestonesCoverTheBill'
<1> SUFFICES ASSUME MilestonesCoverTheBill, [MoneyNext]_quotes PROVE MilestonesCoverTheBill'
  OBVIOUS
<1>1. SUFFICES \A q \in quotes' : Rounded(q)
  BY DEF MilestonesCoverTheBill, Rounded
<1>2. \A q \in quotes : Rounded(q)
  BY DEF MilestonesCoverTheBill, Rounded
<1>3. ASSUME NEW q, q.schedule_type # "CUSTOM"  PROVE Rounded(q)
  BY <1>3 DEF Rounded
<1>4. CASE SaveFullPayment
  <2>1. PICK freight, total : Save([NoForm EXCEPT
            !.schedule_type = "FULL_PAYMENT_IN_ADVANCE", !.freight = freight,
            !.total = total, !.rows = <<total>>])
    BY <1>4 DEF SaveFullPayment
  <2> DEFINE quote == [NoForm EXCEPT !.schedule_type = "FULL_PAYMENT_IN_ADVANCE",
                         !.freight = freight, !.total = total, !.rows = <<total>>]
  <2>2. quote.schedule_type # "CUSTOM"
    BY DEF NoForm
  <2> HIDE DEF quote
  <2>3. Rounded(quote)
    BY <1>3, <2>2
  <2> QED BY <1>2, <2>1, <2>3 DEF Save, quote
<1>5. CASE SaveBookingAdvance
  <2>1. PICK freight, total, booking, p, rows :
          Save([NoForm EXCEPT !.schedule_type = "BOOKING_ADVANCE_BALANCE", !.freight = freight,
                  !.total = total, !.booking = booking, !.percent = p, !.rows = rows])
    BY <1>5 DEF SaveBookingAdvance
  <2> DEFINE quote == [NoForm EXCEPT !.schedule_type = "BOOKING_ADVANCE_BALANCE",
                         !.freight = freight, !.total = total, !.booking = booking,
                         !.percent = p, !.rows = rows]
  <2>2. quote.schedule_type # "CUSTOM"
    BY DEF NoForm
  <2> HIDE DEF quote
  <2>3. Rounded(quote)
    BY <1>3, <2>2
  <2> QED BY <1>2, <2>1, <2>3 DEF Save, quote
<1>6. ASSUME NEW n \in 1 .. 3, SaveCustom(n)  PROVE \A q \in quotes' : Rounded(q)
  <2>1. PICK freight \in Sums, charges \in Sums, tax \in Sums, ms \in [1 .. n -> Milestones] :
          \E due \in CustomRows(BillingAmount(freight, charges, tax), ms) :
            \E rows \in Checked(due, SumFunction(due), BillingAmount(freight, charges, tax)) :
              Save([NoForm EXCEPT !.schedule_type = "CUSTOM", !.freight = freight,
                      !.total = BillingAmount(freight, charges, tax),
                      !.milestones = ms, !.rows = rows])
    BY <1>6 DEF SaveCustom
  <2> DEFINE total == BillingAmount(freight, charges, tax)
             quote(rows) == [NoForm EXCEPT !.schedule_type = "CUSTOM", !.freight = freight,
                               !.total = total, !.milestones = ms, !.rows = rows]
  <2>2. PICK due \in CustomRows(total, ms) :
          \E rows \in Checked(due, SumFunction(due), total) : Save(quote(rows))
    BY <2>1
  <2>3. PICK rows \in Checked(due, SumFunction(due), total) : Save(quote(rows))
    BY <2>2
  <2>4. Rounded(quote(rows))
    BY CustomIsRounded
  <2> HIDE DEF quote
  <2> QED BY <1>2, <2>3, <2>4 DEF Save
<1>7. CASE UNCHANGED quotes
  BY <1>2, <1>7
<1> QED BY <1>4, <1>5, <1>6, <1>7 DEF MoneyNext

\* For every amount and percentage, a custom schedule of up to three milestones that adds up to
\* the bill before rounding is within a paisa of it after, and is refused only when it is above.
THEOREM MilestonesAlwaysCover == MoneySpec => []MilestonesCoverTheBill
<1>1. MoneyInit => MilestonesCoverTheBill
  BY DEF MoneyInit, MilestonesCoverTheBill
<1> QED BY <1>1, SaveKeepsRounded, PTL DEF MoneySpec

-----------------------------------------------------------------------------
(***************************************************************************)
(* The gross solved from a net freight.                                     *)
(***************************************************************************)

\* Two roundings lose nothing: the gross rounded, then the commission rounded, leave the net.
LEMMA NetIsLeft ==
  ASSUME NEW net \in Nat, NEW p \in 0 .. Hundred, p # Hundred,
         NEW g \in Nearest(net * Hundred, Hundred - p), NEW c \in Share(g, p)
  PROVE  g - c = net
<1> DEFINE k == Hundred - p
           x == g - c - net
<1>1. Hundred \in Nat \ {0} /\ k \in Nat \ {0} /\ p \in Nat /\ Hundred = k + p
  BY PaiseAssumption
<1>2. net * Hundred \in Int
  BY <1>1
<1>3. /\ g \in Int
      /\ 2 * (net * Hundred - g * k) <= k
      /\ 2 * (g * k - net * Hundred) <= k
  BY <1>1, <1>2, NearestBounds
<1>4. g * p \in Int
  BY <1>1, <1>3
<1>5. /\ c \in Int
      /\ 2 * (g * p - c * Hundred) <= Hundred
      /\ 2 * (c * Hundred - g * p) <= Hundred
  BY <1>1, <1>4, NearestBounds DEF Share
<1>6. x \in Int
  BY <1>3, <1>5
<1>7. g * Hundred = g * k + g * p
  BY <1>1, <1>3
<1>8. x * Hundred = (g * k - net * Hundred) + (g * p - c * Hundred)
  <2>1. x * Hundred = g * Hundred - c * Hundred - net * Hundred
    BY <1>1, <1>3, <1>5
  <2> QED BY <2>1, <1>7, <1>1, <1>3, <1>5
<1>9. CASE p = 0
  <2>1. k = Hundred /\ g * p = 0
    BY <1>1, <1>3, <1>9
  <2>2. c = 0
    <3>1. c * Hundred < (0 + 1) * Hundred /\ (0 - c) * Hundred < (0 + 1) * Hundred
      <4>1. (0 - c) * Hundred = 0 - c * Hundred
        BY <1>1, <1>5
      <4> QED BY <1>1, <1>5, <2>1, <4>1
    <3>2. c <= 0 /\ 0 - c <= 0
      BY <1>1, <1>5, <3>1, Cancel
    <3> QED BY <1>5, <3>2
  <2>3. x * Hundred < (0 + 1) * Hundred /\ (0 - x) * Hundred < (0 + 1) * Hundred
    <3>1. (0 - x) * Hundred = 0 - x * Hundred
      BY <1>1, <1>6
    <3>2. c * Hundred = 0
      BY <2>2, <1>1
    <3>3. x * Hundred = g * k - net * Hundred
      BY <1>8, <2>1, <3>2, <1>1, <1>3
    <3> HIDE DEF x
    <3> QED BY <1>1, <1>2, <1>3, <1>6, <2>1, <3>1, <3>3
  <2> HIDE DEF x
  <2>4. x <= 0 /\ 0 - x <= 0
    BY <1>1, <1>6, <2>3, Cancel
  <2>5. x = 0
    BY <1>6, <2>4
  <2> QED BY <2>5, <1>3, <1>5 DEF x
<1>10. CASE p # 0
  <2>1. k < Hundred
    BY <1>1, <1>10
  <2>2. x * Hundred < (0 + 1) * Hundred /\ (0 - x) * Hundred < (0 + 1) * Hundred
    <3>1. (0 - x) * Hundred = 0 - x * Hundred
      BY <1>1, <1>6
    <3>2. g * k \in Int /\ c * Hundred \in Int
      BY <1>1, <1>3, <1>5
    <3> HIDE DEF x, k
    <3> QED BY <1>1, <1>2, <1>3, <1>4, <1>5, <1>6, <1>8, <2>1, <3>1, <3>2
  <2> HIDE DEF x
  <2>3. x <= 0 /\ 0 - x <= 0
    BY <1>1, <1>6, <2>2, Cancel
  <2>4. x = 0
    BY <1>6, <2>3
  <2> QED BY <2>4, <1>3, <1>5 DEF x
<1> QED BY <1>9, <1>10

\* Nothing per cent of an amount is nothing.
LEMMA ShareOfNothing ==
  ASSUME NEW amount \in Nat
  PROVE  Share(amount, 0) = {0}
<1>1. Hundred \in Nat \ {0}
  BY PaiseAssumption
<1>2. amount * 0 = 0
  OBVIOUS
<1>3. ASSUME NEW q \in Nearest(0, Hundred) PROVE q = 0
  <2>1. q \in Int /\ 2 * (0 - q * Hundred) <= Hundred /\ 2 * (q * Hundred - 0) <= Hundred
    BY <1>1, NearestBounds
  <2>2. q * Hundred < (0 + 1) * Hundred /\ (0 - q) * Hundred < (0 + 1) * Hundred
    <3>1. (0 - q) * Hundred = 0 - q * Hundred
      BY <1>1, <2>1
    <3> QED BY <1>1, <2>1, <3>1
  <2>3. q <= 0 /\ 0 - q <= 0
    BY <1>1, <2>1, <2>2, Cancel
  <2> QED BY <2>1, <2>3
<1>4. Nearest(0, Hundred) # {}
  BY <1>1, NearestExists
<1> QED BY <1>2, <1>3, <1>4 DEF Share

\* A rounded gross is not negative.
LEMMA NearestNat ==
  ASSUME NEW n \in Nat, NEW d \in Nat \ {0}, NEW q \in Nearest(n, d)
  PROVE  q \in Nat
<1>1. q \in Int /\ 2 * (n - q * d) <= d
  BY NearestBounds
<1>2. (0 - q) * d < (0 + 1) * d
  <2>1. (0 - q) * d = 0 - q * d
    BY <1>1
  <2> QED BY <1>1, <2>1
<1>3. 0 - q <= 0
  BY <1>1, <1>2, Cancel
<1> QED BY <1>1, <1>3

\* What NetFreightIsPayable asks of the terms, and what it says of their outcomes.
Solvable(t) ==
  /\ t.mode = "NET"
  /\ ~(t.type = "PERCENTAGE" /\ t.commission = Hundred)
  /\ t.commission # IF t.type = "NO_COMMISSION" THEN NoRate ELSE BlankRate

Paid(t) == Hires(t) # {} /\ \A money \in Hires(t) : money.net_vendor_payable = t.rate

\* The outcomes are those of a gross and a commission on it.
LEMMA OutcomesOf ==
  ASSUME NEW t, NEW money \in Hires(t)
  PROVE  \E g \in GrossHire(t) : \E c \in Commission(t, g) : money.net_vendor_payable = g - c
BY DEF Hires

\* A gross with a commission on it is an outcome.
LEMMA OutcomeExists ==
  ASSUME NEW t, NEW g \in GrossHire(t), NEW c \in Commission(t, g)
  PROVE  Hires(t) # {}
<1> DEFINE Row(x, y) == [gross_hire |-> x, commission_amount |-> y, net_vendor_payable |-> x - y]
           Rows(x) == {Row(x, y) : y \in Commission(t, x)}
<1>1. Row(g, c) \in Rows(g)
  OBVIOUS
<1>2. Rows(g) \in {Rows(x) : x \in GrossHire(t)}
  OBVIOUS
<1>3. Row(g, c) \in UNION {Rows(x) : x \in GrossHire(t)}
  BY <1>1, <1>2
<1>4. Hires(t) = UNION {Rows(x) : x \in GrossHire(t)}
  BY DEF Hires
<1> QED BY <1>3, <1>4

\* By each type of commission, the vendor gets what was typed.
LEMMA SolvedIsPaid ==
  ASSUME NEW t \in Terms, Solvable(t)
  PROVE  Paid(t)
<1>1. Hundred \in Nat \ {0} /\ Sums \subseteq Nat /\ Percents \subseteq 1 .. Hundred
  BY PaiseAssumption
<1>2. t.mode = "NET" /\ t.rate \in Nat
  <2>1. t.rate \in Sums
    BY DEF Terms
  <2> QED BY <1>1, <2>1 DEF Solvable
<1>3. CASE t.type = "PERCENTAGE"
  <2> DEFINE p == GrossRate(t)
  <2>1. p \in 0 .. Hundred /\ MoneyRate(t) = p /\ p # Hundred
    <3>1. t.commission \in {0, NoRate} \cup Percents
      BY <1>3 DEF Terms, Solvable
    <3>2. t.commission # Hundred /\ t.commission # BlankRate
      BY <1>3 DEF Solvable
    <3>3. MoneyRate(t) = p
      BY <1>3, <3>2 DEF MoneyRate, GrossRate
    <3>4. CASE t.commission = NoRate
      <4>1. p = DefaultPercent
        BY <1>3, <3>4, HireAssumption DEF GrossRate, DefaultRate
      <4> QED BY <1>1, <3>3, <4>1, HireAssumption
    <3>5. CASE t.commission # NoRate
      <4>1. p = t.commission
        BY <3>2, <3>5 DEF GrossRate
      <4>2. t.commission \in {0} \cup Percents
        BY <3>1, <3>5
      <4>3. t.commission \in 0 .. Hundred
        <5>1. t.commission = 0 \/ t.commission \in 1 .. Hundred
          BY <1>1, <4>2
        <5>2. 0 \in 0 .. Hundred
          BY <1>1
        <5>3. \A n \in 1 .. Hundred : n \in 0 .. Hundred
          BY <1>1
        <5> QED BY <5>1, <5>2, <5>3
      <4>4. p \in 0 .. Hundred /\ p # Hundred
        BY <3>2, <4>1, <4>3
      <4> QED BY <3>3, <4>4
    <3> QED BY <3>4, <3>5
  <2> HIDE DEF p
  <2>3. GrossHire(t) = Nearest(t.rate * Hundred, Hundred - p)
    BY <1>2, <1>3, <2>1 DEF GrossHire, GrossOfNet, p
  <2>4. Hundred - p \in Nat \ {0} /\ t.rate * Hundred \in Nat
    BY <1>1, <1>2, <2>1
  <2>5. \A g \in GrossHire(t) : g \in Nat /\ Commission(t, g) = Share(g, p)
    <3> SUFFICES ASSUME NEW g \in GrossHire(t) PROVE g \in Nat /\ Commission(t, g) = Share(g, p)
      OBVIOUS
    <3>1. g \in Nat
      BY <2>3, <2>4, NearestNat
    <3>2. \A c \in Share(g, p) : c <= g
      BY <3>1, <2>1, ShareWithin
    <3>3. Commission(t, g) = {c \in Share(g, p) : c <= g}
      BY <1>3, <2>1 DEF Commission
    <3>4. {c \in Share(g, p) : c <= g} = Share(g, p)
      BY <3>2
    <3> QED BY <3>1, <3>3, <3>4
  <2>6. PICK g \in GrossHire(t) : TRUE
    BY <2>3, <2>4, NearestExists
  <2>7. Share(g, p) # {}
    <3>1. g * p \in Nat
      BY <2>1, <2>5, <1>1
    <3> QED BY <1>1, <3>1, NearestExists DEF Share
  <2>8. Hires(t) # {}
    BY <2>5, <2>7, OutcomeExists
  <2>9. ASSUME NEW money \in Hires(t) PROVE money.net_vendor_payable = t.rate
    BY <1>2, <2>1, <2>3, <2>5, OutcomesOf, NetIsLeft
  <2> QED BY <2>8, <2>9 DEF Paid
<1>4. CASE t.type # "PERCENTAGE"
  <2> DEFINE a == GrossRate(t)
  <2>1. a \in Nat /\ (t.type = "NO_COMMISSION" => a = 0)
    <3>1. \/ t.type = "FIXED" /\ t.commission \in {NoRate} \cup Sums
          \/ t.type = "NO_COMMISSION" /\ t.commission \in {0, BlankRate}
      BY <1>4 DEF Terms, Solvable
    <3>2. CASE t.type = "FIXED"
      <4>1. t.commission = NoRate => a = DefaultAmount
        BY <3>2, HireAssumption DEF GrossRate, DefaultRate
      <4>2. t.commission # NoRate => a = t.commission
        BY <3>2 DEF GrossRate, Solvable
      <4>3. t.commission \in {NoRate} \cup Sums
        BY <3>1, <3>2
      <4>4. a \in Nat
        BY <1>1, <4>1, <4>2, <4>3, HireAssumption
      <4> QED BY <3>2, <4>4
    <3>3. CASE t.type = "NO_COMMISSION"
      <4>1. t.commission \in {0, BlankRate}
        BY <3>1, <3>3
      <4>2. 0 # NoRate /\ 0 # BlankRate /\ BlankRate # NoRate
        BY HireAssumption
      <4>3. a = 0
        BY <4>1, <4>2 DEF GrossRate
      <4> QED BY <4>3
    <3> QED BY <3>1, <3>2, <3>3
  <2>2. GrossHire(t) = {t.rate + a}
    BY <1>2, <1>4 DEF GrossHire
  <2>3. Commission(t, t.rate + a) = {a}
    <3>1. CASE t.type = "FIXED"
      <4>1. MoneyRate(t) = a
        BY <3>1 DEF MoneyRate, GrossRate, Solvable
      <4> HIDE DEF a
      <4> QED BY <1>2, <2>1, <3>1, <4>1 DEF Commission
    <3>2. CASE t.type = "NO_COMMISSION"
      <4>1. t.rate + a \in Nat
        BY <1>2, <2>1
      <4>2. Share(t.rate + a, 0) = {0}
        BY <1>1, <4>1, ShareOfNothing
      <4> HIDE DEF a
      <4> QED BY <1>2, <2>1, <3>2, <4>2 DEF Commission, MoneyRate
    <3> QED BY <1>4, <3>1, <3>2 DEF Terms
  <2> HIDE DEF a
  <2>4. Hires(t) # {}
    BY <2>2, <2>3, OutcomeExists
  <2>5. ASSUME NEW money \in Hires(t) PROVE money.net_vendor_payable = t.rate
    <3>1. money.net_vendor_payable = (t.rate + a) - a
      BY <2>2, <2>3, OutcomesOf
    <3> QED BY <3>1, <1>2, <2>1
  <2> QED BY <2>4, <2>5 DEF Paid
<1> QED BY <1>3, <1>4

\* For every net freight and commission, the net payable is the net typed (computeGrossHire).
THEOREM NetFreightAlwaysPayable == HireMoneySpec => []NetFreightIsPayable
<1> DEFINE HInv == \A h \in hires : h.terms \in Terms /\ h.outcomes = Hires(h.terms)
<1>1. HireInit => HInv
  BY DEF HireInit
<1>2. HInv /\ [ComputeHire]_hires => HInv'
  <2> SUFFICES ASSUME HInv, [ComputeHire]_hires PROVE HInv'
    OBVIOUS
  <2>1. CASE ComputeHire
    BY <2>1 DEF ComputeHire
  <2>2. CASE UNCHANGED hires
    BY <2>2
  <2> QED BY <2>1, <2>2
<1>3. HInv => NetFreightIsPayable
  BY SolvedIsPaid DEF NetFreightIsPayable, Solvable, Paid
<1> HIDE DEF HInv
<1> QED BY <1>1, <1>2, <1>3, PTL DEF HireMoneySpec
=============================================================================
