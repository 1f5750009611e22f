----------------------------- MODULE HireMoney -----------------------------
(***************************************************************************)
(* The money of a vehicle hire: VehicleHireWorkflowService.computeGrossHire   *)
(* and computeMoney, which calls computeCommissionAmount and the calculator,  *)
(* for the terms a hire or its edit is entered with.                         *)
(***************************************************************************)
EXTENDS Paise

CONSTANTS
  NoRate,         \* the terms carry no commission rate
  BlankRate,      \* they carry an empty one
  DefaultPercent, \* what stands for it where a percentage is wanted ...
  DefaultAmount,  \* ... and where an amount is: the same figure, 5
  Quantities      \* tons, days or months

ASSUME HireAssumption ==
  /\ NoRate \notin Nat /\ BlankRate \notin Nat \cup {NoRate}
  /\ DefaultPercent \in Percents \ {Hundred} /\ DefaultAmount \in Nat
  /\ Quantities \subseteq Nat \ {0}

VARIABLE hires  \* the terms that were typed in, and what the vendor is owed by them

Modes == {"RATE", "RATE_QUANTITY", "NET"}
CommissionTypes == {"PERCENTAGE", "FIXED", "NO_COMMISSION"}

HireInit == hires = {}

DefaultRate(t) == IF t.type = "PERCENTAGE" THEN DefaultPercent ELSE DefaultAmount

\* The rate each of the two computations takes from the terms: an empty one is 0 for the first and
\* a missing one for the second, and only the second knows that NO_COMMISSION carries none.
GrossRate(t) ==
  CASE t.commission = NoRate -> DefaultRate(t) [] t.commission = BlankRate -> 0 [] OTHER -> t.commission

MoneyRate(t) ==
  IF t.type = "NO_COMMISSION" THEN 0
  ELSE IF t.commission \in {NoRate, BlankRate} THEN DefaultRate(t) ELSE t.commission

\* Mutant: the commission is a share of the net.
GrossOnNet(net, p) == {net + c : c \in Share(net, p)}
\* NET with a percentage: the gross of which the net is what the percentage leaves; 100 is refused.
GrossOfNet(net, p) == IF p = Hundred THEN {} ELSE Nearest(net * Hundred, Hundred - p)

\* computeGrossHire
GrossHire(t) ==
  CASE t.mode = "RATE" -> {t.rate}
    [] t.mode = "RATE_QUANTITY" -> {t.rate * t.quantity}
    [] t.mode = "NET" ->
         IF t.type = "PERCENTAGE" THEN GrossOfNet(t.rate, GrossRate(t))
         ELSE {t.rate + GrossRate(t)}

\* computeCommission; computeCommissionAmount refuses more than the gross.
Commission(t, gross) ==
  {c \in IF t.type = "FIXED" THEN {MoneyRate(t)} ELSE Share(gross, MoneyRate(t)) : c <= gross}

\* What the computation may come to, by the way each half is rounded.
Hires(t) ==
  UNION {{[gross_hire |-> g, commission_amount |-> c, net_vendor_payable |-> g - c] :
            c \in Commission(t, g)} : g \in GrossHire(t)}

\* A rate may be missing or empty; a percentage may be 0, and NO_COMMISSION is sent with 0.
Terms ==
  LET Typed(type, rates) == [mode : Modes, type : {type}, commission : {NoRate, BlankRate} \cup rates,
                             rate : Sums, quantity : Quantities]
  IN  Typed("PERCENTAGE", {0} \cup Percents) \cup Typed("FIXED", Sums) \cup Typed("NO_COMMISSION", {0})

\* Terms that are refused leave no outcome.
ComputeHire ==
  \E t \in Terms : hires' = hires \cup {[terms |-> t, outcomes |-> Hires(t)]}

HireMoneySpec == HireInit /\ [][ComputeHire]_hires

-----------------------------------------------------------------------------

\* Net freight: unless all of it is commission, the terms are accepted, and although gross and
\* commission are rounded one after the other, what is left for the vendor is to the paisa what
\* the operator typed.  A rate has to be a number where there is a commission, and NO_COMMISSION has
\* to come with one; the page sends a number always.
NetFreightIsPayable ==
  \A h \in hires :
    LET t == h.terms
    IN  /\ t.mode = "NET"
        /\ ~(t.type = "PERCENTAGE" /\ t.commission = Hundred)
        /\ t.commission # IF t.type = "NO_COMMISSION" THEN NoRate ELSE BlankRate
        => h.outcomes # {} /\ \A money \in h.outcomes : money.net_vendor_payable = t.rate
=============================================================================
