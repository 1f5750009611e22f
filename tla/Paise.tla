------------------------------- MODULE Paise -------------------------------
(***************************************************************************)
(* Money as the services compute it: a whole number of paise, rounded to the *)
(* nearest at every step by round2, roundMoney or the commission calculator. *)
(***************************************************************************)
EXTENDS Integers

CONSTANTS
  Sums,      \* amounts that are typed in, in paise
  Hundred,   \* 100 per cent, in the unit percentages are typed in
  Percents   \* percentages that are typed in

ASSUME PaiseAssumption ==
  /\ Sums \subseteq Nat
  /\ Hundred \in Nat \ {0}
  /\ Percents \subseteq 1 .. Hundred

\* Mutant: the fraction is dropped.
RoundedDown(n, d) == {n \div d}
\* n / d rounded to a whole number.  n / d is a double, so a half may go either way.
Nearest(n, d) == {q \in {n \div d, n \div d + 1} : 2 * (n - q * d) <= d /\ 2 * (q * d - n) <= d}

\* round2(amount * percentage / 100)
Share(amount, p) == Nearest(amount * p, Hundred)
=============================================================================
