---------------------------- MODULE MCBookingLife ----------------------------
EXTENDS BookingLife, TLC

CONSTANTS r1, r2, d1, d2, p1, p2

\* No action chooses a request, a driver or a price by name.
Interchangeable == Permutations({r1, r2}) \cup Permutations({d1, d2}) \cup Permutations({p1, p2})

\* Bound: a behaviour is followed through changes by hand or past a write on a replaced quote,
\* not through both.  No property but the two counts says anything where both have happened.
OneTrouble == ~(outdated /\ (reassigned \/ repriced))

==============================================================================
