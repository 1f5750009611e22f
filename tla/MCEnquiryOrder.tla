--------------------------- MODULE MCEnquiryOrder ---------------------------
(***************************************************************************)
(* Instances of EnquiryOrder for TLC.                                       *)
(***************************************************************************)
EXTENDS EnquiryOrder, Naturals, TLC

\* The statuses from which the whole table leads to `to` in at most n hops.
LeadsTo(to) ==
  LET within[n \in 0..Cardinality(Statuses)] ==
        IF n = 0 THEN {to}
        ELSE LET nearer == within[n - 1]
             IN  nearer \cup {s \in Statuses : \E t \in nearer : CanTransition(s, t)}
  IN  within[Cardinality(Statuses)]

\* The two hops of HasPath agree with the breadth-first search of shortestPath
\* for the status the code asks for.
ASSUME HasPathIsReachability ==
  {s \in Statuses : HasPath(s, "AWAITING_CUSTOMER_ACCEPTANCE")}
    = LeadsTo("AWAITING_CUSTOMER_ACCEPTANCE")

Interchangeable == Permutations(Requests) \cup Permutations(BookingIds)
=============================================================================
