--------------------------- MODULE MCQuotationDesk ---------------------------
(***************************************************************************)
(* Instances of QuotationDesk for TLC.                                      *)
(***************************************************************************)
EXTENDS QuotationDesk, TLC

Interchangeable == Permutations(Requests) \cup Permutations(BookingIds)
=============================================================================
