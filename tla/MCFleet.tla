------------------------------- MODULE MCFleet -------------------------------
(***************************************************************************)
(* Two trips of one pickup day and the one truck they compete for; the      *)
(* second has its window stored, and its booking carries the truck.         *)
(***************************************************************************)
EXTENDS Fleet, TLC

DayOf    == [t \in Trips |-> 1]
UntilOf  == [t \in Trips |-> IF t = "t1" THEN 2 ELSE 3]
BookedOf == [t \in Trips |-> IF t = "t2" THEN "v1" ELSE None]

Interchangeable == Permutations(Requests)
=============================================================================
