----------------------------- MODULE TripCharter -----------------------------
(***************************************************************************)
(* What a trip promises whoever waits for the goods, without requests,      *)
(* documents or vehicles: its status, and the facts of its journey.  A fact  *)
(* once established stands; each is established on the facts it rests on;   *)
(* and the status never says more than the facts do.                        *)
(***************************************************************************)
EXTENDS TripStates

VARIABLES
  status,
  facts     \* what is established of the journey

charter == <<status, facts>>

Facts == {"loaded", "departed", "podSettled", "arrived", "delivered"}

\* What a fact rests on.
Grounds(f) ==
  CASE f = "departed"  -> {"loaded"}
    [] f = "arrived"   -> {"loaded", "departed"}
    [] f = "delivered" -> {"loaded", "departed", "podSettled", "arrived"}
    [] OTHER           -> {}

\* What a status says.
Says(s) ==
  CASE s = "LOADED"                       -> {"loaded"}
    [] s \in {"DISPATCHED", "IN_TRANSIT"} -> {"loaded", "departed"}
    [] s \in {"DELIVERED", "COMPLETED"}   -> Facts
    [] OTHER                              -> {}

Init ==
  /\ status \in {"PENDING", "ASSIGNED"}
  /\ facts \in {{}, {"podSettled"}}

\* Facts become known, the status is written, or both at once.
Next ==
  /\ facts \subseteq facts' /\ facts' \subseteq Facts
  /\ \A f \in facts' \ facts : Grounds(f) \subseteq facts'
  /\ status' \in TripStatuses /\ Says(status') \subseteq facts'

Spec == Init /\ [][Next]_charter
=============================================================================
