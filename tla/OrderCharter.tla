---------------------------- MODULE OrderCharter ----------------------------
(***************************************************************************)
(* What an enquiry promises the customer and the back office, without       *)
(* statements, prices or trucks: where it stands, who is turning it into an *)
(* order, and which order it became.  An order comes only out of an offer   *)
(* that one request has taken, there is one, and an enquiry that has been   *)
(* decided is offered again only by the request that took it.  A write that *)
(* takes it back otherwise ends the promise: `reopened` is for good.        *)
(***************************************************************************)
CONSTANTS Requests, BookingIds, NoBooking

VARIABLES
  phase,
  takers,   \* the requests that have taken the offer and not finished
  order     \* the booking the enquiry is linked to

charter == <<phase, takers, order>>

Undecided == {"open", "offered"}

Init == phase = "open" /\ takers = {} /\ order = NoBooking

\* Review, assignment, price, offer, and back.
Negotiate == {phase, phase'} \subseteq Undecided /\ UNCHANGED <<takers, order>>

Take ==
  /\ phase = "offered" /\ phase' = "accepted"
  /\ takers = {} /\ \E r \in Requests : takers' = {r}
  /\ order = NoBooking /\ UNCHANGED order

\* The taker gives the offer back, unless the enquiry was closed meanwhile, or is lost.
GiveUp ==
  /\ takers # {} /\ takers' = {}
  /\ phase' = phase \/ (phase = "accepted" /\ phase' = "offered")
  /\ UNCHANGED order

\* The one way to an order, also when the enquiry was closed after it was taken.
Place ==
  /\ takers # {} /\ takers' = {}
  /\ phase \in {"accepted", "closed"} /\ phase' = "ordered"
  /\ order = NoBooking /\ order' \in BookingIds

\* A rejection or a cancellation closes an enquiry, also one that is an order.
CloseEnquiry == phase # "reopened" /\ phase' = "closed" /\ UNCHANGED <<takers, order>>

Reopen ==
  \/ phase \notin Undecided /\ phase' = "reopened" /\ UNCHANGED <<takers, order>>
  \/ phase = "reopened" /\ phase' = "reopened"

Next == Negotiate \/ Take \/ GiveUp \/ Place \/ CloseEnquiry \/ Reopen

Spec == Init /\ [][Next]_charter
=============================================================================
