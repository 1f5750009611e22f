------------------------ MODULE EnquiryOrder_proofs ------------------------
(***************************************************************************)
(* Theorems about EnquiryOrder, for every set of requests, bookings and     *)
(* prices and for every set of endpoints in use.                            *)
(***************************************************************************)
EXTENDS EnquiryOrder, TLAPS

\* The status a request has picked or read before it writes is neither a decided
\* one nor the offer itself, and the one an operator picked for a review exists.
PendingStatus(x) ==
  /\ x.at \in {"review", "quote", "send", "mirror"} =>
       x.st \notin Decided /\ x.st # "AWAITING_CUSTOMER_ACCEPTANCE"
  /\ x.at = "review" => x.st \in Statuses

RequestOK == {x \in RequestState : PendingStatus(x)}

\* TypeOK is not inductive alone: WriteReviewStatus writes what was picked earlier.
TypeInv == RowsOK /\ req \in [Requests -> RequestOK]

-----------------------------------------------------------------------------

\* The named statuses the handlers write, and those of them that are decided.
LEMMA StatusFacts ==
  /\ {"ENQUIRY_SUBMITTED", "ADMIN_REVIEW", "ASSIGNMENT_PENDING", "VEHICLE_ASSIGNED",
      "DRIVER_ASSIGNED", "QUOTE_READY", "AWAITING_CUSTOMER_ACCEPTANCE", "CUSTOMER_ACCEPTED",
      "CUSTOMER_REJECTED", "CONFIRMED", "CANCELLED"} \subseteq Statuses
  /\ {"CUSTOMER_ACCEPTED", "CUSTOMER_REJECTED", "CONFIRMED", "CANCELLED"} \subseteq Decided
  /\ {"ADMIN_REVIEW", "ASSIGNMENT_PENDING", "VEHICLE_ASSIGNED", "DRIVER_ASSIGNED",
      "QUOTE_READY", "AWAITING_CUSTOMER_ACCEPTANCE", NoStatus} \cap Decided = {}
  /\ {"CUSTOMER_ACCEPTED", "CUSTOMER_REJECTED", "CANCELLED"} \subseteq Claimed
  /\ Claimed \subseteq Decided
  BY DEF Statuses, Decided, CommittedStatuses, TerminalStatuses, NoStatus, Claimed

\* What an assignment makes of the status is one of three statuses, or nothing.
LEMMA NextStatusRange ==
  ASSUME NEW current, NEW resources
  PROVE  NextStatusAfterAssignment(current, resources)
           \in {NoStatus, "ASSIGNMENT_PENDING", "DRIVER_ASSIGNED", "VEHICLE_ASSIGNED"}
  BY DEF NextStatusAfterAssignment

\* A request at rest is well formed.
LEMMA IdleOK == Idle \in RequestOK
  BY DEF Idle, RequestOK, RequestState, PendingStatus, Labels

\* The four ways a request moves on keep all requests well formed.
LEMMA BeginOK ==
  ASSUME req \in [Requests -> RequestOK], NEW r \in Requests, NEW seen \in RequestOK,
         Begin(r, seen)
  PROVE  req' \in [Requests -> RequestOK]
  BY DEF Begin

\* The same, for a request that only changes its place.
LEMMA GotoOK ==
  ASSUME req \in [Requests -> RequestOK], NEW r \in Requests,
         NEW l \in Labels \ {"review", "quote", "send", "mirror"}, Goto(r, l)
  PROVE  req' \in [Requests -> RequestOK]
  BY DEF Goto, RequestOK, RequestState, PendingStatus

\* The same, for a request that also drops what it has read.
LEMMA GoOnOK ==
  ASSUME req \in [Requests -> RequestOK], NEW r \in Requests,
         NEW l \in Labels \ {"review", "quote", "send", "mirror"}, GoOn(r, l)
  PROVE  req' \in [Requests -> RequestOK]
  <1>1. req[r] \in RequestState
    BY DEF RequestOK
  <1>2. [req[r] EXCEPT !.at = l, !.st = NoStatus, !.bk = NoBooking] \in RequestOK
    BY <1>1 DEF RequestOK, RequestState, PendingStatus
  <1>3. req' = [req EXCEPT ![r] = [req[r] EXCEPT !.at = l, !.st = NoStatus, !.bk = NoBooking]]
    BY DEF GoOn
  <1> QED
    BY <1>2, <1>3

\* The same, for a request that ends.
LEMMA FinishOK ==
  ASSUME req \in [Requests -> RequestOK], NEW r \in Requests, Finish(r)
  PROVE  req' \in [Requests -> RequestOK]
  BY IdleOK DEF Finish

\* The rows and the requests are well typed at the start.
LEMMA TypeInit == Init => TypeInv
  <1> SUFFICES ASSUME Init PROVE TypeInv
    OBVIOUS
  <1>1. req \in [Requests -> RequestOK]
    BY IdleOK DEF Init
  <1>2. RowsOK
    BY StatusFacts DEF Init, RowsOK, PriceStatuses, NoTrip, Resources
  <1> QED
    BY <1>1, <1>2 DEF TypeInv

\* A handler that has arrived has read the row and written nothing.
LEMMA TypeArrive ==
  ASSUME TypeInv, NEW r \in Requests, Arrive(r)
  PROVE  TypeInv'
  <1>1. RowsOK'
    BY DEF TypeInv, RowsOK, enquiryVars, Arrive, CustomerAccept, AdminConfirmOrder, Convert,
           CustomerReject, CustomerCancel, AdminCancel, AdminSetReviewStatus, AdminSetQuote,
           AdminSendQuote, AdminAssign
  <1>2. ASSUME NEW seen \in RequestOK, Begin(r, seen) PROVE req' \in [Requests -> RequestOK]
    BY <1>2, BeginOK DEF TypeInv
  <1>3. CASE CustomerAccept(r) \/ AdminConfirmOrder(r)
    <2>1. ASSUME NEW op \in {"customerAccept", "adminConfirmOrder"}
          PROVE  [Idle EXCEPT !.at = "claim", !.op = op, !.pr = price, !.asg = assigned] \in RequestOK
      BY DEF TypeInv, RowsOK, Idle, RequestOK, RequestState, PendingStatus, Labels
    <2> QED
      BY <1>1, <1>2, <1>3, <2>1 DEF TypeInv, CustomerAccept, AdminConfirmOrder, Convert
  <1>4. CASE CustomerReject(r) \/ CustomerCancel(r) \/ AdminCancel(r)
    <2>1. ASSUME NEW l \in {"reject", "cancel"} PROVE [Idle EXCEPT !.at = l] \in RequestOK
      BY DEF Idle, RequestOK, RequestState, PendingStatus, Labels
    <2> QED
      BY <1>1, <1>2, <1>4, <2>1 DEF TypeInv, CustomerReject, CustomerCancel, AdminCancel
  <1>5. CASE AdminSetReviewStatus(r)
    <2>1. ASSUME NEW s \in {"ADMIN_REVIEW", "ASSIGNMENT_PENDING"}
          PROVE  [Idle EXCEPT !.at = "review", !.st = s] \in RequestOK
      BY StatusFacts DEF Idle, RequestOK, RequestState, PendingStatus, Labels
    <2> QED
      BY <1>1, <1>2, <1>5, <2>1 DEF TypeInv, AdminSetReviewStatus
  <1>6. CASE AdminSetQuote(r)
    <2>1. ASSUME NEW p \in Prices, NEW s \in {"QUOTE_READY", NoStatus}
          PROVE  [Idle EXCEPT !.at = "quote", !.pr = p, !.st = s] \in RequestOK
      BY StatusFacts DEF NoStatus, Idle, RequestOK, RequestState, PendingStatus, Labels
    <2>2. PICK p \in Prices, s \in {"QUOTE_READY", NoStatus} :
            Begin(r, [Idle EXCEPT !.at = "quote", !.pr = p, !.st = s])
      BY <1>6, Zenon DEF AdminSetQuote
    <2>3. \E seen \in RequestOK : Begin(r, seen)
      BY <2>1, <2>2, Zenon
    <2> QED
      BY <1>1, <1>2, <2>3 DEF TypeInv
  <1>7. CASE AdminSendQuote(r)
    <2>1. status \notin Decided /\ status # "AWAITING_CUSTOMER_ACCEPTANCE" =>
            [Idle EXCEPT !.at = "send", !.st = status] \in RequestOK
      BY DEF TypeInv, RowsOK, Idle, RequestOK, RequestState, PendingStatus, Labels
    <2> QED
      BY <1>1, <1>2, <1>7, <2>1 DEF TypeInv, AdminSendQuote
  <1>8. CASE AdminAssign(r)
    <2>1. ASSUME NEW input \in SUBSET Resources
          PROVE  [Idle EXCEPT !.at = "reread", !.asg = assigned \cup input] \in RequestOK
      BY DEF TypeInv, RowsOK, Idle, RequestOK, RequestState, PendingStatus, Labels
    <2> QED
      BY <1>1, <1>2, <1>8, <2>1 DEF TypeInv, AdminAssign
  <1> QED
    BY <1>3, <1>4, <1>5, <1>6, <1>7, <1>8 DEF Arrive

\* The statements of a conversion.
LEMMA TypeConversion ==
  ASSUME TypeInv, NEW r \in Requests, ConversionStep(r)
  PROVE  TypeInv'
  <1> USE DEF TypeInv
  <1>1. ASSUME NEW l \in Labels \ {"review", "quote", "send", "mirror"}, Goto(r, l) \/ Finish(r)
        PROVE  req' \in [Requests -> RequestOK]
    BY <1>1, GotoOK, FinishOK
  <1>2. {"create", "release", "converted"} \subseteq Labels \ {"review", "quote", "send", "mirror"}
    BY DEF Labels
  <1>3. CASE Claim(r)
    BY <1>1, <1>2, <1>3, StatusFacts DEF Claim, RowsOK, PriceStatuses
  <1>4. CASE ClaimLost(r) \/ CreateFails(r) \/ ConfirmRefused(r)
    <2>1. req' \in [Requests -> RequestOK]
      BY <1>1, <1>2, <1>4 DEF ClaimLost, CreateFails, ConfirmRefused
    <2>2. RowsOK'
      BY <1>4 DEF ClaimLost, CreateFails, ConfirmRefused, RowsOK, enquiryVars
    <2> QED
      BY <2>1, <2>2
  <1>5. CASE CreateBooking(r)
    <2>1. PICK b \in BookingIds :
            /\ bookings' = [bookings EXCEPT ![b] = req[r].pr]
            /\ req' = [req EXCEPT ![r].at = "confirm", ![r].bk = b]
      BY <1>5 DEF CreateBooking
    <2>2. req[r] \in RequestOK /\ req[r].pr \in Prices \cup {NoPrice}
      BY DEF RequestOK, RequestState
    <2>3. [req[r] EXCEPT !.at = "confirm", !.bk = b] \in RequestOK
      BY <2>2 DEF RequestOK, RequestState, PendingStatus, Labels
    <2>4. req' \in [Requests -> RequestOK]
      BY <2>1, <2>3
    <2>5. RowsOK'
      BY <1>5, <2>1, <2>2 DEF CreateBooking, RowsOK, enquiryVars
    <2> QED
      BY <2>4, <2>5
  <1>6. CASE CreateFailsLate(r)
    <2>1. req[r].pr \in Prices \cup {NoPrice}
      BY DEF RequestOK, RequestState
    <2> QED
      BY <1>1, <1>2, <1>6, <2>1 DEF CreateFailsLate, RowsOK, enquiryVars
  <1>7. CASE ReleaseClaim(r)
    BY <1>1, <1>2, <1>7, StatusFacts DEF ReleaseClaim, RowsOK, PriceStatuses
  <1>8. CASE ConfirmOrder(r)
    <2>1. req' \in [Requests -> RequestOK]
      BY <1>1, <1>2, <1>8 DEF ConfirmOrder
    <2>2. req[r].bk \in BookingIds \cup {NoBooking}
      BY DEF RequestOK, RequestState
    <2>3. RowsOK'
      BY <1>8, <2>2, StatusFacts DEF ConfirmOrder, WriteStatus, RowsOK
    <2> QED
      BY <2>1, <2>3
  <1> QED
    BY <1>3, <1>4, <1>5, <1>6, <1>7, <1>8 DEF ConversionStep

\* The statements that close an enquiry, and those of the admin's desk.
LEMMA TypeClosingDesk ==
  ASSUME TypeInv, NEW r \in Requests, ClosingStep(r) \/ DeskStep(r)
  PROVE  TypeInv'
  <1> USE DEF TypeInv
  <1>1. ASSUME NEW l \in {"findHeld", "unhold", "publish"}, Goto(r, l) \/ GoOn(r, l) \/ Finish(r)
        PROVE  req' \in [Requests -> RequestOK]
    BY <1>1, GotoOK, GoOnOK, FinishOK DEF Labels
  <1>2. req[r] \in RequestState /\ PendingStatus(req[r])
    BY DEF RequestOK
  <1>3. CASE WriteRejected(r) \/ WriteCancelled(r)
    BY <1>1, <1>3, StatusFacts DEF WriteRejected, WriteCancelled, WriteStatus, RowsOK, PriceStatuses
  <1>4. CASE FindHeldTrip(r) \/ SendLost(r)
    BY <1>1, <1>4 DEF FindHeldTrip, SendLost, RowsOK, enquiryVars
  <1>5. CASE ReleaseReservation(r)
    BY <1>1, <1>5 DEF ReleaseReservation, RowsOK
  <1>6. CASE WriteReviewStatus(r)
    BY <1>1, <1>2, <1>6 DEF WriteReviewStatus, WriteStatus, RowsOK, PendingStatus
  <1>7. CASE WriteQuote(r)
    BY <1>1, <1>2, <1>7 DEF WriteQuote, MayWriteStatus, WriteStatus, RowsOK, RequestState, PriceStatuses
  <1>8. CASE ClaimSend(r) \/ PublishQuote(r)
    BY <1>1, <1>8, StatusFacts DEF ClaimSend, PublishQuote, WriteStatus, RowsOK, PriceStatuses
  <1> QED
    BY <1>3, <1>4, <1>5, <1>6, <1>7, <1>8 DEF ClosingStep, DeskStep

\* The statements of adminAssign, on the enquiry and on its trip.
LEMMA TypeAssign ==
  ASSUME TypeInv, NEW r \in Requests, AssignStep(r)
  PROVE  TypeInv'
  <1> USE DEF TypeInv
  <1>1. ASSUME NEW l \in {"link", "make", "resolve", "promote"},
               Goto(r, l) \/ GoOn(r, l) \/ Finish(r)
        PROVE  req' \in [Requests -> RequestOK]
    BY <1>1, GotoOK, GoOnOK, FinishOK DEF Labels
  <1>2. req[r] \in RequestState /\ req[r] \in RequestOK
    BY DEF RequestOK
  <1>3. ASSUME NEW x \in RequestOK, req' = [req EXCEPT ![r] = x]
        PROVE  req' \in [Requests -> RequestOK]
    BY <1>3
  <1>4. CASE RereadForAssign(r)
    <2>1. ASSUME NEW s \in {NoStatus, "ASSIGNMENT_PENDING", "DRIVER_ASSIGNED", "VEHICLE_ASSIGNED"}
          PROVE  [req[r] EXCEPT !.at = "mirror", !.st = s] \in RequestOK
      BY <1>2, StatusFacts, ZenonT(40) DEF RequestOK, RequestState, PendingStatus, Labels, NoStatus
    <2>2. [req[r] EXCEPT !.at = "mirror", !.st = NextStatusAfterAssignment(status, req[r].asg)]
            \in RequestOK
      BY <2>1, NextStatusRange, Zenon
    <2>3. req' = [req EXCEPT ![r] = [req[r] EXCEPT !.at = "mirror",
                               !.st = NextStatusAfterAssignment(status, req[r].asg)]]
      BY <1>4 DEF RereadForAssign
    <2>4. RowsOK'
      BY <1>4 DEF RereadForAssign, RowsOK, enquiryVars
    <2> QED
      BY <1>3, <2>2, <2>3, <2>4
  <1>5. CASE WriteMirror(r)
    <2>1. assigned' \in SUBSET Resources
      BY <1>2, <1>5 DEF WriteMirror, RowsOK, RequestState
    <2>2. [req[r] EXCEPT !.at = "ensure", !.asg = assigned', !.st = NoStatus] \in RequestOK
      BY <1>2, <2>1 DEF NoStatus, RequestOK, RequestState, PendingStatus, Labels
    <2>3. RowsOK'
      BY <1>2, <1>5, <2>1 DEF WriteMirror, MayWriteStatus, WriteStatus, RowsOK, RequestState
    <2> QED
      BY <1>3, <1>5, <2>2, <2>3 DEF WriteMirror
  <1>6. CASE AssignRefused(r) \/ LookupTrip(r) \/ MakeTripLost(r)
    BY <1>1, <1>6 DEF AssignRefused, LookupTrip, MakeTripLost, RowsOK, enquiryVars
  <1>7. CASE ReadOrderOfEnquiry(r)
    <2>1. [req[r] EXCEPT !.at = "lookup", !.bk = bookingId] \in RequestOK
      BY <1>2 DEF RowsOK, RequestOK, RequestState, PendingStatus, Labels
    <2> QED
      BY <1>3, <1>7, <2>1 DEF ReadOrderOfEnquiry, RowsOK, enquiryVars
  <1>8. CASE LinkTrip(r) \/ MakeTrip(r)
    <2>1. req' \in [Requests -> RequestOK]
      BY <1>1, <1>8 DEF LinkTrip, MakeTrip
    <2>2. req[r].bk \in BookingIds \cup {NoBooking}
      BY <1>2 DEF RequestState
    <2>3. [exists |-> TRUE, booking |-> req[r].bk, held |-> {}, status |-> "PENDING"]
            \in [exists : BOOLEAN, booking : BookingIds \cup {NoBooking},
                 held : SUBSET Resources, status : {"PENDING", "ASSIGNED"}]
      BY <2>2
    <2>4. RowsOK'
      BY <1>8, <2>2, <2>3 DEF LinkTrip, MakeTrip, RowsOK, enquiryVars
    <2> QED
      BY <2>1, <2>4
  <1>9. CASE ResolveTrip(r)
    <2>1. [req[r] EXCEPT !.at = "hold", !.hd = trip.held] \in RequestOK
      BY <1>2 DEF RowsOK, RequestOK, RequestState, PendingStatus, Labels
    <2> QED
      BY <1>1, <1>3, <1>9, <2>1 DEF ResolveTrip, RowsOK, enquiryVars
  <1>10. CASE HoldOnTrip(r)
    BY <1>1, <1>2, <1>10 DEF HoldOnTrip, RowsOK, RequestState
  <1>11. CASE PromoteTrip(r)
    BY <1>1, <1>11 DEF PromoteTrip, RowsOK, enquiryVars
  <1> QED
    BY <1>4, <1>5, <1>6, <1>7, <1>8, <1>9, <1>10, <1>11 DEF AssignStep

\* Every statement of every handler keeps rows and requests well typed.
LEMMA TypeStep == ASSUME TypeInv, [Next]_vars PROVE TypeInv'
  <1>1. CASE UNCHANGED vars
    BY <1>1 DEF vars, TypeInv, RowsOK
  <1>2. ASSUME NEW r \in Requests, ConversionReturns(r) \/ Crash(r) PROVE TypeInv'
    BY <1>2, FinishOK DEF ConversionReturns, Crash, TypeInv, RowsOK, enquiryVars
  <1> QED
    BY <1>1, <1>2, TypeArrive, TypeConversion, TypeClosingDesk, TypeAssign DEF Next, Step

\* The rows and the requests stay well typed, with the facts about pending writes
\* that the next theorem needs.
THEOREM TypeInvariance == Spec => []TypeInv
  BY TypeInit, TypeStep, PTL DEF Spec

\* Every column of the enquiry, its bookings and its trip, and every local of
\* every request, holds a value of its type, in every run of the handlers.
THEOREM TypeCorrect == Spec => []TypeOK
  <1>1. TypeInv => TypeOK
    BY DEF TypeInv, TypeOK, RequestOK
  <1> QED
    BY <1>1, TypeInvariance, PTL

-----------------------------------------------------------------------------

\* Where each of the four moves leaves the request, and that it moves no other.
LEMMA Moves ==
  ASSUME TypeInv, NEW r \in Requests
  PROVE  /\ \A l \in Labels : Goto(r, l) =>
              /\ req'[r].at = l
              /\ req'[r].bk = req[r].bk /\ req'[r].st = req[r].st /\ req'[r].pr = req[r].pr
              /\ \A q \in Requests \ {r} : req'[q] = req[q]
         /\ \A l \in Labels : GoOn(r, l) =>
              req'[r].at = l /\ \A q \in Requests \ {r} : req'[q] = req[q]
         /\ Finish(r) => req'[r].at = "idle" /\ \A q \in Requests \ {r} : req'[q] = req[q]
         /\ \A seen : Begin(r, seen) =>
              req'[r] = seen /\ \A q \in Requests \ {r} : req'[q] = req[q]
  <1>1. req \in [Requests -> RequestState]
    BY DEF TypeInv, RequestOK
  <1>2. ASSUME NEW l \in Labels, Goto(r, l)
        PROVE  /\ req'[r].at = l
               /\ req'[r].bk = req[r].bk /\ req'[r].st = req[r].st /\ req'[r].pr = req[r].pr
               /\ \A q \in Requests \ {r} : req'[q] = req[q]
    BY <1>1, <1>2 DEF Goto, RequestState
  <1>3. ASSUME Finish(r)
        PROVE  req'[r].at = "idle" /\ \A q \in Requests \ {r} : req'[q] = req[q]
    BY <1>1, <1>3 DEF Finish, Idle
  <1>4. ASSUME NEW seen, Begin(r, seen)
        PROVE  req'[r] = seen /\ \A q \in Requests \ {r} : req'[q] = req[q]
    BY <1>1, <1>4 DEF Begin
  <1>5. ASSUME NEW l \in Labels, GoOn(r, l)
        PROVE  req'[r].at = l /\ \A q \in Requests \ {r} : req'[q] = req[q]
    BY <1>1, <1>5 DEF GoOn, RequestState
  <1> QED
    BY <1>2, <1>3, <1>4, <1>5

\* A status write that does not reopen the enquiry keeps a decided one decided.
LEMMA WriteKeepsDecided ==
  ASSUME TypeInv, NEW s, WriteStatus(s), ~reopened'
  PROVE  ~reopened /\ status' = s /\ (status \in Decided => s \in Decided)
  BY Zenon DEF WriteStatus

\* Nothing is claimed, linked or offered at the start.
LEMMA OrderInit == Init => OrderInv
  BY StatusFacts DEF Init, OrderInv, ClaimInv, TripInv, OfferInv, Converting, NoTrip, Idle

\* A handler that arrives has written nothing, and has read what it goes on with.
LEMMA ArriveReads ==
  ASSUME TypeInv, NEW r \in Requests, Arrive(r)
  PROVE  /\ \A q \in Requests \ {r} : req'[q] = req[q]
         /\ UNCHANGED <<enquiryVars, bookings, trip, reopened>>
         /\ req'[r].at \in {"claim", "reject", "cancel", "review", "quote", "send", "reread"}
         /\ req'[r].at = "send" => assigned = Resources /\ price # NoPrice
         /\ req'[r].at = "quote" => req'[r].pr # NoPrice
  <1>1. /\ \A q \in Requests \ {r} : req'[q] = req[q]
        /\ UNCHANGED <<enquiryVars, bookings, trip, reopened>>
    BY Moves DEF Arrive, CustomerAccept, AdminConfirmOrder, Convert, CustomerReject,
                 CustomerCancel, AdminCancel, AdminSetReviewStatus, AdminSetQuote,
                 AdminSendQuote, AdminAssign
  <1>2. /\ req'[r].at \in {"claim", "reject", "cancel", "review", "quote", "send", "reread"}
        /\ req'[r].at = "send" => assigned = Resources /\ price # NoPrice
        /\ req'[r].at = "quote" => req'[r].pr # NoPrice
    <2> USE DEF Idle, Begin
    <2>0. req \in [Requests -> RequestState]
      BY DEF TypeInv, RequestOK
    <2>1. CASE CustomerAccept(r) \/ AdminConfirmOrder(r)
      BY <2>1, <2>0 DEF CustomerAccept, AdminConfirmOrder, Convert
    <2>2. CASE CustomerReject(r) \/ CustomerCancel(r) \/ AdminCancel(r)
      BY <2>2, <2>0 DEF CustomerReject, CustomerCancel, AdminCancel
    <2>3. CASE AdminSetReviewStatus(r)
      BY <2>3, <2>0 DEF AdminSetReviewStatus
    <2>4. CASE AdminSetQuote(r)
      BY <2>4, <2>0, ConstantsAssumption DEF AdminSetQuote
    <2>5. CASE AdminSendQuote(r)
      BY <2>5, <2>0 DEF AdminSendQuote
    <2>6. CASE AdminAssign(r)
      BY <2>6, <2>0 DEF AdminAssign
    <2> QED
      BY <2>1, <2>2, <2>3, <2>4, <2>5, <2>6 DEF Arrive
  <1> QED
    BY <1>1, <1>2

\* A handler that arrives knows what the row says, and adds no claim.
LEMMA OrderArrive ==
  ASSUME TypeInv, OrderInv, NEW r \in Requests, Arrive(r)
  PROVE  OrderInv'
  BY ArriveReads DEF OrderInv, ClaimInv, TripInv, OfferInv, Converting, enquiryVars

\* The claim excludes every other conversion, and the order it makes is final.
LEMMA OrderConversion ==
  ASSUME TypeInv, OrderInv, NEW r \in Requests, ConversionStep(r)
  PROVE  OrderInv'
  <1> USE DEF OrderInv, ClaimInv, TripInv, OfferInv, Converting, enquiryVars
  <1>1. \A l \in {"create", "release", "confirm", "converted"} : l \in Labels
    BY DEF Labels
  <1>2. CASE Claim(r)
    BY <1>1, <1>2, Moves, StatusFacts DEF Claim
  <1>3. CASE ClaimLost(r) \/ ConfirmRefused(r)
    BY <1>3, Moves DEF ClaimLost, ConfirmRefused
  <1>4. CASE CreateFails(r) \/ CreateFailsLate(r)
    BY <1>1, <1>4, Moves DEF CreateFails, CreateFailsLate
  <1>5. CASE CreateBooking(r)
    <2>1. req'[r].at = "confirm" /\ \A q \in Requests \ {r} : req'[q] = req[q]
      BY <1>5 DEF CreateBooking, TypeInv, RequestOK, RequestState
    <2> QED
      BY <1>5, <2>1, ZenonT(40) DEF CreateBooking
  <1>6. CASE ReleaseClaim(r)
    BY <1>6, Moves, StatusFacts DEF ReleaseClaim
  <1>7. CASE ConfirmOrder(r)
    <2>1. req'[r].at \in {"idle", "converted"} /\ \A q \in Requests \ {r} : req'[q] = req[q]
      BY <1>1, <1>7, Moves DEF ConfirmOrder
    <2>2. trip'.booking = trip.booking \/ (trip.booking = NoBooking /\ trip'.booking = req[r].bk)
      BY <1>7 DEF ConfirmOrder, TypeInv, RowsOK
    <2>3. status' = "CONFIRMED" /\ bookingId' = req[r].bk /\ (reopened => reopened')
          /\ UNCHANGED <<assigned, price>>
      BY <1>7 DEF ConfirmOrder, WriteStatus
    <2> QED
      BY <1>7, <2>1, <2>2, <2>3, StatusFacts DEF ConfirmOrder
  <1> QED
    BY <1>2, <1>3, <1>4, <1>5, <1>6, <1>7 DEF ConversionStep

\* A close is written before the truck is released, and no later write that keeps
\* the enquiry closed offers it again.
LEMMA OrderClosingDesk ==
  ASSUME TypeInv, OrderInv, NEW r \in Requests, ClosingStep(r) \/ DeskStep(r)
  PROVE  OrderInv'
  <1> USE DEF OrderInv, ClaimInv, TripInv, OfferInv, Converting, enquiryVars
  <1>1. \A l \in {"findHeld", "unhold", "publish"} : l \in Labels
    BY DEF Labels
  <1>2. PendingStatus(req[r])
    BY DEF TypeInv, RequestOK
  <1>3. CASE WriteRejected(r) \/ WriteCancelled(r)
    <2>1. /\ ~reopened' => ~reopened /\ status' \in {"CUSTOMER_REJECTED", "CANCELLED"}
          /\ UNCHANGED <<price, bookingId, assigned, bookings, trip>>
      BY <1>3, WriteKeepsDecided DEF WriteRejected, WriteCancelled
    <2>2. req'[r].at = "findHeld" /\ \A q \in Requests \ {r} : req'[q] = req[q]
      BY <1>1, <1>3, Moves DEF WriteRejected, WriteCancelled
    <2>3. ~Converting(r)
      BY <1>3 DEF WriteRejected, WriteCancelled
    <2> QED
      BY <2>1, <2>2, <2>3, StatusFacts
  <1>4. CASE FindHeldTrip(r)
    BY <1>1, <1>4, Moves DEF FindHeldTrip
  <1>5. CASE ReleaseReservation(r)
    <2>1. trip'.booking = trip.booking
      BY <1>5 DEF ReleaseReservation, TypeInv, RowsOK
    <2> QED
      BY <1>5, <2>1, Moves, StatusFacts DEF ReleaseReservation
  <1>6. CASE WriteReviewStatus(r)
    <2>1. req[r].st \notin Decided /\ req[r].st # "AWAITING_CUSTOMER_ACCEPTANCE"
      BY <1>2, <1>6 DEF WriteReviewStatus, PendingStatus
    <2>2. ~reopened' => ~reopened /\ status' = req[r].st /\ status \notin Decided
      BY <1>6, <2>1, WriteKeepsDecided DEF WriteReviewStatus
    <2> QED
      BY <1>6, <2>1, <2>2, Moves, StatusFacts DEF WriteReviewStatus
  <1>7. CASE WriteQuote(r)
    <2>1. req[r].st \notin Decided /\ req[r].st # "AWAITING_CUSTOMER_ACCEPTANCE"
      BY <1>2, <1>7 DEF WriteQuote, PendingStatus
    <2>2. ~reopened' => ~reopened /\ (status' = status \/ (status' = req[r].st /\ status \notin Decided))
      BY <1>7, <2>1, WriteKeepsDecided DEF WriteQuote, MayWriteStatus
    <2> QED
      BY <1>7, <2>1, <2>2, Moves, StatusFacts DEF WriteQuote
  <1>8. CASE ClaimSend(r)
    BY <1>1, <1>2, <1>8, Moves, StatusFacts DEF ClaimSend, PendingStatus
  <1>9. CASE SendLost(r)
    BY <1>9, Moves DEF SendLost
  <1>10. CASE PublishQuote(r)
    <2>1. /\ ~reopened' => ~reopened /\ status \notin Decided
          /\ status' = "AWAITING_CUSTOMER_ACCEPTANCE"
      BY <1>10, WriteKeepsDecided, StatusFacts DEF PublishQuote, WriteStatus
    <2> QED
      BY <1>10, <2>1, Moves, StatusFacts DEF PublishQuote
  <1> QED
    BY <1>3, <1>4, <1>5, <1>6, <1>7, <1>8, <1>9, <1>10 DEF ClosingStep, DeskStep

\* An assignment adds resources, and binds the trip to nothing but the order.
LEMMA OrderAssign ==
  ASSUME TypeInv, OrderInv, NEW r \in Requests, AssignStep(r)
  PROVE  OrderInv'
  <1> USE DEF OrderInv, ClaimInv, TripInv, OfferInv, Converting, enquiryVars
  <1>1. \A l \in {"link", "make", "resolve", "promote"} : l \in Labels
    BY DEF Labels
  <1>2. req[r] \in RequestState /\ PendingStatus(req[r]) /\ req \in [Requests -> RequestState]
    BY DEF TypeInv, RequestOK
  <1>3. CASE RereadForAssign(r) \/ ResolveTrip(r)
    <2>1. req'[r].at \in {"idle", "mirror", "hold"} /\ \A q \in Requests \ {r} : req'[q] = req[q]
      BY <1>2, <1>3, Moves DEF RereadForAssign, ResolveTrip, RequestState
    <2> QED
      BY <1>3, <2>1 DEF RereadForAssign, ResolveTrip
  <1>4. CASE WriteMirror(r)
    <2>1. req'[r].at = "ensure" /\ \A q \in Requests \ {r} : req'[q] = req[q]
      BY <1>2, <1>4 DEF WriteMirror, RequestState
    <2>2. assigned = Resources => assigned' = Resources
      BY <1>2, <1>4 DEF WriteMirror, RequestState
    <2>3. req[r].st \notin Decided /\ req[r].st # "AWAITING_CUSTOMER_ACCEPTANCE"
      BY <1>2, <1>4 DEF WriteMirror, PendingStatus
    <2>4. ~reopened' => ~reopened /\ (status' = status \/ (status' = req[r].st /\ status \notin Decided))
      BY <1>4, <2>3, WriteKeepsDecided DEF WriteMirror, MayWriteStatus
    <2> QED
      BY <1>4, <2>1, <2>2, <2>3, <2>4, StatusFacts DEF WriteMirror
  <1>5. CASE AssignRefused(r) \/ MakeTripLost(r)
    BY <1>5, Moves DEF AssignRefused, MakeTripLost
  <1>6. CASE ReadOrderOfEnquiry(r)
    <2>1. /\ req'[r].at = "lookup" /\ req'[r].bk = bookingId
          /\ \A q \in Requests \ {r} : req'[q] = req[q]
      BY <1>2, <1>6 DEF ReadOrderOfEnquiry, RequestState
    <2> QED
      BY <1>6, <2>1 DEF ReadOrderOfEnquiry
  <1>7. CASE LookupTrip(r)
    BY <1>1, <1>7, Moves DEF LookupTrip
  <1>8. CASE LinkTrip(r) \/ MakeTrip(r)
    <2>1. trip'.booking \in {trip.booking, req[r].bk}
      BY <1>8 DEF LinkTrip, MakeTrip, TypeInv, RowsOK
    <2> QED
      BY <1>1, <1>8, <2>1, Moves DEF LinkTrip, MakeTrip
  <1>9. CASE HoldOnTrip(r)
    <2>1. trip'.booking = trip.booking /\ (assigned = Resources => assigned' = Resources)
      BY <1>2, <1>9 DEF HoldOnTrip, TypeInv, RowsOK, RequestState
    <2> QED
      BY <1>1, <1>9, <2>1, Moves DEF HoldOnTrip
  <1>10. CASE PromoteTrip(r)
    <2>1. trip'.booking = trip.booking
      BY <1>10 DEF PromoteTrip, TypeInv, RowsOK
    <2> QED
      BY <1>10, <2>1, Moves DEF PromoteTrip
  <1> QED
    BY <1>3, <1>4, <1>5, <1>6, <1>7, <1>8, <1>9, <1>10 DEF AssignStep

\* Every statement of every handler keeps the order invariant.
LEMMA OrderStep == ASSUME TypeInv, OrderInv, [Next]_vars PROVE OrderInv'
  <1>1. CASE UNCHANGED vars
    BY <1>1 DEF vars, OrderInv, ClaimInv, TripInv, OfferInv, Converting
  <1>2. ASSUME NEW r \in Requests, ConversionReturns(r) \/ Crash(r) PROVE OrderInv'
    BY <1>2, Moves
    DEF ConversionReturns, Crash, OrderInv, ClaimInv, TripInv, OfferInv, Converting, enquiryVars
  <1> QED
    BY <1>1, <1>2, OrderArrive, OrderConversion, OrderClosingDesk, OrderAssign DEF Next, Step

\* What the requests in flight know of the claim, the trip and the offer is true
\* in every run, until a stale write reopens the enquiry.
THEOREM OrderInvariance == Spec => [](TypeInv /\ OrderInv)
  <1>1. Init => TypeInv /\ OrderInv
    BY TypeInit, OrderInit
  <1>2. TypeInv /\ OrderInv /\ [Next]_vars => (TypeInv /\ OrderInv)'
    BY TypeStep, OrderStep
  <1> QED
    BY <1>1, <1>2, PTL DEF Spec

\* However many requests accept or confirm the same offer, and whatever the other
\* handlers do meanwhile, two are never converting it at once, and none is once it
\* is an order, as long as no stale write has reopened the enquiry.
THEOREM ConversionExclusive == Spec => []OneConversion
  <1>1. OrderInv => OneConversion
    BY DEF OrderInv, ClaimInv, OneConversion
  <1> QED
    BY <1>1, OrderInvariance, PTL

\* An order is never replaced by another before such a write.
THEOREM OrderIsFinal == Spec => OrderNeverReplaced
  <1>1. ASSUME TypeInv, OrderInv, [Next]_vars, bookingId # NoBooking, ~reopened
        PROVE  bookingId' = bookingId
    <2>1. CASE UNCHANGED vars
      BY <2>1 DEF vars
    <2>2. ASSUME NEW r \in Requests, ConfirmOrder(r) PROVE FALSE
      BY <1>1, <2>2 DEF ConfirmOrder, OrderInv, ClaimInv, Converting
    <2>3. ASSUME NEW r \in Requests, Arrive(r) PROVE bookingId' = bookingId
      BY <2>3 DEF enquiryVars, Arrive, CustomerAccept, AdminConfirmOrder, Convert,
                  CustomerReject, CustomerCancel, AdminCancel, AdminSetReviewStatus,
                  AdminSetQuote, AdminSendQuote, AdminAssign
    <2>4. ASSUME NEW r \in Requests, ConversionStep(r) PROVE bookingId' = bookingId
      BY <2>2, <2>4 DEF enquiryVars, ConversionStep, Claim, ClaimLost, CreateBooking,
                        CreateFailsLate, CreateFails, ReleaseClaim, ConfirmRefused
    <2>5. ASSUME NEW r \in Requests, ClosingStep(r) \/ DeskStep(r) PROVE bookingId' = bookingId
      BY <2>5 DEF enquiryVars, ClosingStep, DeskStep, WriteRejected, WriteCancelled,
                  FindHeldTrip, ReleaseReservation, WriteReviewStatus, WriteQuote, ClaimSend,
                  SendLost, PublishQuote
    <2>6. ASSUME NEW r \in Requests, AssignStep(r) PROVE bookingId' = bookingId
      BY <2>6 DEF enquiryVars, AssignStep, RereadForAssign, WriteMirror, AssignRefused,
                  ReadOrderOfEnquiry, LookupTrip, LinkTrip, MakeTrip, MakeTripLost, ResolveTrip, HoldOnTrip,
                  PromoteTrip
    <2>7. ASSUME NEW r \in Requests, ConversionReturns(r) \/ Crash(r) PROVE bookingId' = bookingId
      BY <2>7 DEF ConversionReturns, Crash, enquiryVars
    <2> QED
      BY <1>1, <2>1, <2>3, <2>4, <2>5, <2>6, <2>7 DEF Next, Step
  <1>2. TypeInv /\ OrderInv /\ [Next]_vars
          => [bookingId # NoBooking /\ ~reopened => bookingId' = bookingId]_vars
    BY <1>1
  <1> QED
    BY <1>2, OrderInvariance, PTL DEF Spec, OrderNeverReplaced

\* The trip is bound to the enquiry's own booking or to none.
THEOREM TripIsTheOrders == Spec => []TripFollowsOrder
  <1>1. OrderInv => TripFollowsOrder
    BY DEF OrderInv, TripInv, TripFollowsOrder
  <1> QED
    BY <1>1, OrderInvariance, PTL

\* An offer the customer can accept names a truck, a driver and a price.
THEOREM OfferComplete == Spec => []OfferIsComplete
  <1>1. OrderInv => OfferIsComplete
    BY DEF OrderInv, OfferInv, OfferIsComplete
  <1> QED
    BY <1>1, OrderInvariance, PTL

-----------------------------------------------------------------------------
(***************************************************************************)
(* The charter.                                                             *)
(***************************************************************************)

\* What a write of the status by any handler but the conversion's own can do to the decision:
\* nothing, a move among the undecided statuses, a close, or taking it back.
Keeps ==
  \/ UNCHANGED <<status, reopened>>
  \/ {status, status'} \cap Decided = {} /\ UNCHANGED reopened
  \/ status' \in {"CUSTOMER_REJECTED", "CANCELLED"} /\ UNCHANGED reopened
  \/ status \in Decided /\ status' \notin Decided /\ reopened'

\* What a step leaves to the order: it neither claims nor confirms, keeps the decision, drops
\* a claim only by itself, and a request that has now created its booking names it.
Quiet(r) ==
  /\ \A q \in Requests \ {r} : req'[q] = req[q]
  /\ bookingId' = bookingId
  /\ Converting(r)' => Converting(r)
  /\ Converting(r) => Converting(r)' \/ status' = status
  /\ req'[r].at \in {"confirm", "converted"} =>
       req'[r] = req[r] \/ (req'[r].at = "confirm" /\ req'[r].bk \in BookingIds)
  /\ Keeps

\* A write by primary key keeps the decision if what it writes is undecided or a close.
LEMMA WriteKeeps ==
  ASSUME TypeInv, NEW s, WriteStatus(s), s \notin Decided \/ s \in {"CUSTOMER_REJECTED", "CANCELLED"}
  PROVE  Keeps
  <1>1. reopened \in BOOLEAN /\ status' = s
    BY DEF TypeInv, RowsOK, WriteStatus
  <1>2. CASE s \in {"CUSTOMER_REJECTED", "CANCELLED"}
    <2>1. s \in Decided
      BY <1>2, StatusFacts
    <2>2. reopened' = reopened
      BY <1>1, <2>1, Zenon DEF WriteStatus
    <2> QED
      BY <1>1, <1>2, <2>2 DEF Keeps
  <1>3. CASE s \notin Decided /\ status \in Decided
    <2>1. reopened'
      BY <1>3, Zenon DEF WriteStatus
    <2> QED
      BY <1>1, <1>3, <2>1 DEF Keeps
  <1>4. CASE s \notin Decided /\ status \notin Decided
    <2>1. reopened' = reopened
      BY <1>1, <1>4, Zenon DEF WriteStatus
    <2> QED
      BY <1>1, <1>4, <2>1 DEF Keeps
  <1> QED
    BY <1>2, <1>3, <1>4

\* The steps of a conversion are quiet, but for the claim, its release and the order.
LEMMA QuietConversion ==
  ASSUME TypeInv, NEW r \in Requests, ConversionStep(r), ~Claim(r), ~ReleaseClaim(r),
         ~ConfirmOrder(r)
  PROVE  Quiet(r)
  <1> USE DEF Quiet, Keeps, Converting, enquiryVars
  <1>1. CASE ClaimLost(r) \/ ConfirmRefused(r)
    BY <1>1, Moves DEF ClaimLost, ConfirmRefused
  <1>2. CASE CreateFails(r) \/ CreateFailsLate(r)
    <2>1. Goto(r, "release") /\ "release" \in Labels
      BY <1>2 DEF CreateFails, CreateFailsLate, Labels
    <2> QED
      BY <1>2, <2>1, Moves DEF CreateFails, CreateFailsLate
  <1>3. CASE CreateBooking(r)
    <2>1. PICK b \in BookingIds : req' = [req EXCEPT ![r].at = "confirm", ![r].bk = b]
      BY <1>3 DEF CreateBooking
    <2>2. /\ req'[r].at = "confirm" /\ req'[r].bk = b
          /\ \A q \in Requests \ {r} : req'[q] = req[q]
      BY <2>1 DEF TypeInv, RequestOK, RequestState
    <2> QED
      BY <1>3, <2>2 DEF CreateBooking
  <1> QED
    BY <1>1, <1>2, <1>3 DEF ConversionStep

\* So are those of the handlers that close, price and publish.
LEMMA QuietClosingDesk ==
  ASSUME TypeInv, NEW r \in Requests, ClosingStep(r) \/ DeskStep(r)
  PROVE  Quiet(r)
  <1>0. PendingStatus(req[r]) /\ {"findHeld", "unhold", "publish"} \subseteq Labels
    BY DEF TypeInv, RequestOK, Labels
  <1>1. /\ \A q \in Requests \ {r} : req'[q] = req[q]
        /\ req'[r].at \in {"idle", "findHeld", "unhold", "publish"}
        /\ ~Converting(r) /\ bookingId' = bookingId
    BY <1>0, Moves
    DEF ClosingStep, DeskStep, WriteRejected, WriteCancelled, FindHeldTrip, ReleaseReservation,
        WriteReviewStatus, WriteQuote, ClaimSend, SendLost, PublishQuote, enquiryVars, Converting
  <1>2. Keeps
    <2>1. CASE WriteRejected(r) \/ WriteCancelled(r)
      BY <2>1, WriteKeeps DEF WriteRejected, WriteCancelled
    <2>2. CASE FindHeldTrip(r) \/ ReleaseReservation(r) \/ SendLost(r)
      BY <2>2 DEF FindHeldTrip, ReleaseReservation, SendLost, enquiryVars, Keeps
    <2>3. CASE WriteReviewStatus(r)
      BY <1>0, <2>3, WriteKeeps DEF WriteReviewStatus, PendingStatus
    <2>4. CASE WriteQuote(r)
      <3>1. req[r].st \notin Decided
        BY <1>0, <2>4 DEF WriteQuote, PendingStatus
      <3>2. UNCHANGED <<status, reopened>> \/ WriteStatus(req[r].st)
        BY <2>4 DEF WriteQuote, MayWriteStatus
      <3> QED
        BY <3>1, <3>2, WriteKeeps DEF Keeps
    <2>5. CASE ClaimSend(r)
      BY <1>0, <2>5, StatusFacts DEF ClaimSend, PendingStatus, Keeps
    <2>6. CASE PublishQuote(r)
      BY <2>6, WriteKeeps, StatusFacts DEF PublishQuote
    <2> QED
      BY <2>1, <2>2, <2>3, <2>4, <2>5, <2>6 DEF ClosingStep, DeskStep
  <1> QED
    BY <1>1, <1>2 DEF Quiet, Converting

\* So are those of an assignment.
LEMMA QuietAssign ==
  ASSUME TypeInv, NEW r \in Requests, AssignStep(r)
  PROVE  Quiet(r)
  <1>0. /\ {"link", "make", "resolve", "promote"} \subseteq Labels
        /\ req \in [Requests -> RequestState] /\ PendingStatus(req[r])
    BY DEF TypeInv, RequestOK, Labels
  <1>1. /\ \A q \in Requests \ {r} : req'[q] = req[q]
        /\ req'[r].at \in {"idle", "mirror", "ensure", "lookup", "link", "make", "resolve", "hold",
                           "promote"}
    <2>1. CASE RereadForAssign(r) \/ WriteMirror(r) \/ ReadOrderOfEnquiry(r)
      BY <1>0, <2>1 DEF RereadForAssign, WriteMirror, ReadOrderOfEnquiry, RequestState
    <2>2. CASE AssignRefused(r) \/ MakeTripLost(r) \/ PromoteTrip(r)
      BY <2>2, Moves DEF AssignRefused, MakeTripLost, PromoteTrip
    <2>3. CASE LookupTrip(r) \/ LinkTrip(r) \/ MakeTrip(r) \/ HoldOnTrip(r)
      BY <1>0, <2>3, Moves DEF LookupTrip, LinkTrip, MakeTrip, HoldOnTrip
    <2>4. CASE ResolveTrip(r)
      BY <1>0, <2>4, Moves DEF ResolveTrip, RequestState
    <2> QED
      BY <2>1, <2>2, <2>3, <2>4 DEF AssignStep
  <1>2. bookingId' = bookingId /\ ~Converting(r)
    BY DEF AssignStep, RereadForAssign, WriteMirror, AssignRefused, ReadOrderOfEnquiry, LookupTrip,
           LinkTrip, MakeTrip, MakeTripLost, ResolveTrip, HoldOnTrip, PromoteTrip, enquiryVars,
           Converting
  <1>3. Keeps
    <2>1. CASE WriteMirror(r)
      <3>1. req[r].st \notin Decided
        BY <1>0, <2>1 DEF WriteMirror, PendingStatus
      <3>2. UNCHANGED <<status, reopened>> \/ WriteStatus(req[r].st)
        BY <2>1 DEF WriteMirror, MayWriteStatus
      <3> QED
        BY <3>1, <3>2, WriteKeeps DEF Keeps
    <2>2. CASE ~WriteMirror(r)
      BY <2>2 DEF AssignStep, RereadForAssign, AssignRefused, ReadOrderOfEnquiry, LookupTrip,
           LinkTrip, MakeTrip, MakeTripLost, ResolveTrip, HoldOnTrip, PromoteTrip, enquiryVars, Keeps
    <2> QED
      BY <2>1, <2>2
  <1> QED
    BY <1>1, <1>2, <1>3 DEF Quiet, Converting

\* So is a handler that arrives, and one that ends and writes nothing.
LEMMA QuietEnds ==
  ASSUME TypeInv, NEW r \in Requests,
         Arrive(r) \/ (Finish(r) /\ UNCHANGED <<enquiryVars, reopened>>)
  PROVE  Quiet(r)
  <1>1. /\ \A q \in Requests \ {r} : req'[q] = req[q]
        /\ req'[r].at \in {"idle", "claim", "reject", "cancel", "review", "quote", "send", "reread"}
        /\ UNCHANGED <<enquiryVars, reopened>>
    BY ArriveReads, Moves
  <1> QED
    BY <1>1 DEF Quiet, Keeps, Converting, enquiryVars

\* The booking a conversion has created has an id.
NamedOrder == \A r \in Requests : req[r].at \in {"confirm", "converted"} => req[r].bk \in BookingIds

\* What the status says of an enquiry that is not reopened.
LEMMA PhaseFacts ==
  ASSUME ~reopened
  PROVE  /\ status = "AWAITING_CUSTOMER_ACCEPTANCE" => Phase = "offered"
         /\ status = "CUSTOMER_ACCEPTED" <=> Phase = "accepted"
         /\ status \in TerminalStatuses <=> Phase = "closed"
         /\ status = "CONFIRMED" => Phase = "ordered"
         /\ status \in Decided <=> Phase \notin Charter!Undecided
         /\ Phase # "reopened"
  BY DEF Phase, Charter!Undecided, Decided, CommittedStatuses, TerminalStatuses

\* The same of the next state.
LEMMA PhaseFactsNext ==
  ASSUME ~reopened'
  PROVE  /\ status' = "AWAITING_CUSTOMER_ACCEPTANCE" => Phase' = "offered"
         /\ status' = "CUSTOMER_ACCEPTED" <=> Phase' = "accepted"
         /\ status' \in TerminalStatuses <=> Phase' = "closed"
         /\ status' = "CONFIRMED" => Phase' = "ordered"
         /\ status' \in Decided <=> Phase' \notin Charter!Undecided
         /\ Phase' # "reopened"
  BY DEF Phase, Charter!Undecided, Decided, CommittedStatuses, TerminalStatuses

Takers == {r \in Requests : Converting(r)}

\* A request that converts an enquiry nobody took back is alone in it.
LEMMA OneTaker ==
  ASSUME ~reopened => ClaimInv, ~reopened, NEW r \in Requests, Converting(r)
  PROVE  Takers = {r} /\ status \in Claimed /\ bookingId = NoBooking
  BY DEF ClaimInv, Takers

\* A reopened enquiry has no charter to keep.
LEMMA AfterReopening ==
  ASSUME reopened, reopened'
  PROVE  Charter!Next
  BY DEF Charter!Next, Charter!Reopen, Phase

\* A quiet step negotiates, closes, drops a claim or reopens, or is none of the charter's business.
LEMMA QuietKeepsCharter ==
  ASSUME TypeInv, ~reopened => ClaimInv, NEW r \in Requests, Quiet(r)
  PROVE  [Charter!Next]_(Charter!charter)
  <1> USE DEF Charter!charter
  <1>1. bookingId' = bookingId /\ reopened \in BOOLEAN /\ Keeps
    BY DEF Quiet, TypeInv, RowsOK
  <1>2. Takers' = Takers \/ (Takers' = Takers \ {r} /\ Converting(r) /\ status' = status)
    BY DEF Takers, Quiet, Converting
  <1>3. CASE reopened
    BY <1>1, <1>3, AfterReopening DEF Keeps
  <1>4. CASE ~reopened /\ UNCHANGED <<status, reopened>>
    <2>1. Phase' = Phase
      BY <1>4 DEF Phase
    <2>2. CASE Takers' = Takers
      BY <1>1, <2>1, <2>2 DEF Takers
    <2>3. CASE Takers' = Takers \ {r} /\ Converting(r)
      <3>1. Takers = {r} /\ Takers' = {}
        BY <1>4, <2>3, OneTaker
      <3> QED
        BY <1>1, <2>1, <3>1 DEF Charter!Next, Charter!GiveUp, Takers
    <2> QED
      BY <1>2, <2>2, <2>3
  <1>5. CASE ~reopened /\ status' # status
    <2>1. Takers' = Takers
      BY <1>2, <1>5
    <2>2. CASE {status, status'} \cap Decided = {} /\ UNCHANGED reopened
      <3>1. {Phase, Phase'} \subseteq Charter!Undecided
        BY <1>5, <2>2, PhaseFacts, PhaseFactsNext
      <3> QED
        BY <1>1, <2>1, <3>1 DEF Charter!Next, Charter!Negotiate, Takers
    <2>3. CASE status' \in {"CUSTOMER_REJECTED", "CANCELLED"} /\ UNCHANGED reopened
      <3>1. Phase' = "closed" /\ Phase # "reopened"
        BY <1>5, <2>3, PhaseFacts, PhaseFactsNext DEF TerminalStatuses
      <3> QED
        BY <1>1, <2>1, <3>1 DEF Charter!Next, Charter!CloseEnquiry, Takers
    <2>4. CASE status \in Decided /\ status' \notin Decided /\ reopened'
      <3>1. Phase \notin Charter!Undecided /\ Phase' = "reopened"
        BY <1>5, <2>4, PhaseFacts DEF Phase
      <3> QED
        BY <1>1, <2>1, <3>1 DEF Charter!Next, Charter!Reopen, Takers
    <2> QED
      BY <1>1, <1>5, <2>2, <2>3, <2>4 DEF Keeps
  <1> QED
    BY <1>1, <1>3, <1>4, <1>5 DEF Keeps

\* The claim takes the offer, its release gives it back, and the last transaction places the order.
LEMMA ConversionKeepsCharter ==
  ASSUME TypeInv, ~reopened => ClaimInv, NamedOrder, NEW r \in Requests,
         Claim(r) \/ ReleaseClaim(r) \/ ConfirmOrder(r)
  PROVE  Charter!Next
  <1>0. "create" \in Labels /\ "converted" \in Labels
    BY DEF Labels
  <1>1. CASE reopened
    BY <1>1, AfterReopening DEF Claim, ReleaseClaim, ConfirmOrder, WriteStatus
  <1>2. CASE ~reopened /\ Claim(r)
    <2>1. req'[r].at = "create" /\ \A q \in Requests \ {r} : req'[q] = req[q]
      BY <1>0, <1>2, Moves DEF Claim
    <2>2. status \notin Decided /\ ~reopened' /\ bookingId' = bookingId
      BY <1>2, StatusFacts DEF Claim
    <2>3. Takers = {} /\ bookingId = NoBooking
      BY <1>2, <2>2, StatusFacts DEF ClaimInv, Takers
    <2>4. Takers' = {r}
      BY <2>1, <2>3 DEF Takers, Converting
    <2>5. Phase = "offered" /\ Phase' = "accepted"
      BY <1>2, <2>2, PhaseFacts, PhaseFactsNext DEF Claim
    <2> QED
      BY <2>2, <2>3, <2>4, <2>5 DEF Charter!Next, Charter!Take, Takers
  <1>3. CASE ~reopened /\ ReleaseClaim(r)
    <2>1. Takers = {r}
      BY <1>3, OneTaker DEF ReleaseClaim, Converting
    <2>2. req'[r].at = "idle" /\ \A q \in Requests \ {r} : req'[q] = req[q]
      BY <1>3, Moves DEF ReleaseClaim
    <2>3. Takers' = {}
      BY <2>1, <2>2 DEF Takers, Converting
    <2>4. ~reopened' /\ bookingId' = bookingId
      BY <1>3 DEF ReleaseClaim
    <2>5. Phase' = Phase \/ (Phase = "accepted" /\ Phase' = "offered")
      <3>1. CASE status = "CUSTOMER_ACCEPTED"
        BY <1>3, <2>4, <3>1, PhaseFacts, PhaseFactsNext DEF ReleaseClaim
      <3>2. CASE status # "CUSTOMER_ACCEPTED"
        BY <1>3, <2>4, <3>2 DEF ReleaseClaim, Phase
      <3> QED
        BY <3>1, <3>2
    <2> QED
      BY <2>1, <2>3, <2>4, <2>5 DEF Charter!Next, Charter!GiveUp, Takers
  <1>4. CASE ~reopened /\ ConfirmOrder(r)
    <2>1. Takers = {r} /\ status \in Claimed /\ bookingId = NoBooking
      BY <1>4, OneTaker DEF ConfirmOrder, Converting
    <2>2. req'[r].at \in {"idle", "converted"} /\ \A q \in Requests \ {r} : req'[q] = req[q]
      BY <1>0, <1>4, Moves DEF ConfirmOrder
    <2>3. Takers' = {}
      BY <2>1, <2>2 DEF Takers, Converting
    <2>4. bookingId' \in BookingIds
      BY <1>4 DEF ConfirmOrder, NamedOrder
    <2>5. ~reopened' /\ status' = "CONFIRMED"
      BY <1>4, StatusFacts DEF ConfirmOrder, WriteStatus
    <2>6. Phase \in {"accepted", "closed"} /\ Phase' = "ordered"
      BY <1>4, <2>1, <2>5, PhaseFacts, PhaseFactsNext DEF Claimed
    <2> QED
      BY <2>1, <2>3, <2>4, <2>6 DEF Charter!Next, Charter!Place, Takers
  <1> QED
    BY <1>1, <1>2, <1>3, <1>4

\* Every step of every handler is quiet or one of the three.
LEMMA StepIsQuiet ==
  ASSUME TypeInv, NEW r \in Requests, Arrive(r) \/ Step(r) \/ ConversionReturns(r) \/ Crash(r)
  PROVE  Quiet(r) \/ Claim(r) \/ ReleaseClaim(r) \/ ConfirmOrder(r)
  <1>1. CASE ConversionReturns(r) \/ Crash(r)
    BY <1>1, QuietEnds DEF ConversionReturns, Crash, enquiryVars
  <1> QED
    BY <1>1, QuietEnds, QuietConversion, QuietClosingDesk, QuietAssign DEF Step

\* A booking that is named once is named by the request that made it until it is done.
LEMMA NamedOrderKept ==
  ASSUME TypeInv, NamedOrder, NEW r \in Requests,
         Quiet(r) \/ Claim(r) \/ ReleaseClaim(r) \/ ConfirmOrder(r)
  PROVE  NamedOrder'
  <1>0. "create" \in Labels /\ "converted" \in Labels
    BY DEF Labels
  <1>1. CASE Quiet(r)
    BY <1>1 DEF Quiet, NamedOrder
  <1>2. CASE Claim(r) \/ ReleaseClaim(r)
    BY <1>0, <1>2, Moves DEF Claim, ReleaseClaim, NamedOrder
  <1>3. CASE ConfirmOrder(r)
    <2>1. /\ req'[r].at = "idle" \/ (req'[r].at = "converted" /\ req'[r].bk = req[r].bk)
          /\ \A q \in Requests \ {r} : req'[q] = req[q]
      BY <1>0, <1>3, Moves DEF ConfirmOrder
    <2> QED
      BY <1>3, <2>1 DEF ConfirmOrder, NamedOrder
  <1> QED
    BY <1>1, <1>2, <1>3

\* EnquiryOrder implements OrderCharter: an order comes only out of an offer one request took,
\* and a decided enquiry is offered again only by its taker.
THEOREM EnquiryKeepsCharter == Spec => KeepsOrderCharter
  <1>1. Init => Charter!Init /\ NamedOrder
    BY StatusFacts DEF Init, Charter!Init, Phase, TerminalStatuses, Converting, NamedOrder, Idle
  <1>2. TypeInv /\ OrderInv => (~reopened => ClaimInv)
    BY DEF OrderInv
  <1>3. TypeInv /\ OrderInv /\ NamedOrder /\ [Next]_vars
          => NamedOrder' /\ [Charter!Next]_(Charter!charter)
    <2> SUFFICES ASSUME TypeInv, OrderInv, NamedOrder, [Next]_vars
                 PROVE  NamedOrder' /\ [Charter!Next]_(Charter!charter)
      OBVIOUS
    <2>1. CASE UNCHANGED vars
      BY <2>1 DEF vars, NamedOrder, Charter!charter, Phase, Converting
    <2>2. CASE Next
      <3>1. PICK r \in Requests : Arrive(r) \/ Step(r) \/ ConversionReturns(r) \/ Crash(r)
        BY <2>2 DEF Next
      <3>2. Quiet(r) \/ Claim(r) \/ ReleaseClaim(r) \/ ConfirmOrder(r)
        BY <3>1, StepIsQuiet
      <3> QED
        BY <1>2, <3>2, NamedOrderKept, QuietKeepsCharter, ConversionKeepsCharter
    <2> QED
      BY <2>1, <2>2
  <1> QED
    BY <1>1, <1>3, OrderInvariance, PTL DEF Spec, KeepsOrderCharter, Charter!Spec
=============================================================================
