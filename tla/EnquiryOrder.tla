---------------------------- MODULE EnquiryOrder ----------------------------
(***************************************************************************)
(* One enquiry on its way to an order (services/EnquiryService.js): admins *)
(* assign, quote, send, review and cancel; the customer accepts, rejects   *)
(* and cancels; acceptance creates a Booking and links it.                  *)
(*                                                                          *)
(* Every handler is a chain of awaits on a READ COMMITTED database.  It is  *)
(* modelled as the code runs it: one action per database statement or       *)
(* transaction, the values a handler has read kept in req[r] until it uses  *)
(* them, and the steps of any number of requests interleaved.  A guard of a *)
(* handler that returns or throws before writing is a request that does     *)
(* nothing, so it is not an action.                                         *)
(***************************************************************************)
EXTENDS EnquiryStates, FiniteSets

CONSTANTS
  Requests,    \* HTTP requests the server may be handling at once
  BookingIds,  \* ids the bookings table may hand out
  Prices,      \* amounts an admin may quote
  NoPrice,     \* final_quoted_price is null / the booking row does not exist
  NoBooking,   \* booking_id is null
  Ops,         \* the endpoints that are called
  Guest,       \* the enquiry has no customer account yet (customer_id is null)
  MayCrash     \* the process may die between two statements

AllOps == {"customerAccept", "customerReject", "customerCancel", "adminAssign",
           "adminSetReviewStatus", "adminSetQuote", "adminSendQuote",
           "adminConfirmOrder", "adminCancel"}

ASSUME ConstantsAssumption ==
  /\ Ops \subseteq AllOps
  /\ NoPrice \notin Prices
  /\ NoBooking \notin BookingIds
  /\ Guest \in BOOLEAN
  /\ MayCrash \in BOOLEAN

VARIABLES
  status, priceStatus, price, bookingId,  \* columns of the enquiry
  assigned,   \* which of assigned_vehicle_id and assigned_driver_id are set
  bookings,   \* the bookings created from this enquiry: id -> final_price
  trip,       \* the trip whose enquiry_id is this enquiry
  req,        \* what each running request has read and does next
  reopened    \* history: a write took the enquiry back out of a decided status

enquiryVars == <<status, priceStatus, price, bookingId, assigned>>
vars == <<status, priceStatus, price, bookingId, assigned, bookings, trip, req, reopened>>

-----------------------------------------------------------------------------

Resources == {"vehicle", "driver"}

PriceStatuses == {"NOT_QUOTED", "ESTIMATED", "QUOTED", "SENT", "ACCEPTED", "REJECTED", "CANCELLED"}

\* The customer or the company has decided: accepted, ordered or closed.
Decided == CommittedStatuses \cup TerminalStatuses

NoTrip == [exists |-> FALSE, booking |-> NoBooking, held |-> {}, status |-> "PENDING"]

Idle == [at |-> "idle", op |-> "none", st |-> NoStatus, pr |-> NoPrice,
         asg |-> {}, hd |-> {}, bk |-> NoBooking]

\* Where a request goes next; GoOn also drops what it has read and uses no more.
Begin(r, seen) == req[r] = Idle /\ req' = [req EXCEPT ![r] = seen]
Goto(r, l)     == req' = [req EXCEPT ![r].at = l]
GoOn(r, l)     == req' = [req EXCEPT ![r].at = l, ![r].st = NoStatus, ![r].bk = NoBooking]
Finish(r)      == req' = [req EXCEPT ![r] = Idle]

\* A status write that names only the primary key: it lands whatever the status
\* has become since the handler read it.
WriteStatus(s) ==
  /\ status' = s
  /\ reopened' = (reopened \/ (status \in Decided /\ s \notin Decided))

\* Mutant: a handler that keeps the status writes the missing value all the same.
WritesMissingStatus(s) == WriteStatus(s)

MayWriteStatus(s) ==
  IF s = NoStatus THEN UNCHANGED <<status, reopened>> ELSE WriteStatus(s)

Init ==
  /\ status = "ENQUIRY_SUBMITTED"
  /\ priceStatus \in {"NOT_QUOTED", "ESTIMATED"}
  /\ price = NoPrice
  /\ bookingId = NoBooking
  /\ assigned = {}
  /\ bookings = [b \in BookingIds |-> NoPrice]
  /\ trip = NoTrip
  /\ req = [r \in Requests |-> Idle]
  /\ reopened = FALSE

-----------------------------------------------------------------------------
(***************************************************************************)
(* Conversion into an order: customerAccept and adminConfirmOrder, the     *)
(* latter through _convertEnquiryToOrder.                                   *)
(***************************************************************************)

\* Load the enquiry; go on only from AWAITING_CUSTOMER_ACCEPTANCE with a price.
Convert(r, op) ==
  /\ status = "AWAITING_CUSTOMER_ACCEPTANCE"
  /\ price # NoPrice
  /\ Begin(r, [Idle EXCEPT !.at = "claim", !.op = op, !.pr = price, !.asg = assigned])
  /\ UNCHANGED <<enquiryVars, bookings, trip, reopened>>

CustomerAccept(r) == "customerAccept" \in Ops /\ Convert(r, "customerAccept")

\* Called by QuotationService.confirmOrder only; QuotationDesk models that caller.
AdminConfirmOrder(r) == "adminConfirmOrder" \in Ops /\ Convert(r, "adminConfirmOrder")

\* Mutant: the claim written by primary key, with no condition on the status.
ClaimByKey(r) ==
  /\ req[r].at = "claim"
  /\ status' = "CUSTOMER_ACCEPTED"
  /\ priceStatus' = "ACCEPTED"
  /\ Goto(r, "create")
  /\ UNCHANGED <<price, bookingId, assigned, bookings, trip, reopened>>

\* updateMany ... where status = AWAITING_CUSTOMER_ACCEPTANCE: only one wins.
Claim(r) ==
  /\ req[r].at = "claim"
  /\ status = "AWAITING_CUSTOMER_ACCEPTANCE"
  /\ status' = "CUSTOMER_ACCEPTED"
  /\ priceStatus' = "ACCEPTED"
  /\ Goto(r, "create")
  /\ UNCHANGED <<price, bookingId, assigned, bookings, trip, reopened>>

ClaimLost(r) ==
  /\ req[r].at = "claim"
  /\ status # "AWAITING_CUSTOMER_ACCEPTANCE"
  /\ Finish(r)
  /\ UNCHANGED <<enquiryVars, bookings, trip, reopened>>

\* Mutant: the trip is handed to the booking before the enquiry is linked to it.
CreateBookingTakesTrip(r) ==
  /\ req[r].at = "create"
  /\ \E b \in BookingIds :
       /\ bookings[b] = NoPrice
       /\ bookings' = [bookings EXCEPT ![b] = req[r].pr]
       /\ trip' = IF trip.exists THEN [trip EXCEPT !.booking = b] ELSE trip
       /\ req' = [req EXCEPT ![r].at = "confirm", ![r].bk = b]
  /\ UNCHANGED <<enquiryVars, reopened>>

\* BookingService.createBooking commits the booking row at the price read before
\* the claim.
CreateBooking(r) ==
  /\ req[r].at = "create"
  /\ \E b \in BookingIds :
       /\ bookings[b] = NoPrice
       /\ bookings' = [bookings EXCEPT ![b] = req[r].pr]
       /\ req' = [req EXCEPT ![r].at = "confirm", ![r].bk = b]
  /\ UNCHANGED <<enquiryVars, trip, reopened>>

\* A guest's enquiry is then bound to the account in a write of its own.  When
\* that write fails the booking row has already been committed.
CreateFailsLate(r) ==
  /\ Guest
  /\ req[r].at = "create"
  /\ \E b \in BookingIds :
       /\ bookings[b] = NoPrice
       /\ bookings' = [bookings EXCEPT ![b] = req[r].pr]
  /\ Goto(r, "release")
  /\ UNCHANGED <<enquiryVars, trip, reopened>>

CreateFails(r) ==
  /\ req[r].at = "create"
  /\ Goto(r, "release")
  /\ UNCHANGED <<enquiryVars, bookings, trip, reopened>>

\* Mutant: the catch block rethrows without giving the claim back.
KeepsClaim(r) ==
  /\ req[r].at = "release"
  /\ Finish(r)
  /\ UNCHANGED <<enquiryVars, bookings, trip, reopened>>

\* Mutant: the catch block writes the status by primary key.
ReleaseByKey(r) ==
  /\ req[r].at = "release"
  /\ status' = "AWAITING_CUSTOMER_ACCEPTANCE"
  /\ priceStatus' = "SENT"
  /\ Finish(r)
  /\ UNCHANGED <<price, bookingId, assigned, bookings, trip, reopened>>

\* The catch block: give the claim back if the status is still CUSTOMER_ACCEPTED.
ReleaseClaim(r) ==
  /\ req[r].at = "release"
  /\ IF status = "CUSTOMER_ACCEPTED"
       THEN status' = "AWAITING_CUSTOMER_ACCEPTANCE" /\ priceStatus' = "SENT"
       ELSE UNCHANGED <<status, priceStatus>>
  /\ Finish(r)
  /\ UNCHANGED <<price, bookingId, assigned, bookings, trip, reopened>>

\* The last transaction: CONFIRMED, booking_id and the trip's hand-off together.
\* adminConfirmOrder then returns the booking to its caller.
ConfirmOrder(r) ==
  /\ req[r].at = "confirm"
  /\ WriteStatus("CONFIRMED")
  /\ bookingId' = req[r].bk
  /\ trip' = IF trip.exists /\ trip.booking = NoBooking
               THEN [trip EXCEPT !.booking = req[r].bk, !.status = "ASSIGNED"]
               ELSE trip
  /\ IF req[r].op = "adminConfirmOrder" THEN Goto(r, "converted") ELSE Finish(r)
  /\ UNCHANGED <<priceStatus, price, assigned, bookings>>

\* customerAccept checks the held vehicle and driver again inside that
\* transaction and throws when another consignment has taken one of them.
ConfirmRefused(r) ==
  /\ req[r].at = "confirm"
  /\ req[r].op = "customerAccept"
  /\ req[r].asg # {}
  /\ Finish(r)
  /\ UNCHANGED <<enquiryVars, bookings, trip, reopened>>

\* The caller of adminConfirmOrder has its answer (QuotationDesk continues here).
ConversionReturns(r) ==
  /\ req[r].at = "converted"
  /\ Finish(r)
  /\ UNCHANGED <<enquiryVars, bookings, trip, reopened>>

-----------------------------------------------------------------------------
(***************************************************************************)
(* Closing an enquiry: customerReject, customerCancel, adminCancel, and the *)
(* release of the vehicle and driver that follows each of them.             *)
(***************************************************************************)

CustomerReject(r) ==
  /\ "customerReject" \in Ops
  /\ status = "AWAITING_CUSTOMER_ACCEPTANCE"
  /\ Begin(r, [Idle EXCEPT !.at = "reject"])
  /\ UNCHANGED <<enquiryVars, bookings, trip, reopened>>

CustomerCancel(r) ==
  /\ "customerCancel" \in Ops
  /\ status \in CustomerCancellable
  /\ Begin(r, [Idle EXCEPT !.at = "cancel"])
  /\ UNCHANGED <<enquiryVars, bookings, trip, reopened>>

AdminCancel(r) ==
  /\ "adminCancel" \in Ops
  /\ status # "CANCELLED"
  /\ Begin(r, [Idle EXCEPT !.at = "cancel"])
  /\ UNCHANGED <<enquiryVars, bookings, trip, reopened>>

WriteRejected(r) ==
  /\ req[r].at = "reject"
  /\ WriteStatus("CUSTOMER_REJECTED")
  /\ priceStatus' = "REJECTED"
  /\ Goto(r, "findHeld")
  /\ UNCHANGED <<price, bookingId, assigned, bookings, trip>>

WriteCancelled(r) ==
  /\ req[r].at = "cancel"
  /\ WriteStatus("CANCELLED")
  /\ priceStatus' = "CANCELLED"
  /\ Goto(r, "findHeld")
  /\ UNCHANGED <<price, bookingId, assigned, bookings, trip>>

\* _releaseReservation: read the trip, return when it holds nothing ...
FindHeldTrip(r) ==
  /\ req[r].at = "findHeld"
  /\ IF trip.exists /\ trip.held # {} THEN Goto(r, "unhold") ELSE Finish(r)
  /\ UNCHANGED <<enquiryVars, bookings, trip, reopened>>

\* ... and otherwise clear the vehicle and driver on the trip and on the enquiry.
ReleaseReservation(r) ==
  /\ req[r].at = "unhold"
  /\ trip' = [trip EXCEPT !.held = {}]
  /\ assigned' = {}
  /\ Finish(r)
  /\ UNCHANGED <<status, priceStatus, price, bookingId, bookings, reopened>>

-----------------------------------------------------------------------------
(***************************************************************************)
(* The admin's desk: review, price, publish.                                *)
(***************************************************************************)

AdminSetReviewStatus(r) ==
  /\ "adminSetReviewStatus" \in Ops
  /\ status \notin TerminalStatuses
  /\ \E s \in {"ADMIN_REVIEW", "ASSIGNMENT_PENDING"} :
       /\ CanTransition(status, s)
       /\ Begin(r, [Idle EXCEPT !.at = "review", !.st = s])
  /\ UNCHANGED <<enquiryVars, bookings, trip, reopened>>

WriteReviewStatus(r) ==
  /\ req[r].at = "review"
  /\ WriteStatus(req[r].st)
  /\ Finish(r)
  /\ UNCHANGED <<priceStatus, price, bookingId, assigned, bookings, trip>>

AdminSetQuote(r) ==
  /\ "adminSetQuote" \in Ops
  /\ status \notin TerminalStatuses
  /\ status \notin CommittedStatuses \/ status = "CUSTOMER_ACCEPTED"
  /\ LET canPrepare == assigned = Resources /\ CanTransition(status, "QUOTE_READY")
     IN  \E p \in Prices :
           Begin(r, [Idle EXCEPT !.at = "quote", !.pr = p,
                                 !.st = IF canPrepare THEN "QUOTE_READY" ELSE NoStatus])
  /\ UNCHANGED <<enquiryVars, bookings, trip, reopened>>

WriteQuote(r) ==
  /\ req[r].at = "quote"
  /\ price' = req[r].pr
  /\ priceStatus' = "QUOTED"
  /\ MayWriteStatus(req[r].st)
  /\ Finish(r)
  /\ UNCHANGED <<bookingId, assigned, bookings, trip>>

AdminSendQuote(r) ==
  /\ "adminSendQuote" \in Ops
  /\ price # NoPrice
  /\ assigned = Resources
  /\ status # "AWAITING_CUSTOMER_ACCEPTANCE"
  /\ status \notin Decided
  /\ HasPath(status, "AWAITING_CUSTOMER_ACCEPTANCE")
  /\ Begin(r, [Idle EXCEPT !.at = "send", !.st = status])
  /\ UNCHANGED <<enquiryVars, bookings, trip, reopened>>

\* Mutant: the claim of adminSendQuote written by primary key.
ClaimSendByKey(r) ==
  /\ req[r].at = "send"
  /\ status' = "AWAITING_CUSTOMER_ACCEPTANCE"
  /\ Goto(r, "publish")
  /\ UNCHANGED <<priceStatus, price, bookingId, assigned, bookings, trip, reopened>>

\* The claim: updateMany ... where status is still the one that was read.
ClaimSend(r) ==
  /\ req[r].at = "send"
  /\ status = req[r].st
  /\ status' = "AWAITING_CUSTOMER_ACCEPTANCE"
  /\ GoOn(r, "publish")
  /\ UNCHANGED <<priceStatus, price, bookingId, assigned, bookings, trip, reopened>>

SendLost(r) ==
  /\ req[r].at = "send"
  /\ status # req[r].st
  /\ Finish(r)
  /\ UNCHANGED <<enquiryVars, bookings, trip, reopened>>

\* A second transaction stamps the send, and writes the status once more.
PublishQuote(r) ==
  /\ req[r].at = "publish"
  /\ WriteStatus("AWAITING_CUSTOMER_ACCEPTANCE")
  /\ priceStatus' = "SENT"
  /\ Finish(r)
  /\ UNCHANGED <<price, bookingId, assigned, bookings, trip>>

-----------------------------------------------------------------------------
(***************************************************************************)
(* adminAssign: the mirror on the enquiry first, then the reservation trip *)
(* (TripProvisioningService.ensureTripForEnquiry, then                      *)
(* TripVehicleAssignmentService.assign).                                    *)
(***************************************************************************)

\* What is not in the request is carried forward from the row as read here.
AdminAssign(r) ==
  /\ "adminAssign" \in Ops
  /\ status \notin TerminalStatuses
  /\ \E input \in SUBSET Resources :
       Begin(r, [Idle EXCEPT !.at = "reread", !.asg = assigned \cup input])
  /\ UNCHANGED <<enquiryVars, bookings, trip, reopened>>

\* Inside the transaction the row is read again, without a lock, and the next
\* status is derived from that read.
RereadForAssign(r) ==
  /\ req[r].at = "reread"
  /\ req' = [req EXCEPT ![r].at = "mirror",
                        ![r].st = NextStatusAfterAssignment(status, req[r].asg)]
  /\ UNCHANGED <<enquiryVars, bookings, trip, reopened>>

WriteMirror(r) ==
  /\ req[r].at = "mirror"
  /\ assigned' = assigned \cup req[r].asg
  /\ MayWriteStatus(req[r].st)
  /\ req' = [req EXCEPT ![r].at = "ensure", ![r].asg = assigned', ![r].st = NoStatus]
  /\ UNCHANGED <<priceStatus, price, bookingId, bookings, trip>>

\* validateAssignment finds the vehicle or driver engaged elsewhere: before the
\* mirror is written, or in the trip's transaction after the mirror is committed.
AssignRefused(r) ==
  /\ req[r].at \in {"mirror", "hold"}
  /\ req[r].asg # {}
  /\ Finish(r)
  /\ UNCHANGED <<enquiryVars, bookings, trip, reopened>>

\* ensureTripForEnquiry reads the enquiry's booking_id, then its trip.
ReadOrderOfEnquiry(r) ==
  /\ req[r].at = "ensure"
  /\ req' = [req EXCEPT ![r].at = "lookup", ![r].bk = bookingId]
  /\ UNCHANGED <<enquiryVars, bookings, trip, reopened>>

LookupTrip(r) ==
  /\ req[r].at = "lookup"
  /\ IF ~trip.exists THEN Goto(r, "make")
     ELSE IF req[r].bk # NoBooking /\ trip.booking = NoBooking THEN Goto(r, "link")
     ELSE GoOn(r, "resolve")
  /\ UNCHANGED <<enquiryVars, bookings, trip, reopened>>

\* The link is written by trip_id alone.
LinkTrip(r) ==
  /\ req[r].at = "link"
  /\ trip' = [trip EXCEPT !.booking = req[r].bk]
  /\ GoOn(r, "resolve")
  /\ UNCHANGED <<enquiryVars, bookings, reopened>>

\* Created with the booking_id read before, unless the transaction finds a trip that
\* was created meanwhile ...
MakeTrip(r) ==
  /\ req[r].at = "make"
  /\ trip' = IF trip.exists THEN trip
             ELSE [exists |-> TRUE, booking |-> req[r].bk, held |-> {}, status |-> "PENDING"]
  /\ GoOn(r, "resolve")
  /\ UNCHANGED <<enquiryVars, bookings, reopened>>

\* ... or its insert fails on the unique trips.enquiry_id, after the mirror has been
\* committed.
MakeTripLost(r) ==
  /\ req[r].at = "make"
  /\ trip.exists
  /\ Finish(r)
  /\ UNCHANGED <<enquiryVars, bookings, trip, reopened>>

\* assign: read the trip; saving what it already holds is a no-op.
ResolveTrip(r) ==
  /\ req[r].at = "resolve"
  /\ IF req[r].asg \subseteq trip.held
       THEN Finish(r)
       ELSE req' = [req EXCEPT ![r].at = "hold", ![r].hd = trip.held]
  /\ UNCHANGED <<enquiryVars, bookings, trip, reopened>>

\* The trip gets the requested resources and those it held when it was read; the
\* enquiry's mirror gets the ones that changed.
HoldOnTrip(r) ==
  /\ req[r].at = "hold"
  /\ trip' = [trip EXCEPT !.held = req[r].asg \cup req[r].hd]
  /\ assigned' = assigned \cup (req[r].asg \ req[r].hd)
  /\ Goto(r, "promote")
  /\ UNCHANGED <<status, priceStatus, price, bookingId, bookings, reopened>>

\* A PENDING trip with both resources becomes ASSIGNED, after the commit.
PromoteTrip(r) ==
  /\ req[r].at = "promote"
  /\ trip' = IF trip.status = "PENDING" /\ req[r].asg \cup req[r].hd = Resources
               THEN [trip EXCEPT !.status = "ASSIGNED"] ELSE trip
  /\ Finish(r)
  /\ UNCHANGED <<enquiryVars, bookings, reopened>>

-----------------------------------------------------------------------------

\* The process dies, or loses its database connection, between two statements.
Crash(r) ==
  /\ MayCrash
  /\ req[r] # Idle
  /\ Finish(r)
  /\ UNCHANGED <<enquiryVars, bookings, trip, reopened>>

\* A client calls an endpoint.
Arrive(r) ==
  \/ CustomerAccept(r) \/ AdminConfirmOrder(r)
  \/ CustomerReject(r) \/ CustomerCancel(r) \/ AdminCancel(r)
  \/ AdminSetReviewStatus(r) \/ AdminSetQuote(r) \/ AdminSendQuote(r) \/ AdminAssign(r)

ConversionStep(r) ==
  \/ Claim(r) \/ ClaimLost(r) \/ CreateBooking(r) \/ CreateFailsLate(r)
  \/ CreateFails(r) \/ ReleaseClaim(r) \/ ConfirmOrder(r) \/ ConfirmRefused(r)

ClosingStep(r) ==
  WriteRejected(r) \/ WriteCancelled(r) \/ FindHeldTrip(r) \/ ReleaseReservation(r)

DeskStep(r) ==
  \/ WriteReviewStatus(r) \/ WriteQuote(r) \/ ClaimSend(r) \/ SendLost(r) \/ PublishQuote(r)

AssignStep(r) ==
  \/ RereadForAssign(r) \/ WriteMirror(r) \/ AssignRefused(r) \/ ReadOrderOfEnquiry(r)
  \/ LookupTrip(r) \/ LinkTrip(r) \/ MakeTrip(r) \/ MakeTripLost(r) \/ ResolveTrip(r)
  \/ HoldOnTrip(r) \/ PromoteTrip(r)

\* A request that has arrived takes its next statement.
Step(r) == ConversionStep(r) \/ ClosingStep(r) \/ DeskStep(r) \/ AssignStep(r)

Next == \E r \in Requests : Arrive(r) \/ Step(r) \/ ConversionReturns(r) \/ Crash(r)

Spec == Init /\ [][Next]_vars

\* Node runs a request it has started to its end: its own steps are fair, the
\* arrival of a request is not.
FairSpec == Spec /\ \A r \in Requests : WF_vars(Step(r) \/ ConversionReturns(r))

-----------------------------------------------------------------------------
(***************************************************************************)
(* Properties.                                                              *)
(***************************************************************************)

Labels ==
  {"idle", "claim", "create", "release", "confirm", "converted", "reject", "cancel",
   "findHeld", "unhold", "review", "quote", "send", "publish", "reread", "mirror",
   "ensure", "lookup", "link", "make", "resolve", "hold", "promote"}

\* What a request may hold between two statements.
RequestState ==
  [at : Labels, op : {"none", "customerAccept", "adminConfirmOrder"},
   st : Statuses \cup {NoStatus}, pr : Prices \cup {NoPrice},
   asg : SUBSET Resources, hd : SUBSET Resources,
   bk : BookingIds \cup {NoBooking}]

RowsOK ==
  /\ status \in Statuses
  /\ priceStatus \in PriceStatuses
  /\ price \in Prices \cup {NoPrice}
  /\ bookingId \in BookingIds \cup {NoBooking}
  /\ assigned \in SUBSET Resources
  /\ bookings \in [BookingIds -> Prices \cup {NoPrice}]
  /\ trip \in [exists : BOOLEAN, booking : BookingIds \cup {NoBooking},
               held : SUBSET Resources, status : {"PENDING", "ASSIGNED"}]
  /\ reopened \in BOOLEAN

\* Every column of the enquiry, its bookings and its trip, and every local of a
\* request, holds a value of its type.
TypeOK == RowsOK /\ req \in [Requests -> RequestState]

\* The request owns the claim and has not finished the conversion.
Converting(r) == req[r].at \in {"create", "release", "confirm"}

\* The conversion is exclusive: while nothing has taken a decided enquiry back,
\* two requests are never converting it at once, and none is once it is an order
\* (customerAccept, "a double-click cannot create two bookings").
OneConversion ==
  ~reopened => /\ \A r, s \in Requests : Converting(r) /\ Converting(s) => r = s
               /\ \A r \in Requests : Converting(r) => bookingId = NoBooking

\* An order is never replaced by another: once booking_id is set only a write
\* that reopened the enquiry lets a later acceptance overwrite it.
\* (A part of KeepsOrderCharter below; proved by itself first.)
OrderNeverReplaced ==
  [][bookingId # NoBooking /\ ~reopened => bookingId' = bookingId]_vars

\* The operational trip belongs to the enquiry's own order: whoever binds it,
\* the acceptance or ensureTripForEnquiry, and from however old a read, it is
\* bound to the booking the enquiry is linked to.
TripFollowsOrder ==
  ~reopened => trip.booking \in {NoBooking, bookingId}

\* Where the enquiry stands, in the words of its charter.
Phase ==
  IF reopened THEN "reopened"
  ELSE CASE status = "AWAITING_CUSTOMER_ACCEPTANCE"  -> "offered"
         [] status = "CUSTOMER_ACCEPTED"             -> "accepted"
         [] status \in {"CONFIRMED", "IN_PROGRESS"}  -> "ordered"
         [] status \in TerminalStatuses              -> "closed"
         [] OTHER                                    -> "open"

Charter ==
  INSTANCE OrderCharter
  WITH phase <- Phase, takers <- {r \in Requests : Converting(r)}, order <- bookingId

\* Every statement of every handler keeps the charter: an order comes only out of an offer that
\* one request took, and a decided enquiry is offered again only by the taker that failed
\* (the catch block of customerAccept); a close in between is overtaken by the order alone.
KeepsOrderCharter == Charter!Spec

\* What the customer is asked to accept names a truck, a driver and a price, also
\* when a rejection or a cancellation is releasing the truck at that moment
\* (adminSendQuote, hasRequiredAssignment).
OfferIsComplete ==
  ~reopened /\ status = "AWAITING_CUSTOMER_ACCEPTANCE"
    => assigned = Resources /\ price # NoPrice

\* A claim is resolved: the request that took the enquiry to CUSTOMER_ACCEPTED
\* confirms the order or gives the claim back ("a transient booking failure never
\* strands the customer"), whatever the other handlers write meanwhile.  Without a
\* vehicle on the enquiry; with one, see ClaimHasOwner.
ClaimResolved ==
  status = "CUSTOMER_ACCEPTED" ~> status # "CUSTOMER_ACCEPTED"

-----------------------------------------------------------------------------
(***************************************************************************)
(* What the comments of EnquiryService.js say of the program, and the       *)
(* program does not keep.                                                   *)
(***************************************************************************)

\* The same promise for both conversions, as an invariant: an accepted enquiry
\* that is not yet an order has a request at work on it.
ClaimHasOwner ==
  status = "CUSTOMER_ACCEPTED" => \E r \in Requests : Converting(r)

\* "Once the customer has accepted, the agreed price is the contract": the order
\* carries the price the enquiry shows.
AgreedPriceIsContract ==
  status = "CONFIRMED" => bookings[bookingId] = price

\* "Idempotent: a repeated tap returns the same outcome, never a 2nd booking."
OneBookingPerEnquiry ==
  \A b, c \in BookingIds : bookings[b] # NoPrice /\ bookings[c] # NoPrice => b = c

-----------------------------------------------------------------------------
(***************************************************************************)
(* Why the first four hold: what the requests in flight know while nothing  *)
(* has reopened the enquiry.  EnquiryOrder_proofs shows it is inductive.    *)
(***************************************************************************)

\* What an enquiry can be while a request converts it: accepted, or closed behind its back.
Claimed == {"CUSTOMER_ACCEPTED"} \cup TerminalStatuses

\* A claim is held by one request, on a decided enquiry that is no order yet.
ClaimInv ==
  /\ \A r \in Requests : Converting(r) => status \in Claimed /\ bookingId = NoBooking
  /\ \A r, s \in Requests : Converting(r) /\ Converting(s) => r = s
  /\ bookingId # NoBooking => status \in Decided

\* A booking id that ensureTripForEnquiry has read is still the enquiry's.
TripInv ==
  /\ trip.booking \in {NoBooking, bookingId}
  /\ \A r \in Requests :
       req[r].at \in {"lookup", "link", "make"} => req[r].bk \in {NoBooking, bookingId}

\* Whoever releases the truck has closed the enquiry before, and it never goes
\* back to the offer.
OfferInv ==
  /\ status \in {"AWAITING_CUSTOMER_ACCEPTANCE", "CUSTOMER_ACCEPTED"}
       => assigned = Resources /\ price # NoPrice
  /\ \A r \in Requests :
       /\ req[r].at \in {"findHeld", "unhold"} => status \in Decided \ {"CUSTOMER_ACCEPTED"}
       /\ req[r].at \in {"send", "publish"} =>
            status \in Decided \/ (assigned = Resources /\ price # NoPrice)
       /\ req[r].at = "quote" => req[r].pr # NoPrice

OrderInv == ~reopened => ClaimInv /\ TripInv /\ OfferInv
=============================================================================
