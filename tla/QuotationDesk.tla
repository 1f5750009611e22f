---------------------------- MODULE QuotationDesk ----------------------------
(***************************************************************************)
(* The quotation screen (services/QuotationService.js) working on the same  *)
(* enquiry as EnquiryOrder: an admin saves a quotation, sends it, and       *)
(* confirms the order on the customer's word.  confirmOrder writes the      *)
(* price, brings the enquiry to AWAITING_CUSTOMER_ACCEPTANCE, calls         *)
(* EnquiryService.adminConfirmOrder and then records a snapshot of the      *)
(* quotation on the booking, each in a statement or transaction of its own. *)
(*                                                                          *)
(* An amount stands for the rows it is computed from: `lines` for the       *)
(* freight, charges and schedule, `total` for total_billing_amount.         *)
(***************************************************************************)
EXTENDS EnquiryOrder, Naturals

CONSTANTS
  DeskOps   \* the endpoints of the quotation screen that are called

ASSUME DeskAssumption ==
  DeskOps \subseteq {"saveQuotation", "sendQuotation", "confirmOrder"}

VARIABLES
  quotation,  \* the row of quotations with this enquiry_id
  snapshot,   \* booking_quotation_snapshots: booking id -> total_billing_amount
  desk        \* what each running request of the screen has read and does next

deskVars == <<quotation, snapshot, desk>>
allVars  == <<vars, deskVars>>

-----------------------------------------------------------------------------

NoQuotation == [status |-> "NONE", lines |-> NoPrice, total |-> NoPrice]

AtRest == [at |-> "rest", amount |-> NoPrice, seen |-> NoQuotation,
           st |-> NoStatus, bk |-> NoBooking]

\* A request starts at the screen when it is doing nothing else.
Open(r, seen) ==
  /\ desk[r] = AtRest
  /\ req[r] = Idle
  /\ desk' = [desk EXCEPT ![r] = seen]

DeskGoto(r, l) == desk' = [desk EXCEPT ![r].at = l]
Close(r)       == desk' = [desk EXCEPT ![r] = AtRest]

DeskInit ==
  /\ Init
  /\ quotation = NoQuotation
  /\ snapshot = [b \in BookingIds |-> NoPrice]
  /\ desk = [r \in Requests |-> AtRest]

-----------------------------------------------------------------------------
(***************************************************************************)
(* saveQuotation                                                            *)
(***************************************************************************)

\* Refused once the enquiry is an order; then the quotation itself is read.
SaveQuotation(r) ==
  /\ "saveQuotation" \in DeskOps
  /\ bookingId = NoBooking
  /\ \E p \in Prices : Open(r, [AtRest EXCEPT !.at = "saveLoad", !.amount = p])
  /\ UNCHANGED <<vars, quotation, snapshot>>

LoadForSave(r) ==
  /\ desk[r].at = "saveLoad"
  /\ IF quotation.status = "CONVERTED"
       THEN Close(r)
       ELSE desk' = [desk EXCEPT ![r].at = "save", ![r].seen = quotation]
  /\ UNCHANGED <<vars, quotation, snapshot>>

\* Mutant: the first save leaves the schema's default.
KeepsDraft(seen) == IF seen = "NONE" THEN "DRAFT" ELSE seen

\* The status is carried over from the row that was read.
NextQuotationStatus(seen) == IF seen \in {"NONE", "DRAFT"} THEN "RATE_QUOTED" ELSE seen

\* The transaction writes the row by quotation_id, or creates it; a second
\* creation fails on the unique enquiry_id.
WriteQuotation(r) ==
  /\ desk[r].at = "save"
  /\ IF desk[r].seen.status = "NONE" /\ quotation.status # "NONE"
       THEN Close(r) /\ UNCHANGED quotation
       ELSE LET s == NextQuotationStatus(desk[r].seen.status)
            IN  /\ quotation' = [status |-> s, lines |-> desk[r].amount, total |-> desk[r].amount]
                /\ IF s = "RATE_QUOTED" THEN DeskGoto(r, "savePrice") ELSE Close(r)
  /\ UNCHANGED <<vars, snapshot>>

\* price_status follows in a statement of its own.
WriteSavedPriceStatus(r) ==
  /\ desk[r].at = "savePrice"
  /\ priceStatus' = "QUOTED"
  /\ Close(r)
  /\ UNCHANGED <<status, price, bookingId, assigned, bookings, trip, req, reopened,
                 quotation, snapshot>>

-----------------------------------------------------------------------------
(***************************************************************************)
(* sendQuotation                                                            *)
(***************************************************************************)

SendQuotation(r) ==
  /\ "sendQuotation" \in DeskOps
  /\ quotation.status \in {"DRAFT", "RATE_QUOTED"}
  /\ Open(r, [AtRest EXCEPT !.at = "send", !.seen = quotation])
  /\ UNCHANGED <<vars, quotation, snapshot>>

\* One transaction: claim the quotation, stamp the total computed from the rows
\* read before, and walk the enquiry to AWAITING_CUSTOMER_ACCEPTANCE if the state
\* machine has a path.  final_quoted_price is not written.
PublishQuotation(r) ==
  /\ desk[r].at = "send"
  /\ quotation.status \in {"DRAFT", "RATE_QUOTED"}
  /\ quotation' = [quotation EXCEPT !.status = "SENT", !.total = desk[r].seen.lines]
  /\ priceStatus' = "SENT"
  /\ status' = IF HasPath(status, "AWAITING_CUSTOMER_ACCEPTANCE")
                 THEN "AWAITING_CUSTOMER_ACCEPTANCE" ELSE status
  /\ Close(r)
  /\ UNCHANGED <<price, bookingId, assigned, bookings, trip, req, reopened, snapshot>>

SendRaceLost(r) ==
  /\ desk[r].at = "send"
  /\ quotation.status \notin {"DRAFT", "RATE_QUOTED"}
  /\ Close(r)
  /\ UNCHANGED <<vars, quotation, snapshot>>

-----------------------------------------------------------------------------
(***************************************************************************)
(* confirmOrder                                                             *)
(***************************************************************************)

ConfirmQuotation(r) ==
  /\ "confirmOrder" \in DeskOps
  /\ Open(r, [AtRest EXCEPT !.at = "confirmLoad", !.bk = bookingId])
  /\ UNCHANGED <<vars, quotation, snapshot>>

\* Only a quotation that was sent; one that is converted already, with its order,
\* is answered at once.
LoadForConfirm(r) ==
  /\ desk[r].at = "confirmLoad"
  /\ IF \/ quotation.status \notin {"SENT", "CONVERTED"}
        \/ quotation.status = "CONVERTED" /\ desk[r].bk # NoBooking
       THEN Close(r)
       ELSE desk' = [desk EXCEPT ![r].at = "price", ![r].seen = quotation]
  /\ UNCHANGED <<vars, quotation, snapshot>>

\* final_quoted_price is overwritten whatever the enquiry's status.
TakePrice(r) ==
  /\ desk[r].at = "price"
  /\ price' = desk[r].seen.total
  /\ priceStatus' = "QUOTED"
  /\ DeskGoto(r, "fresh")
  /\ UNCHANGED <<status, bookingId, assigned, bookings, trip, req, reopened, quotation, snapshot>>

ReadFreshStatus(r) ==
  /\ desk[r].at = "fresh"
  /\ HasPath(status, "AWAITING_CUSTOMER_ACCEPTANCE")
  /\ desk' = [desk EXCEPT ![r].st = status,
                ![r].at = IF status = "AWAITING_CUSTOMER_ACCEPTANCE" THEN "convert" ELSE "bring"]
  /\ UNCHANGED <<vars, quotation, snapshot>>

\* shortestPath is null: "cannot reach the customer-acceptance stage".
RefuseByStatus(r) ==
  /\ desk[r].at = "fresh"
  /\ ~HasPath(status, "AWAITING_CUSTOMER_ACCEPTANCE")
  /\ Close(r)
  /\ UNCHANGED <<vars, quotation, snapshot>>

\* Mutant: the status written by primary key, as the sending transaction does.
BringByKey(r) ==
  /\ desk[r].at = "bring"
  /\ status' = "AWAITING_CUSTOMER_ACCEPTANCE"
  /\ DeskGoto(r, "convert")
  /\ UNCHANGED <<priceStatus, price, bookingId, assigned, bookings, trip, req, reopened,
                 quotation, snapshot>>

\* updateMany ... where status is still the fresh one.
BringToAcceptance(r) ==
  /\ desk[r].at = "bring"
  /\ status = desk[r].st
  /\ status' = "AWAITING_CUSTOMER_ACCEPTANCE"
  /\ DeskGoto(r, "convert")
  /\ UNCHANGED <<priceStatus, price, bookingId, assigned, bookings, trip, req, reopened,
                 quotation, snapshot>>

BringLost(r) ==
  /\ desk[r].at = "bring"
  /\ status # desk[r].st
  /\ Close(r)
  /\ UNCHANGED <<vars, quotation, snapshot>>

\* Mutant: the quotation is marked converted before the order exists.
MarksConvertedFirst(r) ==
  /\ desk[r].at = "convert"
  /\ Convert(r, "adminConfirmOrder")
  /\ DeskGoto(r, "wait")
  /\ quotation' = [quotation EXCEPT !.status = "CONVERTED"]
  /\ UNCHANGED snapshot

\* adminConfirmOrder loads the enquiry and runs the conversion of EnquiryOrder ...
StartConversion(r) ==
  /\ desk[r].at = "convert"
  /\ Convert(r, "adminConfirmOrder")
  /\ DeskGoto(r, "wait")
  /\ UNCHANGED <<quotation, snapshot>>

\* ... or finds it accepted already, and answers with its booking if it has one ...
FindOrder(r) ==
  /\ desk[r].at = "convert"
  /\ status \in {"CUSTOMER_ACCEPTED", "CONFIRMED"}
  /\ IF bookingId # NoBooking
       THEN desk' = [desk EXCEPT ![r].at = "snapshot", ![r].bk = bookingId]
       ELSE Close(r)
  /\ UNCHANGED <<vars, quotation, snapshot>>

\* ... or refuses, when the status is neither.
ConversionRefused(r) ==
  /\ desk[r].at = "convert"
  /\ status \notin {"AWAITING_CUSTOMER_ACCEPTANCE", "CUSTOMER_ACCEPTED", "CONFIRMED"}
  /\ Close(r)
  /\ UNCHANGED <<vars, quotation, snapshot>>

\* Mutant: the screen goes on as soon as the booking row exists.
TakesBookingEarly(r) ==
  /\ desk[r].at = "wait"
  /\ req[r].at \in {"confirm", "converted"}
  /\ desk' = [desk EXCEPT ![r].at = "snapshot", ![r].bk = req[r].bk]
  /\ Finish(r)
  /\ UNCHANGED <<enquiryVars, bookings, trip, reopened, quotation, snapshot>>

ConversionDone(r) ==
  /\ desk[r].at = "wait"
  /\ req[r].at = "converted"
  /\ desk' = [desk EXCEPT ![r].at = "snapshot", ![r].bk = req[r].bk]
  /\ Finish(r)
  /\ UNCHANGED <<enquiryVars, bookings, trip, reopened, quotation, snapshot>>

\* The claim was lost, or no booking could be created.
ConversionFailed(r) ==
  /\ desk[r].at = "wait"
  /\ req[r] = Idle
  /\ Close(r)
  /\ UNCHANGED <<vars, quotation, snapshot>>

\* The last transaction: the snapshot if the booking has none, CONVERTED, ACCEPTED.
TakeSnapshot(r) ==
  /\ desk[r].at = "snapshot"
  /\ snapshot' = IF snapshot[desk[r].bk] = NoPrice
                   THEN [snapshot EXCEPT ![desk[r].bk] = desk[r].seen.total]
                   ELSE snapshot
  /\ quotation' = [quotation EXCEPT !.status = "CONVERTED"]
  /\ priceStatus' = "ACCEPTED"
  /\ Close(r)
  /\ UNCHANGED <<status, price, bookingId, assigned, bookings, trip, req, reopened>>

-----------------------------------------------------------------------------

\* The request dies at the screen, and the conversion it was waiting for with it.
DeskCrash(r) ==
  /\ MayCrash
  /\ desk[r] # AtRest
  /\ Close(r)
  /\ Finish(r)
  /\ UNCHANGED <<enquiryVars, bookings, trip, reopened, quotation, snapshot>>

ScreenStep(r) ==
  \/ LoadForSave(r) \/ WriteQuotation(r) \/ WriteSavedPriceStatus(r)
  \/ PublishQuotation(r) \/ SendRaceLost(r)
  \/ LoadForConfirm(r) \/ TakePrice(r) \/ ReadFreshStatus(r) \/ RefuseByStatus(r)
  \/ BringToAcceptance(r) \/ BringLost(r) \/ StartConversion(r) \/ FindOrder(r)
  \/ ConversionRefused(r) \/ ConversionDone(r) \/ ConversionFailed(r) \/ TakeSnapshot(r)

\* What EnquiryService does meanwhile: requests of its own, and the conversion of a
\* request that waits for it at the screen.
EnquiryStep(r) == Step(r) /\ UNCHANGED deskVars

EnquiryArrive(r) == desk[r] = AtRest /\ Arrive(r) /\ UNCHANGED deskVars
EnquiryCrash(r) == desk[r] = AtRest /\ Crash(r) /\ UNCHANGED deskVars

QuotationArrive(r) == SaveQuotation(r) \/ SendQuotation(r) \/ ConfirmQuotation(r)

Uninterrupted ==
  \E r \in Requests : QuotationArrive(r) \/ ScreenStep(r) \/ EnquiryArrive(r) \/ EnquiryStep(r)

DeskNext == Uninterrupted \/ \E r \in Requests : DeskCrash(r) \/ EnquiryCrash(r)

DeskSpec == DeskInit /\ [][DeskNext]_allVars

\* As in EnquiryOrder, a request that has started runs to its end; the process does not die.
FairDeskSpec ==
  /\ DeskInit /\ [][Uninterrupted]_allVars
  /\ \A r \in Requests : WF_allVars(ScreenStep(r) \/ EnquiryStep(r))
-----------------------------------------------------------------------------
(***************************************************************************)
(* Properties.                                                              *)
(***************************************************************************)

QuotationStatuses == {"NONE", "RATE_QUOTED", "SENT", "CONVERTED"}

ScreenLabels ==
  {"rest", "saveLoad", "save", "savePrice", "send", "confirmLoad", "price", "fresh",
   "bring", "convert", "wait", "snapshot"}

\* The quotation, its snapshots and every local of a request at the screen hold
\* values of their types; no DRAFT is ever stored.
DeskTypeOK ==
  LET amounts == Prices \cup {NoPrice}
      rows == [status : QuotationStatuses, lines : amounts, total : amounts]
  IN  /\ quotation \in rows
      /\ snapshot \in [BookingIds -> amounts]
      /\ desk \in [Requests -> [at : ScreenLabels, amount : amounts, seen : rows,
                                st : Statuses \cup {NoStatus}, bk : BookingIds \cup {NoBooking}]]

\* A quotation says it was converted only when the enquiry has its order, however
\* confirmOrder was interrupted, retried or raced by the customer's acceptance.
ConvertedHasOrder ==
  quotation.status = "CONVERTED" => bookingId # NoBooking

\* The frozen money sits on the order: a snapshot belongs to the booking the
\* enquiry is linked to, also when the booking was found and not created.
SnapshotOfTheOrder ==
  ~reopened => \A b \in BookingIds : snapshot[b] # NoPrice => b = bookingId

\* confirmOrder: "If the enquiry already has a Booking, the existing path returns
\* `alreadyAccepted` ... Retrying this endpoint is safe": no confirmation is refused
\* on an enquiry that is an order.
RetryFindsOrder ==
  [][\A r \in Requests : RefuseByStatus(r) => bookingId = NoBooking]_allVars
=============================================================================
