----------------------------- MODULE BookingLife -----------------------------
(***************************************************************************)
(* One booking of the older booking flow (BookingService and the booking     *)
(* routes): its quote is prepared, sent with a reservation, answered by the   *)
(* customer or runs out; the answer raises the invoice and the operational    *)
(* trip; operators, bulk operations, the driver and the deletion service      *)
(* change the row meanwhile.  One action per statement or transaction, on     *)
(* READ COMMITTED.  Most handlers decide from a row read before their         *)
(* transaction and write it by primary key; accepting and rejecting are       *)
(* conditional updates.                                                      *)
(*                                                                         *)
(* The vehicle goes with the driver and is left out, as are the delivery      *)
(* row (createBooking makes it), the assignment history, the availability     *)
(* flags and the snapshots: no handler below decides by them.  That a driver   *)
(* is engaged elsewhere is a handler that ends where it began.               *)
(***************************************************************************)
EXTENDS BookingStates, Naturals, FiniteSets, Sequences

CONSTANTS
  Requests,  \* HTTP requests the server may be handling at once
  Drivers,
  Prices,
  None,      \* no driver, no price, no invoice
  FormPrices, FormDrivers, \* bound: what the edit form is sent with
  Patched,   \* the statuses an operator sets by hand
  Bulk,      \* the statuses the bulk operations are asked for
  Stages,    \* the statuses the driver reports
  MaxSends,  \* bound: reservations of the booking
  MayCrash   \* the process may die between two statements

ASSUME BookingAssumption ==
  /\ None \notin Drivers \cup Prices \cup {0} /\ 0 \notin Prices
  /\ FormPrices \subseteq Prices \cup {None} /\ FormDrivers \subseteq Drivers \cup {None}
  /\ Patched \subseteq BookingStatuses \ {"confirmed"}
  /\ Bulk \subseteq BookingStatuses
  /\ Stages \subseteq {"pickup_started", "pickup_completed", "in_transit", "out_for_delivery", "delivered"}
  /\ MaxSends \in Nat
  /\ MayCrash \in BOOLEAN

VARIABLES
  booking,      \* the row; status is GONE once it is deleted
  reservation,  \* its reservations, oldest first
  invoice,      \* the amount of its one invoice, or None
  trips,        \* the freight of each operational trip of the booking
  req,          \* what each running request has read and does next, and (history)
                \* whether the quote has changed since
  outdated,     \* history: a request wrote after the quote it had read was replaced
  reassigned,   \* history: the driver was changed by hand, on the form or by assigning one
  repriced,     \* history: the price was changed by hand, on the form
  doubled       \* history: two requests inserted a trip after neither had found one

vars == <<booking, reservation, invoice, trips, req, outdated, reassigned, repriced, doubled>>
deal == <<invoice, trips>>

\* VEHICLE_RESERVED, written for a driver without a vehicle, counts as DRIVER_RESERVED.
QuoteStatuses == {"PENDING", "PREPARING", "DRIVER_RESERVED", "SENT", "ACCEPTED", "REJECTED", "EXPIRED"}

\* Where an operator has gone ahead without a quote; the customer may answer all the same.
GoneAhead == {"driver_assigned", "confirmed", "pickup_started", "pickup_completed", "in_transit",
              "out_for_delivery", "delivered", "completed"}

Idle == [at |-> "idle", price |-> None, driver |-> None, status |-> "none", edge |-> FALSE,
         ids |-> {}, old |-> FALSE, passed |-> FALSE]

Exists == booking.status # "GONE"
Active == {i \in DOMAIN reservation : reservation[i].status = "ACTIVE"}
Turn(S, s) == [i \in DOMAIN reservation |->
                 IF i \in S THEN [reservation[i] EXCEPT !.status = s] ELSE reservation[i]]

\* Mutant: a missing price is kept as it is.
ChargeOrNothing(p) == p
Charge(p)          == IF p = None THEN 0 ELSE p

\* A handler has read what it needs and goes on; or it is over.
Begin(r, kept) == Exists /\ req[r] = Idle /\ req' = [req EXCEPT ![r] = kept]
Done(r) == req' = [req EXCEPT ![r] = Idle]

\* r's write lands, and the others now act on an older quote than the row's when it changed.
Land(r, next) ==
  /\ req' = [q \in Requests |->
       IF q = r THEN next
       ELSE IF req[q] # Idle /\ <<booking.quote, booking.price, reservation>>
                                   # <<booking'.quote, booking'.price, reservation'>>
            THEN [req[q] EXCEPT !.old = TRUE] ELSE req[q]]
  /\ outdated' = (outdated \/ req[r].old)

\* A write by primary key fails when the row is gone.
WriteByKey(r, next) ==
  IF Exists THEN Land(r, next)
  ELSE Done(r) /\ UNCHANGED <<booking, reservation, invoice, outdated>>

\* PostgreSQL makes a writer wait for the reservations an expiry has updated and not committed.
MayUpdateReservations(r) ==
  \A q \in Requests \ {r} : req[q].at = "expire" => req[q].ids \cap Active = {}

\* Both routes that create a booking give it the estimate as its price.
Init ==
  /\ \E p \in Prices :
       booking = [status |-> "pending", quote |-> "PENDING", price |-> p, driver |-> None,
                  source |-> None, lapsed |-> FALSE]
  /\ reservation = <<>> /\ invoice = None /\ trips = <<>>
  /\ req = [r \in Requests |-> Idle]
  /\ outdated = FALSE /\ reassigned = FALSE /\ repriced = FALSE /\ doubled = FALSE

------------------------------------------------------------------------------
(***************************************************************************)
(* startReview, prepareQuote, sendQuoteWithReservation.                      *)
(***************************************************************************)

StartReview(r) ==
  /\ booking.status \notin TerminalStatuses /\ booking.quote = "PENDING"
  /\ Begin(r, [Idle EXCEPT !.at = "review"])
  /\ UNCHANGED <<booking, reservation, deal, outdated, reassigned, repriced, doubled>>

WriteReview(r) ==
  /\ req[r].at = "review"
  /\ booking' = IF Exists THEN [booking EXCEPT !.quote = "PREPARING"] ELSE booking
  /\ UNCHANGED <<reservation, deal, reassigned, repriced, doubled>>
  /\ WriteByKey(r, Idle)

\* Mutants: a quote that is out with the customer, or one that is answered, is prepared again.
PreparableUnlessAnswered == booking.quote \notin {"ACCEPTED", "REJECTED"}
PreparableUnlessSent     == booking.quote # "SENT"
Preparable               == booking.quote \notin {"SENT", "ACCEPTED", "REJECTED"}

PrepareQuote(r, d, p) ==
  /\ booking.status \notin TerminalStatuses /\ Preparable
  /\ Begin(r, [Idle EXCEPT !.at = "prepare", !.driver = d, !.price = p])
  /\ UNCHANGED <<booking, reservation, deal, outdated, reassigned, repriced, doubled>>

WritePrepared(r) ==
  /\ req[r].at = "prepare"
  /\ booking' = IF Exists
                THEN [booking EXCEPT !.quote = "DRIVER_RESERVED", !.price = req[r].price,
                                     !.driver = req[r].driver, !.lapsed = FALSE]
                ELSE booking
  /\ UNCHANGED <<reservation, deal, reassigned, repriced, doubled>>
  /\ WriteByKey(r, Idle)

\* Both routes: the second reads the booking's driver first and passes it on.  Neither passes
\* force_resend, with which the service would send over a quote that is out.
SendQuote(r, d, p) ==
  /\ Len(reservation) < MaxSends
  /\ booking.status \notin TerminalStatuses
  /\ booking.quote \notin {"ACCEPTED", "SENT"}
  /\ Begin(r, [Idle EXCEPT !.at = "send", !.driver = d, !.price = p, !.ids = Active])
  /\ UNCHANGED <<booking, reservation, deal, outdated, reassigned, repriced, doubled>>

\* The transaction: the booking's row first, then the reservations.
Send(r, released) ==
  /\ req[r].at = "send" /\ Len(reservation) < MaxSends
  /\ MayUpdateReservations(r)
  /\ IF Exists
     THEN /\ booking' = [booking EXCEPT !.quote = "SENT", !.status = "quote_sent", !.lapsed = FALSE,
                                        !.price = req[r].price, !.driver = req[r].driver]
          /\ reservation' = Append(Turn(released, "RELEASED"),
                                   [driver |-> req[r].driver, status |-> "ACTIVE"])
     ELSE UNCHANGED <<booking, reservation>>
  /\ WriteByKey(r, Idle)
  /\ UNCHANGED <<deal, reassigned, repriced, doubled>>

\* Mutant: what was active is looked up before the transaction.
WriteSentLookedUp(r) == Send(r, req[r].ids)
WriteSent(r)         == Send(r, Active)

------------------------------------------------------------------------------
(***************************************************************************)
(* respondToQuote: the customer accepts or rejects, or finds it lapsed.       *)
(***************************************************************************)

Lapse ==
  /\ booking.quote = "SENT" /\ ~booking.lapsed
  /\ booking' = [booking EXCEPT !.lapsed = TRUE]
  /\ UNCHANGED <<reservation, deal, req, outdated, reassigned, repriced, doubled>>

Respond(r, answer) ==
  LET edge == booking.quote = "PENDING" /\ booking.status \in GoneAhead /\ booking.price # None
      kept == [Idle EXCEPT !.price = booking.price, !.edge = edge,
                           !.status = IF edge THEN booking.status ELSE "none"]
  IN  /\ booking.quote = "SENT" \/ edge
      /\ Begin(r, IF booking.quote = "SENT" /\ booking.lapsed THEN [Idle EXCEPT !.at = "scan"]
                  ELSE IF answer = "REJECT" THEN [kept EXCEPT !.at = "reject", !.price = None]
                  ELSE IF edge THEN [kept EXCEPT !.at = "accept", !.driver = booking.driver]
                  ELSE [kept EXCEPT !.at = "readReservation"])
      /\ UNCHANGED <<booking, reservation, deal, outdated, reassigned, repriced, doubled>>

\* releaseAllActive sees the reservations of one moment, waits for their rows, and takes those
\* that are active still; they change for others when the quote has expired with them.
ScanReservations(r) ==
  /\ req[r].at = "scan"
  /\ req' = [req EXCEPT ![r].at = "release", ![r].ids = Active]
  /\ UNCHANGED <<booking, reservation, deal, outdated, reassigned, repriced, doubled>>

ReleaseReservations(r) ==
  /\ req[r].at = "release" /\ MayUpdateReservations(r)
  /\ req' = [req EXCEPT ![r].at = "expire", ![r].ids = @ \cap Active]
  /\ UNCHANGED <<booking, reservation, deal, outdated, reassigned, repriced, doubled>>

Expire(r) ==
  /\ req[r].at = "expire"
  /\ IF Exists THEN /\ booking' = [booking EXCEPT !.quote = "EXPIRED"]
                    /\ reservation' = Turn(req[r].ids, "RELEASED")
               ELSE UNCHANGED <<booking, reservation>>
  /\ WriteByKey(r, Idle)
  /\ UNCHANGED <<deal, reassigned, repriced, doubled>>

\* getActiveByBooking: the newest active reservation
ReadReservation(r) ==
  /\ req[r].at = "readReservation"
  /\ LET newest == {i \in Active : \A j \in Active : j <= i}
     IN  req' = [req EXCEPT ![r].at = "accept",
                            ![r].driver = IF newest = {} THEN None
                                          ELSE reservation[CHOOSE i \in newest : TRUE].driver]
  /\ UNCHANGED <<booking, reservation, deal, outdated, reassigned, repriced, doubled>>

StillOpen(q) ==
  IF q.edge THEN booking.quote = "PENDING" /\ booking.status \in GoneAhead
  ELSE booking.quote = "SENT" /\ booking.status \notin TerminalStatuses

\* Mutant: the answer is written by primary key.
AnswerByKey(q) == booking.quote # "ACCEPTED"
Answerable(q)  == StillOpen(q)

\* acceptQuote: the conditional update, the reservation, the invoice once per booking.
AcceptQuote(r) ==
  /\ req[r].at = "accept" /\ MayUpdateReservations(r)
  /\ LET q == req[r]
     IN  IF Exists /\ Answerable(q)
         THEN /\ booking' = [booking EXCEPT !.quote = "ACCEPTED", !.source = "CUSTOMER", !.driver = q.driver,
                                            !.status = IF q.edge THEN q.status ELSE "confirmed"]
              /\ reservation' = IF q.edge THEN reservation ELSE Turn(Active, "CONVERTED")
              /\ invoice' = IF invoice = None THEN Charge(q.price) ELSE invoice
              /\ Land(r, [Idle EXCEPT !.at = "findTrip"])
         ELSE /\ IF booking.quote = "ACCEPTED" /\ Exists
                 THEN req' = [req EXCEPT ![r] = [Idle EXCEPT !.at = "findTrip"]] ELSE Done(r)
              /\ UNCHANGED <<booking, reservation, invoice, outdated>>
  /\ UNCHANGED <<trips, reassigned, repriced, doubled>>

RejectQuote(r) ==
  /\ req[r].at = "reject" /\ MayUpdateReservations(r)
  /\ LET q == req[r]
     IN  IF Exists /\ booking.quote = (IF q.edge THEN "PENDING" ELSE "SENT")
         THEN /\ booking' = [booking EXCEPT !.quote = "REJECTED",
                                            !.status = IF q.edge THEN q.status ELSE "rejected"]
              /\ reservation' = Turn(Active, "RELEASED")
              /\ Land(r, Idle)
         ELSE Done(r) /\ UNCHANGED <<booking, reservation, outdated>>
  /\ UNCHANGED <<deal, reassigned, repriced, doubled>>

------------------------------------------------------------------------------
(***************************************************************************)
(* confirmBooking, and ensureTripForBooking after an answer or confirmation.  *)
(***************************************************************************)

ConfirmBooking(r) ==
  /\ booking.status \notin TerminalStatuses
  /\ booking.quote = "ACCEPTED" /\ booking.source # "ADMIN"
  /\ Begin(r, [Idle EXCEPT !.at = "confirm"])
  /\ UNCHANGED <<booking, reservation, deal, outdated, reassigned, repriced, doubled>>

WriteConfirmed(r) ==
  /\ req[r].at = "confirm"
  /\ booking' = IF Exists THEN [booking EXCEPT !.status = "confirmed", !.source = "ADMIN"] ELSE booking
  /\ UNCHANGED <<reservation, deal, reassigned, repriced, doubled>>
  /\ WriteByKey(r, [Idle EXCEPT !.at = "findTrip"])

FindTrip(r) ==
  /\ req[r].at = "findTrip"
  /\ IF Exists /\ trips = <<>> /\ booking.quote = "ACCEPTED"
     THEN req' = [req EXCEPT ![r] = [Idle EXCEPT !.at = "findAgain", !.price = booking.price]]
     ELSE Done(r)
  /\ UNCHANGED <<booking, reservation, deal, outdated, reassigned, repriced, doubled>>

\* Mutant: the second look, inside the transaction, is left out.
FindAgainSkipped(r) ==
  /\ req[r].at = "findAgain"
  /\ req' = [req EXCEPT ![r].at = "insertTrip"]
  /\ UNCHANGED <<booking, reservation, deal, outdated, reassigned, repriced, doubled>>

FindAgain(r) ==
  /\ req[r].at = "findAgain"
  /\ IF trips = <<>> THEN req' = [req EXCEPT ![r].at = "insertTrip"] ELSE Done(r)
  /\ UNCHANGED <<booking, reservation, deal, outdated, reassigned, repriced, doubled>>

InsertTrip(r) ==
  /\ req[r].at = "insertTrip"
  /\ IF Exists
     THEN /\ trips' = Append(trips, Charge(req[r].price))
          /\ doubled' = (doubled \/ req[r].passed)
          /\ req' = [q \in Requests |->
               IF q = r THEN Idle
               ELSE IF req[q].at = "insertTrip" THEN [req[q] EXCEPT !.passed = TRUE] ELSE req[q]]
     ELSE Done(r) /\ UNCHANGED <<trips, doubled>>
  /\ UNCHANGED <<booking, reservation, invoice, outdated, reassigned, repriced>>

------------------------------------------------------------------------------
(***************************************************************************)
(* What operators, the driver and the deletion service do to the row.         *)
(***************************************************************************)

\* The status endpoint and the edit form write without looking; so does clearing the driver.
SetStatus(s) ==
  /\ Exists /\ booking' = [booking EXCEPT !.status = s]
  /\ UNCHANGED <<reservation, deal, req, outdated, reassigned, repriced, doubled>>

\* A field the form does not send stays as it is.
EditBooking ==
  /\ Exists
  /\ \E p \in FormPrices \cup {booking.price}, d \in FormDrivers \cup {booking.driver} :
       booking' = [booking EXCEPT !.price = p, !.driver = d]
  /\ reassigned' = (reassigned \/ booking'.driver # booking.driver)
  /\ repriced' = (repriced \/ booking'.price # booking.price)
  /\ UNCHANGED <<reservation, deal, req, outdated, doubled>>

ClearDriver ==
  /\ Exists /\ booking' = [booking EXCEPT !.driver = None, !.status = "pending"]
  /\ reassigned' = (reassigned \/ booking.driver # None)
  /\ UNCHANGED <<reservation, deal, req, outdated, repriced, doubled>>

\* assign-driver with a driver, assign-driver-details without.
AssignDriver(r, d) ==
  /\ booking.status \notin {"cancelled", "completed", "delivered"}
  /\ Begin(r, [Idle EXCEPT !.at = "assign", !.driver = d])
  /\ UNCHANGED <<booking, reservation, deal, outdated, reassigned, repriced, doubled>>

WriteAssigned(r) ==
  /\ req[r].at = "assign"
  /\ booking' = IF Exists THEN [booking EXCEPT !.status = "driver_assigned",
                                   !.driver = IF req[r].driver = None THEN @ ELSE req[r].driver]
                ELSE booking
  /\ reassigned' = (reassigned \/ booking'.driver # booking.driver)
  /\ Done(r)
  /\ UNCHANGED <<reservation, deal, outdated, repriced, doubled>>

\* Mutant: the table alone decides of a bulk confirmation.
BulkByTable(s) == s \in Bulk /\ MayTurn(booking.status, s)
BulkMay(s)     == s \in Bulk /\ MayTurn(booking.status, s) /\ (s = "confirmed" => booking.quote = "ACCEPTED")

\* The customer's cancel route, the driver's progress and the bulk operations: each decides from
\* the row it has read whether the status may be written.
ChangeStatus(r, s) ==
  /\ \/ s = "cancelled" /\ booking.status \notin {"in_transit", "delivered", "completed", "cancelled"}
     \/ s \in Stages /\ booking.driver # None /\ MayTurn(booking.status, s)
     \/ BulkMay(s)
  /\ Begin(r, [Idle EXCEPT !.at = "status", !.status = s])
  /\ UNCHANGED <<booking, reservation, deal, outdated, reassigned, repriced, doubled>>

WriteStatus(r) ==
  /\ req[r].at = "status"
  /\ booking' = IF Exists THEN [booking EXCEPT !.status = req[r].status] ELSE booking
  /\ UNCHANGED <<reservation, deal, reassigned, repriced, doubled>>
  /\ WriteByKey(r, Idle)

\* The deletion service; the delete route asks for less to be attached and does the same.
DeleteBooking(r) ==
  /\ booking.status \in {"cancelled", "rejected"}
  /\ Begin(r, [Idle EXCEPT !.at = "delete"])
  /\ UNCHANGED <<booking, reservation, deal, outdated, reassigned, repriced, doubled>>

\* The row and, by cascade, its reservations and invoice; a trip loses its booking.
WriteDeleted(r) ==
  /\ req[r].at = "delete" /\ MayUpdateReservations(r)
  /\ booking' = [booking EXCEPT !.status = "GONE"]
  /\ reservation' = <<>> /\ invoice' = None
  /\ Done(r)
  /\ UNCHANGED <<trips, outdated, reassigned, repriced, doubled>>

Crash(r) ==
  /\ MayCrash /\ req[r] # Idle /\ Done(r)
  /\ UNCHANGED <<booking, reservation, deal, outdated, reassigned, repriced, doubled>>

Arrive(r) ==
  \/ StartReview(r) \/ ConfirmBooking(r) \/ DeleteBooking(r)
  \/ \E d \in Drivers, p \in Prices : PrepareQuote(r, d, p) \/ SendQuote(r, d, p)
  \/ \E answer \in {"ACCEPT", "REJECT"} : Respond(r, answer)
  \/ \E d \in Drivers \cup {None} : AssignDriver(r, d)
  \/ \E s \in Stages \cup Bulk \cup {"cancelled"} : ChangeStatus(r, s)

Step(r) ==
  \/ WriteReview(r) \/ WritePrepared(r) \/ WriteSent(r)
  \/ ScanReservations(r) \/ ReleaseReservations(r) \/ Expire(r)
  \/ ReadReservation(r) \/ AcceptQuote(r) \/ RejectQuote(r)
  \/ WriteConfirmed(r) \/ FindTrip(r) \/ FindAgain(r) \/ InsertTrip(r)
  \/ WriteAssigned(r) \/ WriteStatus(r) \/ WriteDeleted(r) \/ Crash(r)

ByHand ==
  \/ Lapse \/ ClearDriver \/ EditBooking
  \/ \E s \in Patched : SetStatus(s)

Next == (\E r \in Requests : Arrive(r) \/ Step(r)) \/ ByHand

Spec == Init /\ [][Next]_vars

------------------------------------------------------------------------------
(***************************************************************************)
(* Properties.                                                              *)
(***************************************************************************)

\* Every row and every request keeps its type.
BookingTypeOK ==
  /\ booking \in [status : BookingStatuses \cup {"GONE"}, quote : QuoteStatuses,
                  price : Prices \cup {None}, driver : Drivers \cup {None},
                  source : {None, "CUSTOMER", "ADMIN"}, lapsed : BOOLEAN]
  /\ reservation \in Seq([driver : Drivers, status : {"ACTIVE", "CONVERTED", "RELEASED"}])
  /\ Len(reservation) <= MaxSends
  /\ invoice \in Prices \cup {None, 0} /\ trips \in Seq(Prices \cup {0})
  /\ req \in [Requests ->
       [at : {"idle", "review", "prepare", "send", "scan", "release", "expire", "readReservation",
              "accept", "reject", "confirm", "findTrip", "findAgain", "insertTrip", "assign",
              "status", "delete"},
        price : Prices \cup {None}, driver : Drivers \cup {None},
        status : BookingStatuses \cup {"none"}, edge : BOOLEAN,
        ids : SUBSET (1 .. MaxSends), old : BOOLEAN, passed : BOOLEAN]]
  /\ {outdated, reassigned, repriced, doubled} \subseteq BOOLEAN

\* Two quotes sent at once, an expiry and an answer leave at most one active reservation:
\* sendQuoteWithReservation releases what is active after it has the booking's row.
OneActiveReservation == Cardinality(Active) <= 1

\* Unless a request wrote on a quote that had been replaced, a driver is held exactly while a
\* quote is open to the customer, and it is the driver the booking shows.
HeldForOpenQuote ==
  Exists /\ ~outdated =>
    /\ Active # {} <=> booking.quote = "SENT"
    /\ ~reassigned => \A i \in Active : reservation[i].driver = booking.driver

\* Unless a request wrote on a quote that had been replaced, a confirmed booking is one whose
\* quote the customer has accepted, whoever confirmed it.
ConfirmedIsAccepted == ~outdated /\ booking.status = "confirmed" => booking.quote = "ACCEPTED"

\* Unless the price was changed by hand or the quote was replaced under a request, invoice and
\* trips of an accepted booking carry its price, also where the customer accepts the estimate of
\* a booking that was given a driver and no quote; whoever drives.
DealAgrees ==
  Exists /\ booking.quote = "ACCEPTED" /\ ~outdated /\ ~repriced =>
    invoice = booking.price /\ \A i \in DOMAIN trips : trips[i] = invoice

\* Two taps and two devices: an accepted quote is never turned into a rejected one, nor a rejected
\* one into an accepted one; respondToQuote answers from an old read and updates conditionally.
AnswerStands == [][Exists => {booking.quote, booking'.quote} # {"ACCEPTED", "REJECTED"}]_vars

\* A booking gets a second trip only from two requests that both had found none inside their
\* transactions before either inserted one.
OneTripUnlessOverlap == Len(trips) <= 1 \/ doubled

==============================================================================
